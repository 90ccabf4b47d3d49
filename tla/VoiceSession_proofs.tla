-------------------------- MODULE VoiceSession_proofs --------------------------
(***************************************************************************)
(* What is proved of VoiceConnection and of VoiceSession for every set of   *)
(* versions, transitions and users, any number of frames and connections,   *)
(* and any width of the binary numbers.  First the connection against an    *)
(* arbitrary gateway: what it acknowledges, asks for and reports is backed  *)
(* by what it keeps and sends.  Then the connection and a gateway that      *)
(* follows the protocol: they agree, whatever crosses on the way.           *)
(***************************************************************************)
EXTENDS VoiceSession, DaveHandler_proofs, Arithmetic

-----------------------------------------------------------------------------
(* The calls of the DAVE handler that the loop composes.                    *)

LEMMA ExecutedFacts ==
    ASSUME NEW d \in Handler, NEW id, NEW v
    PROVE  /\ Executed(d, id, v) \in Handler
           /\ HasSession(d) => HasSession(Executed(d, id, v))
BY PassthroughFacts DEF Executed

-----------------------------------------------------------------------------
(* The queue.                                                              *)

LEMMA RangeConcat ==
    ASSUME NEW S, NEW p \in Seq(S), NEW q \in Seq(S)
    PROVE  Range(p \o q) = Range(p) \cup Range(q)
<1>1. /\ Range(p) \subseteq Range(p \o q)
      /\ Range(p \o q) \subseteq Range(p) \cup Range(q)
  BY DEF Range
<1>2. ASSUME NEW x \in Range(q) PROVE x \in Range(p \o q)
  <2>1. PICK i \in 1..Len(q) : x = q[i]
    BY DEF Range
  <2>2. Len(p) + i \in 1..Len(p \o q) /\ (p \o q)[Len(p) + i] = q[i]
    OBVIOUS
  <2> QED BY <2>1, <2>2 DEF Range
<1> QED BY <1>1, <1>2

LEMMA RangeHeadTail ==
    ASSUME NEW S, NEW p \in Seq(S), p # <<>>
    PROVE  /\ Head(p) \in S
           /\ Tail(p) \in Seq(S)
           /\ Range(p) = {Head(p)} \cup Range(Tail(p))
<1>1. Range(p) \subseteq {Head(p)} \cup Range(Tail(p))
  <2> SUFFICES ASSUME NEW i \in 1..Len(p), i # 1
               PROVE  p[i] \in Range(Tail(p))
    BY DEF Range
  <2>1. i - 1 \in 1..Len(Tail(p)) /\ Tail(p)[i - 1] = p[i]
    OBVIOUS
  <2>2. DOMAIN Tail(p) = 1..Len(Tail(p))
    OBVIOUS
  <2> DEFINE t == Tail(p)
  <2> HIDE DEF t
  <2> QED BY <2>1, <2>2 DEF Range
<1>2. {Head(p)} \cup Range(Tail(p)) \subseteq Range(p)
  BY DEF Range
<1> QED BY <1>1, <1>2

LEMMA RangeShort ==
    ASSUME NEW S, NEW a \in S, NEW b \in S
    PROVE  /\ <<a>> \in Seq(S) /\ Range(<<a>>) = {a}
           /\ <<a, b>> \in Seq(S) /\ Range(<<a, b>>) = {a, b}
BY DEF Range

(* Queueing forgets nothing, and while the writer runs the queue gets      *)
(* exactly the new frames.                                                 *)
LEMMA SendFacts ==
    ASSUME TypeOK, NEW msgs \in Seq(Outbound),
           out' = Send(msgs), wire' = wire
    PROVE  /\ out' \in Seq(Outbound)
           /\ Sent \subseteq Sent'
           /\ Sent' \subseteq Sent \cup Range(msgs)
           /\ writer = "running" => Range(msgs) \subseteq Sent'
<1>1. out \in Seq(Outbound)
  BY DEF TypeOK
<1>2. Range(out \o msgs) = Range(out) \cup Range(msgs) /\ out \o msgs \in Seq(Outbound)
  BY <1>1, RangeConcat
<1> QED BY <1>1, <1>2 DEF Send, Sent

LEMMA InboundFields ==
    ASSUME NEW m \in Inbound
    PROVE  /\ m.seq \in OptSeq
           /\ m.op = "SelectProtocolAck" => m.version \in Versions
           /\ m.op = "ClientsConnect" => m.user_ids \subseteq Users
           /\ m.op = "PrepareTransition" => m.id \in TransitionIds /\ m.version \in Versions
           /\ m.op = "ExecuteTransition" => m.id \in TransitionIds
           /\ m.op = "PrepareEpoch" => m.version \in Versions
           /\ m.op = "Proposals" => m.seq \in Seqs
           /\ m.op = "AnnounceCommit" => m.id \in TransitionIds
           /\ m.op = "Welcome" => m.id \in TransitionIds
BY DEF Inbound, OptSeq

-----------------------------------------------------------------------------
(* What a frame handler does to the state the invariants relate, `msgs`    *)
(* being the frames it queues.                                             *)

Effect(msgs) ==
    /\ msgs \in Seq(Outbound)
    /\ out' = Send(msgs)
    /\ wire' = wire
    /\ writer' = writer
    /\ loop = "running"
    /\ dave' \in Handler
    /\ HasSession(dave) => HasSession(dave')
    /\ KeyPackage \in Range(msgs) => HasSession(dave')
    /\ pending_transitions' \in [TransitionIds -> Versions \cup {None}]
    /\ \A id \in TransitionIds :
          \/ pending_transitions'[id] \in {None, pending_transitions[id]}
          \/ id # 0 /\ TransitionReady(id) \in Range(msgs)
    /\ events' \subseteq VoiceEvent
    /\ \A e \in events' \ events :
          /\ e.op = "SelectProtocolAck" /\ e.version # 0 => KeyPackage \in Range(msgs)
          /\ e.op = "MlsCommitWelcome" => CommitWelcome(e.seq) \in Range(msgs)

(* A handler that queues nothing and tells the application nothing that    *)
(* has to be backed.                                                       *)
LEMMA QuietEffect ==
    ASSUME TypeOK, loop = "running", out' = out, wire' = wire, writer' = writer,
           dave' \in Handler, HasSession(dave) => HasSession(dave'),
           pending_transitions' \in [TransitionIds -> Versions \cup {None}],
           \A id \in TransitionIds :
               pending_transitions'[id] \in {None, pending_transitions[id]},
           events' \subseteq events \cup {[op |-> "Ready"], [op |-> "Resumed"]}
    PROVE  Effect(<<>>)
<1>1. <<>> \in Seq(Outbound) /\ Range(<<>>) = {} /\ out' = Send(<<>>)
  <2>1. out \o <<>> = out
    BY DEF TypeOK
  <2> QED BY <2>1 DEF Range, Send
<1>2. events' \subseteq VoiceEvent
  BY DEF TypeOK, VoiceEvent
<1>3. ASSUME NEW e \in events' \ events
      PROVE  e.op # "SelectProtocolAck" /\ e.op # "MlsCommitWelcome"
  BY <1>3
<1> QED BY <1>1, <1>2, <1>3 DEF Effect

LEMMA FrameTypes ==
    /\ KeyPackage \in Outbound
    /\ \A s \in Seqs : CommitWelcome(s) \in Outbound
    /\ \A id \in TransitionIds : TransitionReady(id) \in Outbound
    /\ \A id \in TransitionIds : InvalidCommit(id) \in Outbound
    /\ \A id \in TransitionIds : InvalidCommit(id) # KeyPackage
    /\ \A id \in TransitionIds : TransitionReady(id) # KeyPackage
    /\ \A s \in Seqs : CommitWelcome(s) # KeyPackage
BY DEF Outbound, KeyPackage, CommitWelcome, TransitionReady, InvalidCommit

-----------------------------------------------------------------------------
(* Every handler has such an effect.                                       *)

LEMMA SelectProtocolAckEffect ==
    ASSUME TypeOK, NEW m \in Inbound, HandleSelectProtocolAck(m)
    PROVE  \E msgs : Effect(msgs)
<1> USE DEF HandleSelectProtocolAck, Receive, Take
<1>0. m.version \in Versions /\ dave \in Handler
  BY InboundFields DEF TypeOK
<1>1. CASE ~m.sdp
  BY <1>1, QuietEffect DEF TypeOK
<1>2. CASE m.sdp
  <2>1. PICK o \in DaveInit(dave, m.version) :
           /\ dave' = o.dave
           /\ out' = IF o.ret = "key_package" THEN Send(<<KeyPackage>>) ELSE out
           /\ events' = IF o.ret = "err" THEN events
                        ELSE events \cup {[op |-> "SelectProtocolAck", version |-> m.version]}
    BY <1>2
  <2>2. /\ dave' \in Handler
        /\ o.ret \in {"ok", "key_package", "err"}
        /\ HasSession(dave) => HasSession(dave')
        /\ o.ret = "key_package" => HasSession(dave')
        /\ o.ret = "ok" => m.version = 0
    BY <1>0, <2>1, DaveInitFacts
  <2>3. events' \subseteq VoiceEvent
    BY <1>0, <2>1 DEF TypeOK, VoiceEvent
  <2>4. ASSUME NEW e \in events' \ events
        PROVE  o.ret # "err" /\ e = [op |-> "SelectProtocolAck", version |-> m.version]
    BY <2>1, <2>4
  <2>5. CASE o.ret = "key_package"
    <3>1. <<KeyPackage>> \in Seq(Outbound) /\ Range(<<KeyPackage>>) = {KeyPackage}
      BY FrameTypes, RangeShort
    <3>2. Effect(<<KeyPackage>>)
      BY <2>1, <2>2, <2>3, <2>4, <2>5, <3>1 DEF Effect, TypeOK
    <3> QED BY <3>2
  <2>6. CASE o.ret # "key_package"
    <3>1. <<>> \in Seq(Outbound) /\ Range(<<>>) = {} /\ out' = Send(<<>>)
      <4>1. out \o <<>> = out
        BY DEF TypeOK
      <4> QED BY <2>1, <2>6, <4>1 DEF Range, Send
    <3>2. Effect(<<>>)
      BY <2>1, <2>2, <2>3, <2>4, <2>6, <3>1 DEF Effect, TypeOK
    <3> QED BY <3>2
  <2> QED BY <2>5, <2>6
<1> QED BY <1>1, <1>2

LEMMA PrepareTransitionEffect ==
    ASSUME TypeOK, NEW m \in Inbound, HandlePrepareTransition(m)
    PROVE  \E msgs : Effect(msgs)
<1> USE DEF HandlePrepareTransition, Receive, Take
<1>0. m.id \in TransitionIds /\ m.version \in Versions /\ dave \in Handler
  BY InboundFields DEF TypeOK
<1>1. CASE m.id = 0
  <2>1. dave' \in Handler /\ (HasSession(dave) => HasSession(dave'))
    BY <1>0, <1>1, ExecutedFacts
  <2> QED BY <1>0, <1>1, <2>1, QuietEffect DEF TypeOK
<1>2. CASE m.id # 0
  <2>1. dave' \in Handler /\ (HasSession(dave) => HasSession(dave'))
    BY <1>0, <1>2, PassthroughFacts
  <2> DEFINE f == TransitionReady(m.id)
  <2>2. <<f>> \in Seq(Outbound) /\ Range(<<f>>) = {f} /\ f # KeyPackage
    BY <1>0, FrameTypes, RangeShort
  <2>3. Effect(<<f>>)
    BY <1>0, <1>2, <2>1, <2>2 DEF Effect, TypeOK
  <2> QED BY <2>3
<1> QED BY <1>1, <1>2

LEMMA ExecuteTransitionEffect ==
    ASSUME TypeOK, NEW m \in Inbound, HandleExecuteTransition(m)
    PROVE  \E msgs : Effect(msgs)
<1> USE DEF HandleExecuteTransition, Receive, Take
<1>0. m.id \in TransitionIds /\ dave \in Handler
  BY InboundFields DEF TypeOK
<1>1. dave' \in Handler /\ (HasSession(dave) => HasSession(dave'))
  BY <1>0, ExecutedFacts
<1> QED BY <1>0, <1>1, QuietEffect DEF TypeOK

LEMMA PrepareEpochEffect ==
    ASSUME TypeOK, NEW m \in Inbound, HandlePrepareEpoch(m)
    PROVE  \E msgs : Effect(msgs)
<1> USE DEF HandlePrepareEpoch, Receive, Take
<1>0. m.version \in Versions /\ dave \in Handler
  BY InboundFields DEF TypeOK
<1>1. CASE dave' = dave /\ out' = out
  BY <1>1, QuietEffect DEF TypeOK
<1>2. ASSUME NEW o \in DaveInit(dave, m.version), dave' = o.dave,
             out' = IF o.ret = "key_package" THEN Send(<<KeyPackage>>) ELSE out
      PROVE  \E msgs : Effect(msgs)
  <2>2. /\ dave' \in Handler
        /\ HasSession(dave) => HasSession(dave')
        /\ o.ret = "key_package" => HasSession(dave')
    BY <1>0, <1>2, DaveInitFacts
  <2>3. CASE o.ret = "key_package"
    <3>1. <<KeyPackage>> \in Seq(Outbound) /\ Range(<<KeyPackage>>) = {KeyPackage}
      BY FrameTypes, RangeShort
    <3>2. Effect(<<KeyPackage>>)
      BY <1>2, <2>2, <2>3, <3>1 DEF Effect, TypeOK
    <3> QED BY <3>2
  <2>4. CASE o.ret # "key_package"
    BY <1>2, <2>2, <2>4, QuietEffect DEF TypeOK
  <2> QED BY <2>3, <2>4
<1> QED BY <1>1, <1>2

LEMMA ProposalsEffect ==
    ASSUME TypeOK, NEW m \in Inbound, HandleProposals(m)
    PROVE  \E msgs : Effect(msgs)
<1> USE DEF HandleProposals, Receive, Take, mediaVars
<1>0. m.seq \in Seqs
  BY InboundFields
<1>1. CASE out' = out /\ events' = events
  BY <1>1, QuietEffect DEF TypeOK
<1>2. CASE /\ out' = Send(<<CommitWelcome(m.seq)>>)
           /\ events' = events \cup {[op |-> "MlsCommitWelcome", seq |-> m.seq]}
  <2> DEFINE f == CommitWelcome(m.seq)
  <2>2. <<f>> \in Seq(Outbound) /\ Range(<<f>>) = {f} /\ f # KeyPackage
    BY <1>0, FrameTypes, RangeShort
  <2>3. events' \subseteq VoiceEvent
    BY <1>0, <1>2 DEF TypeOK, VoiceEvent
  <2>4. ASSUME NEW e \in events' \ events
        PROVE  e.op = "MlsCommitWelcome" /\ e.seq = m.seq
    BY <1>2, <2>4
  <2>5. Effect(<<f>>)
    BY <1>0, <1>2, <2>2, <2>3, <2>4 DEF Effect, TypeOK
  <2> QED BY <2>5
<1> QED BY <1>1, <1>2

LEMMA JoinGroupEffect ==
    ASSUME TypeOK, NEW m \in Inbound, HandleAnnounceCommit(m) \/ HandleWelcome(m)
    PROVE  \E msgs : Effect(msgs)
<1>0. /\ m.id \in TransitionIds /\ dave \in Handler
      /\ loop = "running" /\ wire' = wire /\ writer' = writer /\ events' = events
  BY InboundFields DEF TypeOK, HandleAnnounceCommit, HandleWelcome, Receive, Take
<1>1. PICK o \in ProcessGroupMessage(dave) :
        \/ /\ o.ret = "ok"
           /\ dave' = o.dave
           /\ IF m.id > 0
              THEN /\ pending_transitions' =
                        [pending_transitions EXCEPT ![m.id] = o.dave.protocol_version]
                   /\ out' = Send(<<TransitionReady(m.id)>>)
              ELSE UNCHANGED <<pending_transitions, out>>
        \/ o.ret = "err" /\ ProcessInvalidCommit(o.dave, m.id)
  BY DEF HandleAnnounceCommit, HandleWelcome, JoinGroup
<1>2. /\ o.dave \in Handler /\ o.dave.protocol_version \in Versions
      /\ HasSession(dave) => HasSession(o.dave)
  BY <1>0, <1>1, GroupMessageFacts DEF Handler
<1>3. CASE ProcessInvalidCommit(o.dave, m.id)
  <2> DEFINE i == InvalidCommit(m.id)
  <2>1. PICK q \in DaveInit(o.dave, o.dave.protocol_version) :
          /\ dave' = q.dave
          /\ out' = Send(IF q.ret = "key_package" THEN <<i, KeyPackage>> ELSE <<i>>)
          /\ pending_transitions' = pending_transitions
    BY <1>3 DEF ProcessInvalidCommit
  <2>2. /\ dave' \in Handler
        /\ HasSession(dave) => HasSession(dave')
        /\ q.ret = "key_package" => HasSession(dave')
    BY <1>2, <2>1, DaveInitFacts
  <2>3. /\ <<i>> \in Seq(Outbound) /\ Range(<<i>>) = {i}
        /\ <<i, KeyPackage>> \in Seq(Outbound) /\ Range(<<i, KeyPackage>>) = {i, KeyPackage}
        /\ i # KeyPackage
    BY <1>0, FrameTypes, RangeShort
  <2> HIDE DEF i
  <2>4. CASE q.ret = "key_package"
    <3>1. Effect(<<i, KeyPackage>>)
      BY <1>0, <2>1, <2>2, <2>3, <2>4 DEF Effect, TypeOK
    <3> QED BY <3>1
  <2>5. CASE q.ret # "key_package"
    <3>1. Effect(<<i>>)
      BY <1>0, <2>1, <2>2, <2>3, <2>5 DEF Effect, TypeOK
    <3> QED BY <3>1
  <2> QED BY <2>4, <2>5
<1>4. CASE dave' = o.dave /\ UNCHANGED <<pending_transitions, out>>
  BY <1>0, <1>2, <1>4, QuietEffect DEF TypeOK
<1>5. CASE /\ dave' = o.dave /\ m.id > 0
           /\ pending_transitions' =
                 [pending_transitions EXCEPT ![m.id] = o.dave.protocol_version]
           /\ out' = Send(<<TransitionReady(m.id)>>)
  <2> DEFINE f == TransitionReady(m.id)
  <2>2. <<f>> \in Seq(Outbound) /\ Range(<<f>>) = {f} /\ f # KeyPackage
    BY <1>0, FrameTypes, RangeShort
  <2>3. m.id # 0
    BY <1>0, <1>5, TransitionIdsAssumption
  <2>4. Effect(<<f>>)
    BY <1>0, <1>2, <1>5, <2>2, <2>3 DEF Effect, TypeOK
  <2> QED BY <2>4
<1> QED BY <1>1, <1>3, <1>4, <1>5

LEMMA HandlerEffect ==
    ASSUME TypeOK, NEW m \in Inbound, Handle(m)
    PROVE  \E msgs : Effect(msgs)
<1> USE DEF Receive, Take, mediaVars
<1>1. CASE HandleHello(m)
  BY <1>1, QuietEffect DEF HandleHello, TypeOK
<1>2. CASE HandleReady(m)
  BY <1>2, QuietEffect DEF HandleReady, TypeOK
<1>3. CASE HandleReadyPanics(m)
  BY <1>3, QuietEffect DEF HandleReadyPanics, TypeOK
<1>4. CASE HandleSelectProtocolAck(m)
  BY <1>4, SelectProtocolAckEffect
<1>5. CASE HandleResumed(m)
  BY <1>5, QuietEffect DEF HandleResumed, TypeOK
<1>6. CASE HandleClientsConnect(m)
  BY <1>6, QuietEffect DEF HandleClientsConnect, TypeOK
<1>7. CASE HandleClientDisconnect(m)
  BY <1>7, QuietEffect DEF HandleClientDisconnect, TypeOK
<1>8. CASE HandlePrepareTransition(m)
  BY <1>8, PrepareTransitionEffect
<1>9. CASE HandleExecuteTransition(m)
  BY <1>9, ExecuteTransitionEffect
<1>10. CASE HandlePrepareEpoch(m)
  BY <1>10, PrepareEpochEffect
<1>11. CASE HandleExternalSender(m)
  <2>1. dave' = dave
    BY <1>11, ExternalSenderFacts DEF HandleExternalSender, TypeOK
  <2> QED BY <1>11, <2>1, QuietEffect DEF HandleExternalSender, TypeOK
<1>12. CASE HandleProposals(m)
  BY <1>12, ProposalsEffect
<1>13. CASE HandleAnnounceCommit(m) \/ HandleWelcome(m)
  BY <1>13, JoinGroupEffect
<1>14. CASE HandleOther(m)
  BY <1>14, QuietEffect DEF HandleOther, TypeOK
<1> QED
  BY <1>1, <1>2, <1>3, <1>4, <1>5, <1>6, <1>7, <1>8, <1>9, <1>10, <1>11, <1>12,
     <1>13, <1>14 DEF Handle

\* The components of the type no invariant below relates to others.
LEMMA HandlerTypes ==
    ASSUME TypeOK, NEW m \in Inbound, Handle(m)
    PROVE  /\ loop' \in {"new", "running", "closed"} /\ loop' # "new"
           /\ status' \in [has_session : BOOLEAN, has_token : BOOLEAN,
                            started : BOOLEAN, resuming : BOOLEAN]
           /\ seq' \in Seqs \cup {-1}
           /\ connected_users' \subseteq Users
           /\ heartbeat' = None
           /\ hello' \in BOOLEAN
           /\ frames' \in Nat
<1>1. m.seq \in OptSeq /\ (m.op = "ClientsConnect" => m.user_ids \subseteq Users)
  BY InboundFields
<1>2. /\ loop' \in {"new", "running", "closed"} /\ loop' # "new"
      /\ heartbeat' = None
      /\ seq' = NextSeq(m) /\ frames' = frames + 1
  BY DEF TypeOK, Handle, Receive, Take, HandleHello, HandleReady, HandleReadyPanics,
         HandleSelectProtocolAck, HandleResumed, HandleClientsConnect,
         HandleClientDisconnect, HandlePrepareTransition, HandleExecuteTransition,
         HandlePrepareEpoch, HandleExternalSender, HandleProposals,
         HandleAnnounceCommit, HandleWelcome, HandleOther
<1>3. status' \in {status, [status EXCEPT !.started = TRUE]}
  BY DEF Handle, HandleHello, HandleReady, HandleReadyPanics, HandleSelectProtocolAck,
         HandleResumed, HandleClientsConnect, HandleClientDisconnect,
         HandlePrepareTransition, HandleExecuteTransition, HandlePrepareEpoch,
         HandleExternalSender, HandleProposals, HandleAnnounceCommit, HandleWelcome,
         HandleOther
<1>4. connected_users' \subseteq connected_users \cup Users
  BY <1>1 DEF Handle, HandleHello, HandleReady, HandleReadyPanics, HandleSelectProtocolAck,
         HandleResumed, HandleClientsConnect, HandleClientDisconnect,
         HandlePrepareTransition, HandleExecuteTransition, HandlePrepareEpoch,
         HandleExternalSender, HandleProposals, HandleAnnounceCommit, HandleWelcome,
         HandleOther, mediaVars
<1>5. hello' \in {hello, TRUE}
  BY DEF Handle, HandleHello, HandleReady, HandleReadyPanics, HandleSelectProtocolAck,
         HandleResumed, HandleClientsConnect, HandleClientDisconnect,
         HandlePrepareTransition, HandleExecuteTransition, HandlePrepareEpoch,
         HandleExternalSender, HandleProposals, HandleAnnounceCommit, HandleWelcome,
         HandleOther
<1>6. status' \in [has_session : BOOLEAN, has_token : BOOLEAN,
                   started : BOOLEAN, resuming : BOOLEAN]
  BY <1>3 DEF TypeOK
<1>7. seq' \in Seqs \cup {-1}
  BY <1>1, <1>2 DEF TypeOK, NextSeq, OptSeq
<1>8. connected_users' \subseteq Users /\ frames' \in Nat
  BY <1>2, <1>4 DEF TypeOK
<1>9. hello' \in BOOLEAN
  <2>1. hello \in BOOLEAN
    BY DEF TypeOK
  <2> QED BY <1>5, <2>1, Zenon
<1> QED BY <1>2, <1>6, <1>7, <1>8, <1>9

-----------------------------------------------------------------------------
(* The inductive invariant.  Start turns an idle writer into a running     *)
(* one, so what holds only while the writer runs must hold of the state    *)
(* Start leaves from: a connection that has not been started is blank.     *)
(* The greeting is in the queue's head until it is on the wire.            *)

Greeting(f) == f.op \in {"Identify", "Resume"}

Blank ==
    loop = "new" =>
        /\ writer = "idle"
        /\ pending_transitions = NoTransitions
        /\ out = <<>>
        /\ wire = {}
        /\ events = {}

GreetingAhead ==
    writer = "running" =>
        \/ \E f \in wire : Greeting(f)
        \/ out # <<>> /\ Greeting(Head(out))

IInv ==
    /\ TypeOK
    /\ Blank
    /\ PendingAcknowledged
    /\ KeyPackageBacked
    /\ EventsBacked
    /\ GreetingFirst
    /\ GreetingAhead

LEMMA InitIInv == Init => IInv
<1> SUFFICES ASSUME Init PROVE IInv
  OBVIOUS
<1> USE DEF Init
<1>1. dave \in Handler
  BY VersionsAssumption DEF NewHandler, Handler
<1>2. TypeOK
  <2>1. out \in Seq(Outbound)
    OBVIOUS
  <2>2. pending_transitions \in [TransitionIds -> Versions \cup {None}]
    BY DEF NoTransitions
  <2>3. hello \in BOOLEAN
    BY Zenon
  <2>4. status \in [has_session : BOOLEAN, has_token : BOOLEAN,
                   started : BOOLEAN, resuming : BOOLEAN]
    OBVIOUS
  <2> QED BY <1>1, <2>1, <2>2, <2>3, <2>4 DEF TypeOK
<1>3. Sent = {}
  BY DEF Sent, Range
<1>4. PendingAcknowledged
  BY TransitionIdsAssumption DEF PendingAcknowledged, NoTransitions
<1> QED
  BY <1>2, <1>3, <1>4 DEF IInv, Blank, KeyPackageBacked, EventsBacked, GreetingFirst,
                          GreetingAhead

(* Everything but the sent frames, as the properties see it.               *)
LEMMA HandlerStep ==
    ASSUME IInv, NEW m \in Inbound, Handle(m)
    PROVE  IInv'
<1>0. TypeOK
  BY DEF IInv
<1>1. PICK msgs : Effect(msgs)
  BY <1>0, HandlerEffect
<1>2. /\ out' \in Seq(Outbound)
      /\ Sent \subseteq Sent'
      /\ Sent' \subseteq Sent \cup Range(msgs)
      /\ writer = "running" => Range(msgs) \subseteq Sent'
  BY <1>0, <1>1, SendFacts DEF Effect
<1>3. TypeOK'
  BY <1>0, <1>1, <1>2, HandlerTypes DEF Effect, TypeOK
<1>4. Blank'
  BY <1>0, HandlerTypes DEF Blank
<1>5. PendingAcknowledged'
  BY <1>1, <1>2, TransitionIdsAssumption DEF Effect, IInv, PendingAcknowledged
<1>6. KeyPackageBacked'
  BY <1>1, <1>2 DEF Effect, IInv, KeyPackageBacked
<1>7. EventsBacked'
  BY <1>1, <1>2 DEF Effect, IInv, EventsBacked
<1>8. GreetingFirst'
  BY <1>1 DEF Effect, IInv, GreetingFirst
<1>9. GreetingAhead'
  <2>1. CASE writer = "running"
    <3>1. out' = out \o msgs /\ out \in Seq(Outbound) /\ msgs \in Seq(Outbound)
      BY <1>0, <1>1, <2>1 DEF Effect, Send, TypeOK
    <3>2. ASSUME out # <<>> PROVE out' # <<>> /\ Head(out') = Head(out)
      BY <3>1, <3>2
    <3> QED BY <1>1, <2>1, <3>2 DEF Effect, IInv, GreetingAhead
  <2> QED BY <1>1, <2>1 DEF Effect, GreetingAhead
<1> QED BY <1>3, <1>4, <1>5, <1>6, <1>7, <1>8, <1>9 DEF IInv

LEMMA StartStep ==
    ASSUME IInv, NEW resuming \in BOOLEAN, Start(resuming)
    PROVE  IInv'
<1> DEFINE g == IF resuming THEN Resume ELSE Identify
<1>1. TypeOK /\ Blank /\ loop = "new"
  BY DEF IInv, Start
<1>2. g \in Outbound /\ Greeting(g) /\ g # KeyPackage
  BY <1>1 DEF TypeOK, Outbound, Greeting, Resume, Identify, KeyPackage
<1>3. out' = <<g>> /\ <<g>> \in Seq(Outbound) /\ Range(<<g>>) = {g}
  BY <1>2, RangeShort DEF Start
<1> HIDE DEF g
<1>4. Sent' = {g} /\ wire' = {}
  BY <1>1, <1>3 DEF Start, logVars, Blank, Sent
<1>5. TypeOK'
  BY <1>1, <1>3 DEF Start, logVars, mediaVars, TypeOK
<1>6. /\ pending_transitions' = NoTransitions /\ events' = {} /\ loop' # "new"
  BY <1>1 DEF Blank, Start, mediaVars
<1>7. PendingAcknowledged'
  BY <1>6, TransitionIdsAssumption DEF PendingAcknowledged, NoTransitions
<1>8. GreetingAhead'
  BY <1>2, <1>3 DEF GreetingAhead
<1> QED
  BY <1>2, <1>4, <1>5, <1>6, <1>7, <1>8
     DEF IInv, Blank, KeyPackageBacked, EventsBacked, GreetingFirst

(* The steps before start and the end of the loop touch no frame.          *)
LEMMA QuietStep ==
    ASSUME IInv, SetSession \/ SetTokens \/ StartFails \/ Close
    PROVE  IInv'
<1> USE DEF SetSession, SetTokens, StartFails, Close, mediaVars, logVars
<1>1. /\ UNCHANGED <<writer, dave, pending_transitions, out, wire, events>>
      /\ loop' = "new" => loop = "new"
  OBVIOUS
<1>2. TypeOK'
  <2>1. TypeOK
    BY DEF IInv
  <2>2. status' \in [has_session : BOOLEAN, has_token : BOOLEAN,
                    started : BOOLEAN, resuming : BOOLEAN]
    BY <2>1 DEF TypeOK
  <2> QED BY <2>1, <2>2 DEF TypeOK
<1>3. Sent' = Sent
  BY <1>1 DEF Sent
<1>4. Blank' /\ PendingAcknowledged' /\ KeyPackageBacked' /\ EventsBacked'
  BY <1>1, <1>3 DEF IInv, Blank, PendingAcknowledged, KeyPackageBacked, EventsBacked
<1>5. GreetingFirst' /\ GreetingAhead'
  BY <1>1 DEF IInv, GreetingFirst, GreetingAhead
<1> QED BY <1>2, <1>4, <1>5 DEF IInv

LEMMA WriterSendStep == ASSUME IInv, WriterSend PROVE IInv'
<1> USE DEF WriterSend, writerFrame, mediaVars
<1>1. TypeOK
  BY DEF IInv
<1>2. /\ Head(out) \in Outbound
      /\ out' \in Seq(Outbound)
      /\ Range(out) = {Head(out)} \cup Range(out')
  BY <1>1, RangeHeadTail DEF TypeOK
<1>3. Sent' = Sent
  BY <1>2 DEF Sent
<1>4. TypeOK'
  BY <1>1, <1>2 DEF TypeOK
<1>5. loop # "new"
  BY DEF IInv, Blank
<1>6. Blank' /\ PendingAcknowledged' /\ KeyPackageBacked' /\ EventsBacked'
  BY <1>3, <1>5 DEF IInv, Blank, PendingAcknowledged, KeyPackageBacked, EventsBacked
<1>7. \E f \in wire' : Greeting(f)
  BY DEF IInv, GreetingAhead
<1>8. GreetingFirst' /\ GreetingAhead'
  BY <1>7 DEF GreetingFirst, GreetingAhead, Greeting
<1> QED BY <1>4, <1>6, <1>8 DEF IInv

LEMMA WriterStopStep == ASSUME IInv, WriterFail \/ WriterExit PROVE IInv'
<1> USE DEF WriterFail, WriterExit, writerFrame, mediaVars
<1>1. TypeOK
  BY DEF IInv
<1>2. writer' \in {"failed", "done"} /\ out' = <<>> /\ wire' = wire
  OBVIOUS
<1>3. Sent' \subseteq Sent
  BY <1>2 DEF Sent, Range
<1>4. TypeOK'
  BY <1>1, <1>2 DEF TypeOK
<1>5. loop # "new"
  BY DEF IInv, Blank
<1>6. Blank' /\ PendingAcknowledged' /\ KeyPackageBacked' /\ EventsBacked'
  BY <1>2, <1>3, <1>5 DEF IInv, Blank, PendingAcknowledged, KeyPackageBacked, EventsBacked
<1>7. GreetingFirst' /\ GreetingAhead'
  BY <1>2 DEF IInv, GreetingFirst, GreetingAhead
<1> QED BY <1>4, <1>6, <1>7 DEF IInv

LEMMA StutterStep == ASSUME IInv, UNCHANGED vars PROVE IInv'
<1>1. Sent' = Sent
  BY DEF vars, Sent
<1> QED
  BY <1>1 DEF vars, IInv, TypeOK, Blank, PendingAcknowledged, KeyPackageBacked,
              EventsBacked, GreetingFirst, GreetingAhead

LEMMA StepIInv == IInv /\ [Next]_vars => IInv'
<1> SUFFICES ASSUME IInv, [Next]_vars PROVE IInv'
  OBVIOUS
<1>1. CASE SetSession \/ SetTokens \/ StartFails \/ Close
  BY <1>1, QuietStep
<1>2. ASSUME NEW resuming \in BOOLEAN, Start(resuming) PROVE IInv'
  BY <1>2, StartStep
<1>3. ASSUME NEW m \in Inbound, Handle(m) PROVE IInv'
  BY <1>3, HandlerStep
<1>4. CASE WriterSend
  BY <1>4, WriterSendStep
<1>5. CASE WriterFail \/ WriterExit
  BY <1>5, WriterStopStep
<1>6. CASE UNCHANGED vars
  BY <1>6, StutterStep
<1> QED BY <1>1, <1>2, <1>3, <1>4, <1>5, <1>6 DEF Next

(* Every reachable state satisfies the inductive invariant; the theorems   *)
(* below read the properties off it.                                       *)
THEOREM Invariance == Spec => []IInv
<1>1. Init => IInv
  BY InitIInv
<1>2. IInv /\ [Next]_vars => IInv'
  BY StepIInv
<1> QED BY <1>1, <1>2, PTL DEF Spec

\* Every value stays in its type, whatever the gateway sends.
THEOREM TypeCorrect == Spec => []TypeOK
<1>1. IInv => TypeOK
  BY DEF IInv
<1> QED BY <1>1, Invariance, PTL

(* Every transition the connection keeps was acknowledged to the gateway,  *)
(* whichever of the three handlers recorded it (connection.rs:355, 442, 467). *)
THEOREM TransitionsAcknowledged == Spec => []PendingAcknowledged
<1>1. IInv => PendingAcknowledged
  BY DEF IInv
<1> QED BY <1>1, Invariance, PTL

(* A key package that left the connection always has a session behind it,  *)
(* although init stores a version and clears the session before it can     *)
(* fail (dave.rs:70).                                                      *)
THEOREM KeyPackagesBacked == Spec => []KeyPackageBacked
<1>1. IInv => KeyPackageBacked
  BY DEF IInv
<1> QED BY <1>1, Invariance, PTL

(* No event reaches the application before the frame it reports is queued  *)
(* (connection.rs:327, 429).                                               *)
THEOREM EventsAreBacked == Spec => []EventsBacked
<1>1. IInv => EventsBacked
  BY DEF IInv
<1> QED BY <1>1, Invariance, PTL

(* The gateway sees IDENTIFY or RESUME before any other frame, though the  *)
(* two tasks of start run concurrently (connection.rs:171, 190).           *)
THEOREM GreetingIsFirst == Spec => []GreetingFirst
<1>1. IInv => GreetingFirst
  BY DEF IInv
<1> QED BY <1>1, Invariance, PTL

(* The timer arm of the loop's select is dead (connection.rs:191, 214):     *)
(* with it or without it the connection has the same behaviours, so every  *)
(* theorem above holds of the loop with both arms.                         *)
THEOREM TimerNeverTicks == TimerSpec => Spec
<1>1. Init => IInv
  BY InitIInv
<1>2. IInv /\ [Next \/ HeartbeatTick]_vars => [Next]_vars
  <2>1. IInv => ~HeartbeatTick
    BY DEF IInv, TypeOK, HeartbeatTick
  <2> QED BY <2>1
<1>3. IInv /\ [Next]_vars => IInv'
  BY StepIInv
<1> QED BY <1>1, <1>2, <1>3, PTL DEF TimerSpec, Spec

-----------------------------------------------------------------------------
(* The inductive invariant.  It describes the frames on the way in both     *)
(* directions, so that what holds when one arrives is known when it leaves.  *)

\* What the gateway sends in a session that was not resumed.
SessionFrame ==
    [op : {"SelectProtocolAck"}, seq : Seqs, version : Versions, sdp : {TRUE}]
    \cup [op : {"PrepareEpoch"}, seq : Seqs, epoch : {1}, version : Versions \ {0}]
    \cup [op : Binary, seq : Seqs, id : TransitionIds]
    \cup [op : {"PrepareTransition"}, seq : Seqs, id : Announced, version : {0}]
    \cup [op : {"ExecuteTransition"}, seq : Seqs, id : Announced]
    \cup [op : {"ClientsConnect"}, seq : Seqs, user_ids : SUBSET Users]
    \cup [op : {"ClientDisconnect"}, seq : Seqs, user_id : Users]

\* Frames that answer an exchange.
Answers(f, id) == f.op \in {"TransitionReady", "InvalidCommit"} /\ f.id = id

\* Frames that set the handler's version, and that change the users.
SetsVersion(f) == f.op \in {"SelectProtocolAck", "PrepareEpoch"}
Mentions(f, u) ==
    \/ f.op = "ClientsConnect" /\ u \in f.user_ids
    \/ f.op = "ClientDisconnect" /\ f.user_id = u

\* Handling the first k frames of q takes a handler of version d to version v.
Leads(q, k, d, v) ==
    \/ \E j \in 1 .. k : /\ SetsVersion(q[j]) /\ q[j].version = v
                         /\ \A i \in j + 1 .. k : ~SetsVersion(q[i])
    \/ d = v /\ \A i \in 1 .. k : ~SetsVersion(q[i])

Framed == inq \in Seq(SessionFrame)

NoGreeting == \A k \in DOMAIN out : ~Greeting(out[k])

\* The frames on the way are numbered one after the other, up to the last.
NumbersRun ==
    /\ seq # -1 => Cong(seq, gseq - Len(inq), SeqMod)
    /\ \A k \in DOMAIN inq : Cong(inq[k].seq, gseq - Len(inq) + k, SeqMod)

\* The last frame that mentions a user, or else the connection, has it right.
RosterRuns ==
    \A u \in Users :
        /\ \A k \in DOMAIN inq :
              Mentions(inq[k], u) /\ (\A j \in DOMAIN inq : k < j => ~Mentions(inq[j], u))
                  => (inq[k].op = "ClientsConnect" <=> u \in roster)
        /\ (\A k \in DOMAIN inq : ~Mentions(inq[k], u))
              => (u \in connected_users <=> u \in roster)

\* A commit meets the version of the group it was made in.
VersionsRun ==
    /\ group # 0 => Leads(inq, Len(inq), dave.protocol_version, group)
    /\ \A k \in DOMAIN inq :
          inq[k].op \in Binary /\ inq[k].id # 0 =>
              Leads(inq, k - 1, dave.protocol_version, offered[inq[k].id])

\* An exchange is on the way once at most: down, or answered and on its way up.
Opened(id) ==
    \A k \in DOMAIN inq : Opens(inq[k], id) =>
        /\ phase[id] = "prepared"
        /\ offered[id] = 0 <=> inq[k].op = "PrepareTransition"
        /\ \A j \in DOMAIN inq : Opens(inq[j], id) => j = k
        /\ \A j \in DOMAIN out : ~Answers(out[j], id)

Answered(id) ==
    \A k \in DOMAIN out : Answers(out[k], id) =>
        /\ phase[id] = "prepared"
        /\ out[k].op = "TransitionReady" => pending_transitions[id] = offered[id]
        /\ \A j \in DOMAIN out : Answers(out[j], id) => j = k

\* An execution finds its entry: nothing of a next exchange overtakes it.
Executing(id) ==
    \A k \in DOMAIN inq : Executes(inq[k], id) =>
        /\ pending_transitions[id] # None
        /\ phase[id] # "acked"
        /\ \A j \in DOMAIN inq : Executes(inq[j], id) => j = k
        /\ \A j \in DOMAIN inq : j < k => ~Opens(inq[j], id)
        /\ \A j \in DOMAIN out : ~Answers(out[j], id)

Acked(id) == phase[id] = "acked" => pending_transitions[id] = offered[id]

Exchange(id) == Opened(id) /\ Answered(id) /\ Executing(id) /\ Acked(id)

\* Who is in the group, or was when it was asked, has a session.
SessionKept ==
    /\ member => HasSession(dave)
    /\ \A id \in Announced : phase[id] # "idle" /\ offered[id] # 0 => HasSession(dave)

\* Who is taken down has a session, which is told when the announcement comes.
Downgrading(id) ==
    id \in takenDown /\ phase[id] # "idle" /\ offered[id] = 0 =>
        /\ HasSession(dave)
        /\ (\A k \in DOMAIN inq : ~Opens(inq[k], id)) => Tolerant(dave)

Unselected == ~selected => group = 0 /\ \A id \in Announced : phase[id] = "idle"

Agreement ==
    /\ Framed
    /\ NoGreeting
    /\ NumbersRun
    /\ RosterRuns
    /\ VersionsRun
    /\ \A id \in Announced : Exchange(id)
    /\ SessionKept
    /\ \A id \in Announced : Downgrading(id)
    /\ Unselected

\* Nothing has happened to a connection whose greeting has not arrived.
Ungreeted ==
    /\ loop = "new" => ~greeted
    /\ loop # "closed" /\ ~greeted =>
          /\ inq = <<>> /\ seq = -1 /\ dave = NewHandler
          /\ connected_users = {} /\ pending_transitions = NoTransitions
          /\ writer = "running" =>
                /\ Len(out) = 1
                /\ Head(out).op = IF status.resuming THEN "Resume" ELSE "Identify"

Bounded == sent <= MaxGateway /\ gseq <= sent + 1

SInv ==
    /\ IInv
    /\ SessionTypeOK
    /\ Bounded
    /\ Ungreeted
    /\ InSession => Agreement

-----------------------------------------------------------------------------
(* What handling a frame of the session does to the state above.           *)

\* The frames a handler queues: at most one answers, and it comes first.
Queues(m, msgs) ==
    /\ msgs \in Seq(Outbound)
    /\ out' = Send(msgs)
    /\ \A k \in DOMAIN msgs :
          /\ ~Greeting(msgs[k])
          /\ \A id : Answers(msgs[k], id) => k = 1 /\ Opens(m, id)
          /\ msgs[k].op = "TransitionReady" =>
                pending_transitions'[m.id] =
                    IF m.op = "PrepareTransition" THEN 0 ELSE dave.protocol_version

TurnsDave(m) ==
    /\ dave'.protocol_version = IF SetsVersion(m) THEN m.version ELSE dave.protocol_version
    /\ HasSession(dave) => HasSession(dave')
    /\ Tolerant(dave) => Tolerant(dave')
    /\ m.op = "PrepareTransition" /\ HasSession(dave) => Tolerant(dave')

TurnsUsers(m) ==
    \A u \in Users :
        u \in connected_users' <=>
            IF Mentions(m, u) THEN m.op = "ClientsConnect" ELSE u \in connected_users

TurnsPending(m) ==
    \A id \in Announced :
        ~Opens(m, id) /\ ~Executes(m, id) => pending_transitions'[id] = pending_transitions[id]

Turn(m) ==
    /\ loop = "running" /\ loop' = "running" /\ UNCHANGED <<writer, status>>
    /\ seq' = m.seq
    /\ TurnsDave(m)
    /\ TurnsUsers(m)
    /\ TurnsPending(m)
    /\ \E msgs : Queues(m, msgs)

LEMMA FrameFields ==
    ASSUME NEW m \in SessionFrame
    PROVE  /\ m \in Inbound
           /\ m.seq \in Seqs /\ m.seq # None
           /\ m.op \in {"SelectProtocolAck", "PrepareEpoch", "AnnounceCommit", "Welcome",
                        "PrepareTransition", "ExecuteTransition", "ClientsConnect",
                        "ClientDisconnect"}
           /\ m.op = "SelectProtocolAck" => m.version \in Versions /\ m.sdp
           /\ m.op = "PrepareEpoch" => m.version \in Versions /\ m.version # 0 /\ m.epoch = 1
           /\ m.op \in Binary => m.id \in TransitionIds
           /\ m.op = "PrepareTransition" => m.id \in Announced /\ m.version = 0
           /\ m.op = "ExecuteTransition" => m.id \in Announced
           /\ m.op = "ClientsConnect" => m.user_ids \subseteq Users
           /\ m.op = "ClientDisconnect" => m.user_id \in Users
<1>1. m \in Inbound
  BY VersionsAssumption DEF SessionFrame, Inbound, OptSeq, Binary, Announced
<1>2. m.seq \in Seqs
  BY DEF SessionFrame, Binary
<1> QED BY <1>1, <1>2, NoneAssumption, SeqsAssumption DEF SessionFrame, Binary

\* Nothing queued, or one frame, or two.
LEMMA QueuesNone ==
    ASSUME TypeOK, NEW m, out' = out
    PROVE  \E msgs : Queues(m, msgs)
<1>1. <<>> \in Seq(Outbound) /\ out' = Send(<<>>)
  <2>1. out \o <<>> = out
    BY DEF TypeOK
  <2> QED BY <2>1 DEF Send
<1>2. Queues(m, <<>>)
  BY <1>1 DEF Queues
<1> QED BY <1>2

LEMMA QueuesKeyPackage ==
    ASSUME NEW m, out' = Send(<<KeyPackage>>)
    PROVE  \E msgs : Queues(m, msgs)
<1>1. <<KeyPackage>> \in Seq(Outbound)
  BY FrameTypes
<1>2. KeyPackage.op = "KeyPackage"
  BY DEF KeyPackage
<1>3. Queues(m, <<KeyPackage>>)
  BY <1>1, <1>2 DEF Queues, Greeting, Answers
<1> QED BY <1>3

LEMMA QueuesReady ==
    ASSUME NEW m, m.id \in TransitionIds, Opens(m, m.id),
           out' = Send(<<TransitionReady(m.id)>>),
           pending_transitions'[m.id] =
               IF m.op = "PrepareTransition" THEN 0 ELSE dave.protocol_version
    PROVE  \E msgs : Queues(m, msgs)
<1> DEFINE f == TransitionReady(m.id)
<1>1. <<f>> \in Seq(Outbound)
  BY FrameTypes
<1>2. f.op = "TransitionReady" /\ f.id = m.id /\ out' = Send(<<f>>)
  BY DEF TransitionReady
<1> HIDE DEF f
<1> DEFINE msgs == <<f>>
<1>3. \A k \in DOMAIN msgs : k = 1 /\ msgs[k] = f
  OBVIOUS
<1>4. msgs \in Seq(Outbound) /\ out' = Send(msgs)
  BY <1>1, <1>2
<1> HIDE DEF msgs
<1>5. \A k \in DOMAIN msgs :
         ~Greeting(msgs[k]) /\ \A id : Answers(msgs[k], id) => k = 1 /\ Opens(m, id)
  BY <1>2, <1>3 DEF Greeting, Answers
<1>6. Queues(m, msgs)
  BY <1>4, <1>5, Zenon DEF Queues
<1> QED BY <1>6

LEMMA QueuesInvalid ==
    ASSUME NEW m, m.id \in TransitionIds, Opens(m, m.id),
           NEW msgs \in {<<InvalidCommit(m.id)>>, <<InvalidCommit(m.id), KeyPackage>>},
           out' = Send(msgs)
    PROVE  Queues(m, msgs)
<1>1. InvalidCommit(m.id) \in Outbound /\ KeyPackage \in Outbound
  BY FrameTypes
<1>2. /\ InvalidCommit(m.id).op = "InvalidCommit" /\ InvalidCommit(m.id).id = m.id
      /\ KeyPackage.op = "KeyPackage"
  BY DEF InvalidCommit, KeyPackage
<1>3. /\ msgs \in Seq(Outbound) /\ DOMAIN msgs \subseteq {1, 2}
      /\ \A k \in DOMAIN msgs : \/ k = 1 /\ msgs[k] = InvalidCommit(m.id)
                                \/ k = 2 /\ msgs[k] = KeyPackage
  <2> DEFINE i == InvalidCommit(m.id)
             g == KeyPackage
  <2>1. i \in Outbound /\ g \in Outbound /\ msgs \in {<<i>>, <<i, g>>}
    BY <1>1
  <2> HIDE DEF i, g
  <2>2. /\ msgs \in Seq(Outbound) /\ DOMAIN msgs \subseteq {1, 2}
        /\ \A k \in DOMAIN msgs : (k = 1 /\ msgs[k] = i) \/ (k = 2 /\ msgs[k] = g)
    <3>1. CASE msgs = <<i>>
      BY <2>1, <3>1
    <3>2. CASE msgs = <<i, g>>
      BY <2>1, <3>2
    <3> QED BY <2>1, <3>1, <3>2
  <2> QED BY <2>2 DEF i, g
<1> QED BY <1>2, <1>3 DEF Queues, Greeting, Answers

LEMMA SelectProtocolAckTurn ==
    ASSUME TypeOK, NEW m \in SessionFrame, HandleSelectProtocolAck(m)
    PROVE  Turn(m)
<1> USE DEF HandleSelectProtocolAck, Receive, Take
<1>0. /\ dave \in Handler /\ m.op = "SelectProtocolAck" /\ m.sdp /\ m.version \in Versions
      /\ m.seq # None
  BY FrameFields DEF TypeOK
<1>1. PICK o \in DaveInit(dave, m.version) :
         /\ dave' = o.dave
         /\ out' = IF o.ret = "key_package" THEN Send(<<KeyPackage>>) ELSE out
  BY <1>0
<1>2. TurnsDave(m)
  BY <1>0, <1>1, DaveInitFacts, DaveInitKeeps DEF TurnsDave, SetsVersion
<1>3. \E msgs : Queues(m, msgs)
  BY <1>1, QueuesNone, QueuesKeyPackage
<1>4. TurnsUsers(m) /\ TurnsPending(m)
  BY <1>0 DEF TurnsUsers, TurnsPending, Mentions
<1> QED BY <1>0, <1>2, <1>3, <1>4 DEF Turn, NextSeq

LEMMA PrepareEpochTurn ==
    ASSUME TypeOK, NEW m \in SessionFrame, HandlePrepareEpoch(m)
    PROVE  Turn(m)
<1> USE DEF HandlePrepareEpoch, Receive, Take
<1>0. /\ dave \in Handler /\ m.op = "PrepareEpoch" /\ m.epoch = 1 /\ m.version \in Versions
      /\ m.seq # None
  BY FrameFields DEF TypeOK
<1>1. PICK o \in DaveInit(dave, m.version) :
         /\ dave' = o.dave
         /\ out' = IF o.ret = "key_package" THEN Send(<<KeyPackage>>) ELSE out
  BY <1>0
<1>2. TurnsDave(m)
  BY <1>0, <1>1, DaveInitFacts, DaveInitKeeps DEF TurnsDave, SetsVersion
<1>3. \E msgs : Queues(m, msgs)
  BY <1>1, QueuesNone, QueuesKeyPackage
<1>4. TurnsUsers(m) /\ TurnsPending(m)
  BY <1>0 DEF TurnsUsers, TurnsPending, Mentions
<1> QED BY <1>0, <1>2, <1>3, <1>4 DEF Turn, NextSeq

LEMMA PrepareTransitionTurn ==
    ASSUME TypeOK, NEW m \in SessionFrame, HandlePrepareTransition(m)
    PROVE  Turn(m)
<1> USE DEF HandlePrepareTransition, Receive, Take
<1>0. /\ dave \in Handler /\ m.op = "PrepareTransition" /\ m.version = 0
      /\ m.id \in TransitionIds /\ m.id # 0 /\ m.seq # None
  BY FrameFields DEF TypeOK, Announced
<1>1. /\ dave' = SetPassthroughMode(dave)
      /\ pending_transitions' = [pending_transitions EXCEPT ![m.id] = 0]
      /\ out' = Send(<<TransitionReady(m.id)>>)
  BY <1>0
<1>2. TurnsDave(m)
  BY <1>0, <1>1, PassthroughFacts, PassthroughKeeps DEF TurnsDave, SetsVersion, Tolerant
<1>3. Opens(m, m.id) /\ pending_transitions'[m.id] = 0
  BY <1>0, <1>1 DEF Opens, TypeOK
<1>4. \E msgs : Queues(m, msgs)
  BY <1>0, <1>1, <1>3, QueuesReady
<1>5. TurnsUsers(m) /\ TurnsPending(m)
  BY <1>0, <1>1 DEF TurnsUsers, TurnsPending, Mentions, Opens, TypeOK
<1> QED BY <1>0, <1>2, <1>4, <1>5 DEF Turn, NextSeq

LEMMA ExecuteTransitionTurn ==
    ASSUME TypeOK, NEW m \in SessionFrame, HandleExecuteTransition(m)
    PROVE  Turn(m)
<1> USE DEF HandleExecuteTransition, Receive, Take
<1>0. dave \in Handler /\ m.op = "ExecuteTransition" /\ m.id \in TransitionIds /\ m.seq # None
  BY FrameFields DEF TypeOK, Announced
<1>1. dave' \in {dave, SetPassthroughMode(dave)}
  BY DEF Executed
<1>2. TurnsDave(m)
  BY <1>0, <1>1, PassthroughFacts, PassthroughKeeps DEF TurnsDave, SetsVersion, Tolerant
<1>3. \E msgs : Queues(m, msgs)
  BY QueuesNone
<1>4. TurnsUsers(m) /\ TurnsPending(m)
  BY <1>0 DEF TurnsUsers, TurnsPending, Mentions, Executes, TypeOK
<1> QED BY <1>0, <1>2, <1>3, <1>4 DEF Turn, NextSeq

LEMMA UsersTurn ==
    ASSUME TypeOK, NEW m \in SessionFrame, HandleClientsConnect(m) \/ HandleClientDisconnect(m)
    PROVE  Turn(m)
<1> USE DEF HandleClientsConnect, HandleClientDisconnect, Receive, Take
<1>0. dave \in Handler /\ m.op \in {"ClientsConnect", "ClientDisconnect"} /\ m.seq # None
  BY FrameFields DEF TypeOK
<1>1. TurnsDave(m) /\ TurnsPending(m)
  BY <1>0 DEF TurnsDave, TurnsPending, SetsVersion
<1>2. TurnsUsers(m)
  BY DEF TurnsUsers, Mentions
<1>3. \E msgs : Queues(m, msgs)
  BY QueuesNone
<1> QED BY <1>0, <1>1, <1>2, <1>3 DEF Turn, NextSeq

LEMMA JoinGroupTurn ==
    ASSUME TypeOK, NEW m \in SessionFrame, HandleAnnounceCommit(m) \/ HandleWelcome(m)
    PROVE  Turn(m)
<1> USE DEF HandleAnnounceCommit, HandleWelcome, Receive, Take
<1>0. /\ dave \in Handler /\ m.op \in Binary /\ m.op # "PrepareTransition"
      /\ m.id \in TransitionIds /\ m.seq # None /\ Opens(m, m.id) /\ ~SetsVersion(m)
  BY FrameFields DEF TypeOK, Binary, Opens, SetsVersion
<1>1. PICK o \in ProcessGroupMessage(dave) :
        \/ /\ o.ret = "ok"
           /\ dave' = o.dave
           /\ IF m.id > 0
              THEN /\ pending_transitions' =
                        [pending_transitions EXCEPT ![m.id] = o.dave.protocol_version]
                   /\ out' = Send(<<TransitionReady(m.id)>>)
              ELSE UNCHANGED <<pending_transitions, out>>
        \/ o.ret = "err" /\ ProcessInvalidCommit(o.dave, m.id)
  BY DEF JoinGroup
<1>2. /\ o.dave \in Handler /\ o.dave.protocol_version = dave.protocol_version
      /\ o.dave.protocol_version \in Versions
      /\ HasSession(o.dave) <=> HasSession(dave)
      /\ Tolerant(dave) => Tolerant(o.dave)
      /\ o.ret = "err" => HasSession(dave)
  BY <1>0, <1>1, GroupMessageFacts, GroupMessageKeeps DEF Handler
<1>3. TurnsUsers(m)
  BY <1>0 DEF TurnsUsers, Mentions, Binary, HandleAnnounceCommit, HandleWelcome
<1>4. CASE o.ret = "ok" /\ dave' = o.dave /\ UNCHANGED <<pending_transitions, out>>
  <2>1. TurnsDave(m) /\ TurnsPending(m)
    BY <1>0, <1>2, <1>4 DEF TurnsDave, TurnsPending
  <2> QED BY <1>0, <1>3, <1>4, <2>1, QueuesNone DEF Turn, NextSeq
<1>5. CASE /\ o.ret = "ok" /\ dave' = o.dave
           /\ pending_transitions' =
                 [pending_transitions EXCEPT ![m.id] = o.dave.protocol_version]
           /\ out' = Send(<<TransitionReady(m.id)>>)
  <2>1. TurnsDave(m)
    BY <1>0, <1>2, <1>5 DEF TurnsDave
  <2>2. /\ TurnsPending(m)
        /\ pending_transitions'[m.id] = dave.protocol_version
    BY <1>0, <1>2, <1>5 DEF TurnsPending, Opens, TypeOK
  <2>3. \E msgs : Queues(m, msgs)
    BY <1>0, <1>5, <2>2, QueuesReady
  <2> QED BY <1>0, <1>3, <2>1, <2>2, <2>3 DEF Turn, NextSeq
<1>6. CASE o.ret = "err" /\ ProcessInvalidCommit(o.dave, m.id)
  <2>1. PICK q \in DaveInit(o.dave, o.dave.protocol_version) :
          /\ dave' = q.dave
          /\ out' = Send(IF q.ret = "key_package" THEN <<InvalidCommit(m.id), KeyPackage>>
                         ELSE <<InvalidCommit(m.id)>>)
          /\ pending_transitions' = pending_transitions
    BY <1>6 DEF ProcessInvalidCommit
  <2>2. TurnsDave(m)
    BY <1>0, <1>2, <1>6, <2>1, DaveInitFacts, DaveInitKeeps DEF TurnsDave
  <2>3. TurnsPending(m)
    BY <2>1 DEF TurnsPending
  <2>4. \E msgs : Queues(m, msgs)
    <3>1. Queues(m, IF q.ret = "key_package" THEN <<InvalidCommit(m.id), KeyPackage>>
                    ELSE <<InvalidCommit(m.id)>>)
      BY <1>0, <2>1, QueuesInvalid
    <3> QED BY <3>1
  <2> QED BY <1>0, <1>3, <2>2, <2>3, <2>4 DEF Turn, NextSeq
<1> QED BY <1>1, <1>4, <1>5, <1>6

LEMMA HandlerTurn ==
    ASSUME TypeOK, NEW m \in SessionFrame, Handle(m)
    PROVE  Turn(m)
<1>1. m.op \in {"SelectProtocolAck", "PrepareEpoch", "AnnounceCommit", "Welcome",
                "PrepareTransition", "ExecuteTransition", "ClientsConnect", "ClientDisconnect"}
  BY FrameFields
<1>2. \/ HandleSelectProtocolAck(m) \/ HandlePrepareEpoch(m) \/ HandlePrepareTransition(m)
      \/ HandleExecuteTransition(m) \/ HandleClientsConnect(m) \/ HandleClientDisconnect(m)
      \/ HandleAnnounceCommit(m) \/ HandleWelcome(m)
  BY <1>1 DEF Handle, HandleHello, HandleReady, HandleReadyPanics, HandleResumed,
              HandleExternalSender, HandleProposals, HandleOther
<1> QED BY <1>2, SelectProtocolAckTurn, PrepareEpochTurn, PrepareTransitionTurn,
           ExecuteTransitionTurn, UsersTurn, JoinGroupTurn

-----------------------------------------------------------------------------
(* The two ends of a stream of frames.                                     *)

LEMMA AppendFacts ==
    ASSUME NEW S, NEW p \in Seq(S), NEW x \in S, NEW q, q = Append(p, x)
    PROVE  /\ q \in Seq(S) /\ Len(p) \in Nat /\ Len(q) = Len(p) + 1
           /\ DOMAIN p = 1 .. Len(p) /\ DOMAIN q = 1 .. Len(p) + 1
           /\ \A k \in 1 .. Len(p) : q[k] = p[k]
           /\ q[Len(p) + 1] = x
OBVIOUS

LEMMA TailFacts ==
    ASSUME NEW S, NEW p \in Seq(S), p # <<>>, NEW q, q = Tail(p)
    PROVE  /\ q \in Seq(S) /\ Len(p) \in Nat \ {0} /\ Len(q) = Len(p) - 1
           /\ DOMAIN p = 1 .. Len(p) /\ DOMAIN q = 1 .. Len(p) - 1
           /\ \A k \in 1 .. Len(p) - 1 : k + 1 \in 1 .. Len(p) /\ q[k] = p[k + 1]
           /\ Head(p) = p[1] /\ p[1] \in S /\ 1 \in 1 .. Len(p)
           /\ \A k \in 1 .. Len(p) : k = 1 \/ k - 1 \in 1 .. Len(p) - 1
OBVIOUS

-----------------------------------------------------------------------------
(* A frame the gateway sends joins those on the way.                       *)

Delivers(x) ==
    /\ InSession
    /\ x \in SessionFrame
    /\ Cong(x.seq, gseq + 1, SeqMod)
    /\ inq' = Append(inq, x)
    /\ gseq' = gseq + 1
    /\ UNCHANGED <<vars, greeted>>

LEMMA InqFacts ==
    ASSUME SInv, InSession
    PROVE  /\ Agreement /\ inq \in Seq(SessionFrame)
           /\ Len(inq) \in Nat /\ DOMAIN inq = 1 .. Len(inq) /\ gseq \in Int
           /\ \A k \in DOMAIN inq : inq[k] \in SessionFrame /\ inq[k].seq \in Int
<1>1. Agreement /\ inq \in Seq(SessionFrame) /\ gseq \in Int
  BY DEF SInv, Agreement, Framed, SessionTypeOK
<1>2. \A k \in DOMAIN inq : inq[k] \in SessionFrame
  BY <1>1
<1>3. ASSUME NEW m \in SessionFrame PROVE m.seq \in Int
  <2>1. m.seq \in Seqs
    BY FrameFields
  <2>2. \A x \in Seqs : x \in Int
    BY SeqsAssumption
  <2> QED BY <2>1, <2>2, Zenon
<1>4. \A k \in DOMAIN inq : inq[k].seq \in Int
  BY <1>2, <1>3
<1> QED BY <1>1, <1>2, <1>4

LEMMA DeliversNumbers ==
    ASSUME SInv, NEW x, Delivers(x)
    PROVE  Framed' /\ NoGreeting' /\ NumbersRun'
<1> DEFINE n == Len(inq)
<1>1. /\ inq \in Seq(SessionFrame) /\ n \in Nat /\ gseq \in Int /\ Agreement
      /\ DOMAIN inq = 1 .. n
  BY InqFacts DEF Delivers
<1>2. /\ inq' \in Seq(SessionFrame) /\ Len(inq') = n + 1 /\ DOMAIN inq' = 1 .. n + 1
      /\ \A k \in 1 .. n : inq'[k] = inq[k]
      /\ inq'[n + 1] = x
  BY <1>1, AppendFacts DEF Delivers
<1> HIDE DEF n
<1>3. NoGreeting'
  BY <1>1 DEF Agreement, NoGreeting, Delivers, vars
<1>4. gseq' - Len(inq') = gseq - n
  BY <1>1, <1>2 DEF Delivers
<1>5. seq' # -1 => Cong(seq', gseq' - Len(inq'), SeqMod)
  BY <1>1, <1>4 DEF Agreement, NumbersRun, Delivers, vars, n
<1>6. ASSUME NEW k \in 1 .. n + 1
      PROVE  Cong(inq'[k].seq, gseq' - Len(inq') + k, SeqMod)
  <2>1. CASE k \in 1 .. n
    BY <1>1, <1>2, <1>4, <2>1 DEF Agreement, NumbersRun, n
  <2>2. CASE k = n + 1
    <3>1. gseq - n + (n + 1) = gseq + 1
      BY <1>1
    <3> QED BY <1>2, <1>4, <2>2, <3>1 DEF Delivers
  <2> QED BY <1>1, <2>1, <2>2
<1> QED BY <1>2, <1>3, <1>5, <1>6 DEF Framed, NumbersRun

LEMMA DeliversRoster ==
    ASSUME SInv, NEW x, Delivers(x),
           \A u \in Users :
               IF Mentions(x, u) THEN x.op = "ClientsConnect" <=> u \in roster'
               ELSE u \in roster' <=> u \in roster
    PROVE  RosterRuns'
<1> DEFINE n == Len(inq)
<1>1. inq \in Seq(SessionFrame) /\ n \in Nat /\ Agreement /\ DOMAIN inq = 1 .. n
  BY InqFacts DEF Delivers
<1>2. /\ DOMAIN inq' = 1 .. n + 1
      /\ \A k \in 1 .. n : inq'[k] = inq[k]
      /\ inq'[n + 1] = x
  BY <1>1, AppendFacts DEF Delivers
<1> HIDE DEF n
<1> SUFFICES ASSUME NEW u \in Users
             PROVE  /\ \A k \in 1 .. n + 1 :
                          Mentions(inq'[k], u)
                          /\ (\A j \in 1 .. n + 1 : k < j => ~Mentions(inq'[j], u))
                              => (inq'[k].op = "ClientsConnect" <=> u \in roster')
                    /\ (\A k \in 1 .. n + 1 : ~Mentions(inq'[k], u))
                          => (u \in connected_users' <=> u \in roster')
  BY <1>2 DEF RosterRuns
<1>3. connected_users' = connected_users
  BY DEF Delivers, vars
<1>4. n + 1 \in 1 .. n + 1 /\ 1 .. n \subseteq 1 .. n + 1 /\ \A k \in 1 .. n : k < n + 1
  BY <1>1
<1>5. \A k \in 1 .. n + 1 : k = n + 1 \/ k \in 1 .. n
  BY <1>1
<1>6. CASE Mentions(x, u)
  <2>1. x.op = "ClientsConnect" <=> u \in roster'
    BY <1>6
  <2>2. \A k \in 1 .. n + 1 :
           (\A j \in 1 .. n + 1 : k < j => ~Mentions(inq'[j], u)) => k = n + 1
    BY <1>2, <1>4, <1>5, <1>6
  <2> QED BY <1>2, <1>4, <1>6, <2>1, <2>2
<1>7. CASE ~Mentions(x, u)
  <2>1. u \in roster' <=> u \in roster
    BY <1>7
  <2>2. \A k \in 1 .. n + 1 : Mentions(inq'[k], u) => k \in 1 .. n /\ inq'[k] = inq[k]
    BY <1>2, <1>5, <1>7
  <2> QED BY <1>1, <1>2, <1>3, <1>4, <1>5, <1>7, <2>1, <2>2 DEF Agreement, RosterRuns
<1> QED BY <1>6, <1>7

LEMMA LeadsKept ==
    ASSUME NEW p, NEW q, NEW k \in Nat, NEW d, NEW v,
           \A i \in 1 .. k : q[i] = p[i], Leads(p, k, d, v)
    PROVE  Leads(q, k, d, v)
<1>1. \A j \in 1 .. k : \A i \in j + 1 .. k : i \in 1 .. k
  OBVIOUS
<1> QED BY <1>1 DEF Leads

LEMMA LeadsAppend ==
    ASSUME NEW q, NEW k \in Nat, NEW d, NEW v,
           IF SetsVersion(q[k + 1]) THEN q[k + 1].version = v ELSE Leads(q, k, d, v)
    PROVE  Leads(q, k + 1, d, v)
<1>1. CASE SetsVersion(q[k + 1])
  <2>1. k + 1 \in 1 .. k + 1 /\ \A i \in (k + 1) + 1 .. k + 1 : FALSE
    OBVIOUS
  <2> QED BY <1>1, <2>1 DEF Leads
<1>2. CASE ~SetsVersion(q[k + 1])
  <2>1. \A i \in 1 .. k + 1 : i = k + 1 \/ i \in 1 .. k
    OBVIOUS
  <2>2. \A j \in 1 .. k : /\ j \in 1 .. k + 1
                          /\ \A i \in j + 1 .. k + 1 : i = k + 1 \/ i \in j + 1 .. k
    OBVIOUS
  <2> QED BY <1>2, <2>1, <2>2 DEF Leads
<1> QED BY <1>1, <1>2

LEMMA LeadsTail ==
    ASSUME NEW p, NEW q, NEW k \in Nat \ {0}, NEW d, NEW e, NEW v,
           \A i \in 1 .. k - 1 : q[i] = p[i + 1],
           e = IF SetsVersion(p[1]) THEN p[1].version ELSE d,
           Leads(p, k, d, v)
    PROVE  Leads(q, k - 1, e, v)
<1>1. \A i \in 1 .. k - 1 : i + 1 \in 1 .. k
  OBVIOUS
<1>2. CASE d = v /\ \A i \in 1 .. k : ~SetsVersion(p[i])
  <2>1. 1 \in 1 .. k
    OBVIOUS
  <2> QED BY <1>1, <1>2, <2>1 DEF Leads
<1>3. ASSUME NEW j \in 1 .. k, SetsVersion(p[j]), p[j].version = v,
             \A i \in j + 1 .. k : ~SetsVersion(p[i])
      PROVE  Leads(q, k - 1, e, v)
  <2>1. CASE j = 1
    <3>1. \A i \in 1 .. k - 1 : i + 1 \in j + 1 .. k
      BY <2>1
    <3> QED BY <1>3, <2>1, <3>1 DEF Leads
  <2>2. CASE j # 1
    <3>1. /\ j - 1 \in 1 .. k - 1 /\ (j - 1) + 1 = j
          /\ \A i \in (j - 1) + 1 .. k - 1 : i \in 1 .. k - 1 /\ i + 1 \in j + 1 .. k
      BY <2>2
    <3>2. SetsVersion(q[j - 1]) /\ q[j - 1].version = v
      BY <1>3, <3>1
    <3>3. \A i \in (j - 1) + 1 .. k - 1 : ~SetsVersion(q[i])
      BY <1>3, <3>1
    <3> QED BY <3>1, <3>2, <3>3 DEF Leads
  <2> QED BY <2>1, <2>2
<1> QED BY <1>2, <1>3 DEF Leads

LEMMA DeliversVersions ==
    ASSUME SInv, NEW x, Delivers(x),
           group' # 0 => IF SetsVersion(x) THEN x.version = group' ELSE group' = group,
           \A k \in DOMAIN inq : inq[k].op \in Binary /\ inq[k].id # 0 =>
               offered'[inq[k].id] = offered[inq[k].id],
           x.op \in Binary /\ x.id # 0 => group # 0 /\ offered'[x.id] = group
    PROVE  VersionsRun'
<1> DEFINE n == Len(inq)
           d == dave.protocol_version
<1>1. inq \in Seq(SessionFrame) /\ n \in Nat /\ Agreement /\ DOMAIN inq = 1 .. n
  BY InqFacts DEF Delivers
<1>2. /\ DOMAIN inq' = 1 .. n + 1 /\ Len(inq') = n + 1
      /\ \A k \in 1 .. n : inq'[k] = inq[k]
      /\ inq'[n + 1] = x
  BY <1>1, AppendFacts DEF Delivers
<1>3. dave'.protocol_version = d
  BY DEF Delivers, vars
<1>a. /\ group # 0 => Leads(inq, n, d, group)
      /\ \A k \in 1 .. n : inq[k].op \in Binary /\ inq[k].id # 0 =>
            Leads(inq, k - 1, d, offered[inq[k].id])
  BY <1>1 DEF Agreement, VersionsRun
<1> HIDE DEF n, d
<1>4. ASSUME NEW k \in 0 .. n, NEW v, Leads(inq, k, d, v) PROVE Leads(inq', k, d, v)
  <2>1. k \in Nat /\ \A i \in 1 .. k : i \in 1 .. n
    BY <1>1
  <2> QED BY <1>2, <1>4, <2>1, LeadsKept
<1>5. group' # 0 => Leads(inq', n + 1, d, group')
  <2> SUFFICES ASSUME group' # 0 PROVE Leads(inq', n + 1, d, group')
    OBVIOUS
  <2>1. ~SetsVersion(x) => Leads(inq', n, d, group')
    BY <1>1, <1>4, <1>a
  <2> QED BY <1>1, <1>2, <2>1, LeadsAppend
<1>6. ASSUME NEW k \in 1 .. n + 1, inq'[k].op \in Binary, inq'[k].id # 0
      PROVE  Leads(inq', k - 1, d, offered'[inq'[k].id])
  <2>1. CASE k = n + 1
    <3>1. k - 1 = n /\ n \in 0 .. n
      BY <1>1, <2>1
    <3>2. group # 0 /\ offered'[x.id] = group /\ inq'[k] = x
      BY <1>2, <1>6, <2>1
    <3> QED BY <1>4, <1>a, <3>1, <3>2
  <2>2. CASE k \in 1 .. n
    <3>1. k - 1 \in 0 .. n /\ k \in DOMAIN inq
      BY <1>1, <2>2
    <3>2. inq'[k] = inq[k] /\ offered'[inq[k].id] = offered[inq[k].id]
      BY <1>2, <1>6, <2>2, <3>1
    <3> QED BY <1>4, <1>6, <1>a, <2>2, <3>1, <3>2
  <2> QED BY <1>1, <2>1, <2>2
<1> QED BY <1>2, <1>3, <1>5, <1>6 DEF VersionsRun

\* Exchanges the frame does not touch, one it opens, and one it closes.
LEMMA DeliversOther ==
    ASSUME SInv, NEW x, Delivers(x), NEW id \in Announced,
           ~Opens(x, id), ~Executes(x, id), phase'[id] = phase[id], offered'[id] = offered[id]
    PROVE  Exchange(id)'
<1> DEFINE n == Len(inq)
<1>1. inq \in Seq(SessionFrame) /\ n \in Nat /\ Agreement /\ DOMAIN inq = 1 .. n
  BY InqFacts DEF Delivers
<1>2. /\ DOMAIN inq' = 1 .. n + 1
      /\ \A k \in 1 .. n : inq'[k] = inq[k]
      /\ inq'[n + 1] = x
  BY <1>1, AppendFacts DEF Delivers
<1>3. Exchange(id) /\ out' = out /\ pending_transitions' = pending_transitions
  BY <1>1 DEF Agreement, Delivers, vars
<1> HIDE DEF n
<1>4. \A k \in 1 .. n + 1 : k = n + 1 \/ (k \in 1 .. n /\ inq'[k] = inq[k])
  BY <1>1, <1>2
<1>5. Opened(id)'
  BY <1>1, <1>2, <1>3, <1>4 DEF Exchange, Opened
<1>6. Answered(id)' /\ Acked(id)'
  BY <1>3 DEF Exchange, Answered, Acked
<1>7. Executing(id)'
  BY <1>1, <1>2, <1>3, <1>4 DEF Exchange, Executing
<1> QED BY <1>5, <1>6, <1>7 DEF Exchange

LEMMA DeliversOpening ==
    ASSUME SInv, NEW x, Delivers(x), NEW id \in Announced,
           Opens(x, id), phase[id] = "idle", phase'[id] = "prepared",
           offered'[id] = 0 <=> x.op = "PrepareTransition"
    PROVE  Exchange(id)'
<1> DEFINE n == Len(inq)
<1>1. inq \in Seq(SessionFrame) /\ n \in Nat /\ Agreement /\ DOMAIN inq = 1 .. n
  BY InqFacts DEF Delivers
<1>2. /\ DOMAIN inq' = 1 .. n + 1
      /\ \A k \in 1 .. n : inq'[k] = inq[k]
      /\ inq'[n + 1] = x
  BY <1>1, AppendFacts DEF Delivers
<1>3. Exchange(id) /\ out' = out /\ pending_transitions' = pending_transitions
  BY <1>1 DEF Agreement, Delivers, vars
<1> HIDE DEF n
<1>4. \A k \in 1 .. n + 1 : k = n + 1 \/ (k \in 1 .. n /\ inq'[k] = inq[k])
  BY <1>1, <1>2
<1>5. /\ \A k \in 1 .. n : ~Opens(inq[k], id)
      /\ \A k \in DOMAIN out : ~Answers(out[k], id)
      /\ ~Executes(x, id)
  BY <1>1, <1>3 DEF Exchange, Opened, Answered, Opens, Executes, Binary
<1>6. Opened(id)'
  BY <1>2, <1>3, <1>4, <1>5 DEF Opened
<1>7. Answered(id)' /\ Acked(id)'
  BY <1>3, <1>5 DEF Answered, Acked
<1>8. \A k \in 1 .. n : ~(n + 1 < k)
  BY <1>1
<1>9. Executing(id)'
  BY <1>1, <1>2, <1>3, <1>4, <1>5, <1>8 DEF Exchange, Executing
<1> QED BY <1>6, <1>7, <1>9 DEF Exchange

LEMMA DeliversExecution ==
    ASSUME SInv, NEW x, Delivers(x), NEW id \in Announced,
           Executes(x, id), phase[id] = "acked", phase'[id] = "idle",
           offered'[id] = offered[id]
    PROVE  Exchange(id)'
<1> DEFINE n == Len(inq)
<1>1. inq \in Seq(SessionFrame) /\ n \in Nat /\ Agreement /\ DOMAIN inq = 1 .. n
  BY InqFacts DEF Delivers
<1>2. /\ DOMAIN inq' = 1 .. n + 1
      /\ \A k \in 1 .. n : inq'[k] = inq[k]
      /\ inq'[n + 1] = x
  BY <1>1, AppendFacts DEF Delivers
<1>3. Exchange(id) /\ out' = out /\ pending_transitions' = pending_transitions
  BY <1>1 DEF Agreement, Delivers, vars
<1> HIDE DEF n
<1>4. \A k \in 1 .. n + 1 : k = n + 1 \/ (k \in 1 .. n /\ inq'[k] = inq[k])
  BY <1>1, <1>2
<1>5. /\ \A k \in 1 .. n : ~Opens(inq[k], id) /\ ~Executes(inq[k], id)
      /\ \A k \in DOMAIN out : ~Answers(out[k], id)
      /\ ~Opens(x, id)
  BY <1>1, <1>3 DEF Exchange, Opened, Answered, Executing, Opens, Executes, Binary
<1>6. pending_transitions[id] # None
  <2>1. offered[id] \in Versions
    BY DEF SInv, SessionTypeOK
  <2>2. pending_transitions[id] = offered[id]
    BY <1>3 DEF Exchange, Acked
  <2>3. \A v \in Versions : v # None
    BY VersionsAssumption, NoneAssumption
  <2> QED BY <2>1, <2>2, <2>3
<1>7. Opened(id)' /\ Answered(id)' /\ Acked(id)'
  BY <1>2, <1>3, <1>4, <1>5 DEF Opened, Answered, Acked
<1>8. Executing(id)'
  BY <1>2, <1>3, <1>4, <1>5, <1>6 DEF Executing
<1> QED BY <1>7, <1>8 DEF Exchange

LEMMA DeliversDowngrading ==
    ASSUME SInv, NEW x, Delivers(x), NEW id \in Announced,
           \/ phase'[id] = "idle" \/ offered'[id] # 0
           \/ /\ phase'[id] = phase[id] /\ offered'[id] = offered[id]
              /\ id \in takenDown' => id \in takenDown
           \/ Opens(x, id) /\ (id \in takenDown' => HasSession(dave))
    PROVE  Downgrading(id)'
<1> DEFINE n == Len(inq)
<1>1. inq \in Seq(SessionFrame) /\ n \in Nat /\ Agreement /\ DOMAIN inq = 1 .. n
  BY InqFacts DEF Delivers
<1>2. /\ DOMAIN inq' = 1 .. n + 1
      /\ \A k \in 1 .. n : inq'[k] = inq[k]
      /\ inq'[n + 1] = x
  BY <1>1, AppendFacts DEF Delivers
<1>3. Downgrading(id) /\ dave' = dave
  BY <1>1 DEF Agreement, Delivers, vars
<1> HIDE DEF n
<1>4. /\ \A k \in 1 .. n + 1 : k = n + 1 \/ (k \in 1 .. n /\ inq'[k] = inq[k])
      /\ \A k \in 1 .. n : k \in 1 .. n + 1 /\ k < n + 1
      /\ n + 1 \in 1 .. n + 1
  BY <1>1, <1>2
<1>5. CASE phase'[id] = "idle" \/ offered'[id] # 0
  BY <1>5 DEF Downgrading
<1>6. CASE Opens(x, id) /\ (id \in takenDown' => HasSession(dave))
  BY <1>2, <1>3, <1>4, <1>6 DEF Downgrading
<1>7. CASE /\ phase'[id] = phase[id] /\ offered'[id] = offered[id]
           /\ id \in takenDown' => id \in takenDown
  BY <1>1, <1>2, <1>3, <1>4, <1>7 DEF Downgrading
<1> QED BY <1>5, <1>6, <1>7

-----------------------------------------------------------------------------
(* The gateway's steps.                                                    *)

\* What every frame of the gateway's own does, m being the frame unnumbered.
LEMMA GwSendFacts ==
    ASSUME SInv, NEW m, GwSend(m), \A s \in Seqs : [m EXCEPT !.seq = s] \in SessionFrame
    PROVE  /\ IInv' /\ Bounded' /\ Ungreeted'
           /\ inq' \in Seq(Inbound) /\ gseq' \in Nat /\ sent' \in Nat /\ conns' \in Nat
           /\ greeted' \in BOOLEAN
           /\ InSession' => InSession
           /\ \E s \in Seqs : InSession => Delivers([m EXCEPT !.seq = s])
<1> USE DEF GwSend, Reply
<1>1. /\ gseq \in Nat /\ sent \in Nat /\ sent < MaxGateway /\ gseq <= sent + 1
      /\ inq \in Seq(Inbound) /\ conns \in Nat /\ greeted
  BY DEF SInv, SessionTypeOK, Bounded
<1> DEFINE s == IF m.op \in Binary THEN (gseq + 1) % SeqMod ELSE gseq + 1
<1>2. gseq + 1 \in Nat /\ gseq + 1 \in 0 .. MaxGateway + 1 /\ MaxGateway \in Nat
  BY <1>1, MaxGatewayAssumption
<1>3. s \in Seqs /\ Cong(s, gseq + 1, SeqMod)
  <2>1. (gseq + 1) % SeqMod \in 0 .. gseq + 1 /\ Cong((gseq + 1) % SeqMod, gseq + 1, SeqMod)
    BY <1>2, SeqModAssumption, CongCut
  <2>2. Cong(gseq + 1, gseq + 1, SeqMod)
    BY <1>2, SeqModAssumption, CongSame
  <2>3. s \in 0 .. gseq + 1
    BY <1>2, <2>1
  <2>4. s \in 0 .. MaxGateway + 1
    BY <1>2, <2>3
  <2> QED BY <2>1, <2>2, <2>4, MaxGatewayAssumption
<1> DEFINE x == [m EXCEPT !.seq = s]
<1>4. x \in SessionFrame /\ inq' = Append(inq, x) /\ gseq' = gseq + 1
  BY <1>3 DEF Numbered
<1> HIDE DEF s
<1>5. x.seq = s
  <2>1. x.seq \in Seqs
    BY <1>4, FrameFields
  <2>2. \A r \in Seqs : [m EXCEPT !.seq = r].seq = r
    <3> SUFFICES ASSUME NEW r \in Seqs PROVE [m EXCEPT !.seq = r].seq = r
      OBVIOUS
    <3>1. [m EXCEPT !.seq = r] \in SessionFrame
      OBVIOUS
    <3>2. "seq" \in DOMAIN [m EXCEPT !.seq = r]
      BY <3>1 DEF SessionFrame
    <3>3. "seq" \in DOMAIN m
      BY <3>2
    <3> QED BY <3>3
  <2> QED BY <1>3, <2>2
<1> HIDE DEF x
<1>6. inq' \in Seq(Inbound)
  BY <1>1, <1>4, FrameFields, AppendFacts
<1>7. InSession => Delivers(x)
  BY <1>3, <1>4, <1>5 DEF Delivers
<1>8. IInv'
  BY StutterStep DEF SInv
<1>9. Bounded' /\ Ungreeted' /\ (InSession' => InSession)
  BY <1>1, MaxGatewayAssumption DEF Bounded, Ungreeted, InSession, vars
<1>10. \E r \in Seqs : InSession => Delivers([m EXCEPT !.seq = r])
  <2>1. s \in Seqs /\ (InSession => Delivers([m EXCEPT !.seq = s]))
    BY <1>3, <1>7 DEF x
  <2> QED BY <2>1, Zenon
<1>11. gseq' \in Nat /\ sent' \in Nat /\ conns' \in Nat /\ greeted' \in BOOLEAN
  BY <1>1, <1>2
<1> QED BY <1>6, <1>8, <1>9, <1>10, <1>11

LEMMA GwSelectStep == ASSUME SInv, NEW v \in Versions, GwSelect(v) PROVE SInv'
<1> DEFINE m == [op |-> "SelectProtocolAck", seq |-> None, version |-> v, sdp |-> TRUE]
<1>1. \A s \in Seqs : [m EXCEPT !.seq = s] \in SessionFrame
  BY DEF SessionFrame
<1>2. GwSend(m)
  BY DEF GwSelect
<1>3. /\ IInv' /\ Bounded' /\ Ungreeted'
      /\ inq' \in Seq(Inbound) /\ gseq' \in Nat /\ sent' \in Nat /\ conns' \in Nat
      /\ greeted' \in BOOLEAN /\ (InSession' => InSession)
  BY <1>1, <1>2, GwSendFacts
<1>4. SessionTypeOK'
  BY <1>3 DEF SInv, IInv, SessionTypeOK, GwSelect
<1>5. ASSUME InSession' PROVE Agreement'
  <2>1. PICK s \in Seqs : Delivers([m EXCEPT !.seq = s])
    BY <1>1, <1>2, <1>3, <1>5, GwSendFacts
  <2> DEFINE x == [m EXCEPT !.seq = s]
  <2>2. x.op = "SelectProtocolAck" /\ x.version = v /\ Delivers(x)
    BY <2>1
  <2> HIDE DEF x, m
  <2>3. /\ ~selected /\ selected' /\ group' = v
        /\ UNCHANGED <<member, phase, offered, takenDown, roster>>
    BY DEF GwSelect
  <2>4. Agreement
    BY <2>2, InqFacts DEF Delivers
  <2>5. \A id \in Announced : ~Opens(x, id) /\ ~Executes(x, id) /\ phase[id] = "idle"
    BY <2>2, <2>3, <2>4 DEF Agreement, Unselected, Opens, Executes, Binary
  <2>6. Framed' /\ NoGreeting' /\ NumbersRun'
    BY <2>2, DeliversNumbers
  <2>7. RosterRuns'
    <3>1. \A u \in Users : ~Mentions(x, u)
      BY <2>2 DEF Mentions
    <3> QED BY <2>2, <2>3, <3>1, DeliversRoster
  <2>8. VersionsRun'
    <3>1. SetsVersion(x) /\ x.op \notin Binary
      BY <2>2 DEF SetsVersion, Binary
    <3> QED BY <2>2, <2>3, <3>1, DeliversVersions
  <2>9. \A id \in Announced : Exchange(id)' /\ Downgrading(id)'
    BY <2>2, <2>3, <2>5, DeliversOther, DeliversDowngrading
  <2>10. SessionKept'
    BY <2>2, <2>3, <2>4 DEF Agreement, SessionKept, Delivers, vars
  <2>11. Unselected'
    BY <2>3 DEF Unselected
  <2> QED BY <2>6, <2>7, <2>8, <2>9, <2>10, <2>11 DEF Agreement
<1> QED BY <1>3, <1>4, <1>5 DEF SInv

LEMMA GwEpochStep == ASSUME SInv, NEW v \in Versions, GwEpoch(v) PROVE SInv'
<1> DEFINE m == [op |-> "PrepareEpoch", seq |-> None, epoch |-> 1, version |-> v]
<1>1. \A s \in Seqs : [m EXCEPT !.seq = s] \in SessionFrame
  BY DEF SessionFrame, GwEpoch
<1>2. GwSend(m)
  BY DEF GwEpoch
<1>3. /\ IInv' /\ Bounded' /\ Ungreeted'
      /\ inq' \in Seq(Inbound) /\ gseq' \in Nat /\ sent' \in Nat /\ conns' \in Nat
      /\ greeted' \in BOOLEAN /\ (InSession' => InSession)
  BY <1>1, <1>2, GwSendFacts
<1>4. SessionTypeOK'
  BY <1>3 DEF SInv, IInv, SessionTypeOK, GwEpoch
<1>5. ASSUME InSession' PROVE Agreement'
  <2>1. PICK s \in Seqs : Delivers([m EXCEPT !.seq = s])
    BY <1>1, <1>2, <1>3, <1>5, GwSendFacts
  <2> DEFINE x == [m EXCEPT !.seq = s]
  <2>2. x.op = "PrepareEpoch" /\ x.version = v /\ Delivers(x)
    BY <2>1
  <2> HIDE DEF x, m
  <2>3. /\ selected /\ selected' = selected /\ group' = v /\ member' = FALSE
        /\ UNCHANGED <<phase, offered, takenDown, roster>>
    BY DEF GwEpoch
  <2>4. Agreement
    BY <2>2, InqFacts DEF Delivers
  <2>5. \A id \in Announced : ~Opens(x, id) /\ ~Executes(x, id)
    BY <2>2 DEF Opens, Executes, Binary
  <2>6. Framed' /\ NoGreeting' /\ NumbersRun'
    BY <2>2, DeliversNumbers
  <2>7. RosterRuns'
    <3>1. \A u \in Users : ~Mentions(x, u)
      BY <2>2 DEF Mentions
    <3> QED BY <2>2, <2>3, <3>1, DeliversRoster
  <2>8. VersionsRun'
    <3>1. SetsVersion(x) /\ x.op \notin Binary
      BY <2>2 DEF SetsVersion, Binary
    <3> QED BY <2>2, <2>3, <3>1, DeliversVersions
  <2>9. \A id \in Announced : Exchange(id)' /\ Downgrading(id)'
    BY <2>2, <2>3, <2>5, DeliversOther, DeliversDowngrading
  <2>10. SessionKept'
    BY <2>2, <2>3, <2>4 DEF Agreement, SessionKept, Delivers, vars
  <2>11. Unselected'
    BY <2>3 DEF Unselected
  <2> QED BY <2>6, <2>7, <2>8, <2>9, <2>10, <2>11 DEF Agreement
<1> QED BY <1>3, <1>4, <1>5 DEF SInv

LEMMA GwCommitStep ==
    ASSUME SInv, NEW op \in Binary, NEW i \in TransitionIds, GwCommit(op, i)
    PROVE  SInv'
<1> DEFINE m == [op |-> op, seq |-> None, id |-> i]
<1>1. \A s \in Seqs : [m EXCEPT !.seq = s] \in SessionFrame
  BY DEF SessionFrame
<1>2. GwSend(m)
  BY DEF GwCommit
<1>3. /\ IInv' /\ Bounded' /\ Ungreeted'
      /\ inq' \in Seq(Inbound) /\ gseq' \in Nat /\ sent' \in Nat /\ conns' \in Nat
      /\ greeted' \in BOOLEAN /\ (InSession' => InSession)
  BY <1>1, <1>2, GwSendFacts
<1>4. SessionTypeOK'
  BY <1>3 DEF SInv, IInv, SessionTypeOK, GwCommit
<1>5. ASSUME InSession' PROVE Agreement'
  <2>1. PICK s \in Seqs : Delivers([m EXCEPT !.seq = s])
    BY <1>1, <1>2, <1>3, <1>5, GwSendFacts
  <2> DEFINE x == [m EXCEPT !.seq = s]
  <2>2. x.op = op /\ x.id = i /\ Delivers(x)
    BY <2>1
  <2> HIDE DEF x, m
  <2>a. /\ \A id : Opens(x, id) <=> id = i
        /\ \A id : ~Executes(x, id)
        /\ ~SetsVersion(x) /\ x.op # "PrepareTransition"
        /\ \A u \in Users : ~Mentions(x, u)
    BY <2>2 DEF Opens, Executes, Binary, SetsVersion, Mentions
  <2>3. /\ group # 0 /\ member /\ UNCHANGED <<selected, group, member, takenDown, roster>>
        /\ \A id \in Announced : id # i => phase'[id] = phase[id] /\ offered'[id] = offered[id]
        /\ i # 0 => phase[i] = "idle" /\ phase'[i] = "prepared" /\ offered'[i] = group
    BY DEF GwCommit, SInv, SessionTypeOK, Announced
  <2>4. Agreement
    BY <2>2, InqFacts DEF Delivers
  <2>5. Framed' /\ NoGreeting' /\ NumbersRun'
    BY <2>2, DeliversNumbers
  <2>6. RosterRuns'
    BY <2>2, <2>3, <2>a, DeliversRoster
  <2>7. VersionsRun'
    <3>1. ASSUME NEW k \in DOMAIN inq, inq[k].op \in Binary, inq[k].id # 0
          PROVE  offered'[inq[k].id] = offered[inq[k].id]
      <4>1. inq[k].id \in Announced
        BY <2>2, <3>1, InqFacts, FrameFields DEF Announced, Delivers
      <4>2. phase[inq[k].id] = "prepared"
        BY <2>4, <3>1, <4>1 DEF Agreement, Exchange, Opened, Opens
      <4> QED BY <2>3, <4>1, <4>2 DEF Announced
    <3> QED BY <2>2, <2>3, <2>a, <3>1, DeliversVersions
  <2>8. ASSUME NEW id \in Announced PROVE Exchange(id)' /\ Downgrading(id)'
    <3>1. CASE id = i
      BY <2>2, <2>3, <2>a, <3>1, DeliversOpening, DeliversDowngrading DEF Announced
    <3>2. CASE id # i
      BY <2>2, <2>3, <2>a, <3>2, DeliversOther, DeliversDowngrading
    <3> QED BY <3>1, <3>2
  <2>9. SessionKept'
    BY <2>2, <2>3, <2>4 DEF Agreement, SessionKept, Delivers, vars
  <2>10. Unselected'
    BY <2>3, <2>4 DEF Agreement, Unselected
  <2> QED BY <2>5, <2>6, <2>7, <2>8, <2>9, <2>10 DEF Agreement
<1> QED BY <1>3, <1>4, <1>5 DEF SInv

LEMMA GwDowngradeStep == ASSUME SInv, NEW i \in Announced, GwDowngrade(i) PROVE SInv'
<1> DEFINE m == [op |-> "PrepareTransition", seq |-> None, id |-> i, version |-> 0]
<1>1. \A s \in Seqs : [m EXCEPT !.seq = s] \in SessionFrame
  BY DEF SessionFrame
<1>2. GwSend(m)
  BY DEF GwDowngrade
<1>3. /\ IInv' /\ Bounded' /\ Ungreeted'
      /\ inq' \in Seq(Inbound) /\ gseq' \in Nat /\ sent' \in Nat /\ conns' \in Nat
      /\ greeted' \in BOOLEAN /\ (InSession' => InSession)
  BY <1>1, <1>2, GwSendFacts
<1>4. SessionTypeOK'
  BY <1>3, VersionsAssumption DEF SInv, IInv, SessionTypeOK, GwDowngrade
<1>5. ASSUME InSession' PROVE Agreement'
  <2>1. PICK s \in Seqs : Delivers([m EXCEPT !.seq = s])
    BY <1>1, <1>2, <1>3, <1>5, GwSendFacts
  <2> DEFINE x == [m EXCEPT !.seq = s]
  <2>2. x.op = "PrepareTransition" /\ x.id = i /\ Delivers(x)
    BY <2>1
  <2> HIDE DEF x, m
  <2>a. /\ \A id : Opens(x, id) <=> id = i
        /\ \A id : ~Executes(x, id)
        /\ ~SetsVersion(x) /\ x.op \notin Binary
        /\ \A u \in Users : ~Mentions(x, u)
    BY <2>2 DEF Opens, Executes, Binary, SetsVersion, Mentions
  <2>3. /\ group # 0 /\ group' = 0 /\ member' = FALSE /\ UNCHANGED <<selected, roster>>
        /\ \A id \in Announced : id # i => phase'[id] = phase[id] /\ offered'[id] = offered[id]
        /\ phase[i] = "idle" /\ phase'[i] = "prepared" /\ offered'[i] = 0
        /\ \A id \in Announced : id # i /\ id \in takenDown' => id \in takenDown
        /\ i \in takenDown' => KeyPackage \in wire
    BY DEF GwDowngrade, SInv, SessionTypeOK
  <2>4. Agreement
    BY <2>2, InqFacts DEF Delivers
  <2>b. i \in takenDown' => HasSession(dave)
    BY <2>3 DEF SInv, IInv, KeyPackageBacked, Sent
  <2>5. Framed' /\ NoGreeting' /\ NumbersRun'
    BY <2>2, DeliversNumbers
  <2>6. RosterRuns'
    BY <2>2, <2>3, <2>a, DeliversRoster
  <2>7. VersionsRun'
    <3>1. ASSUME NEW k \in DOMAIN inq, inq[k].op \in Binary, inq[k].id # 0
          PROVE  offered'[inq[k].id] = offered[inq[k].id]
      <4>1. inq[k].id \in Announced
        BY <2>2, <3>1, InqFacts, FrameFields DEF Announced, Delivers
      <4>2. phase[inq[k].id] = "prepared"
        BY <2>4, <3>1, <4>1 DEF Agreement, Exchange, Opened, Opens
      <4> QED BY <2>3, <4>1, <4>2
    <3> QED BY <2>2, <2>3, <2>a, <3>1, DeliversVersions
  <2>8. ASSUME NEW id \in Announced PROVE Exchange(id)' /\ Downgrading(id)'
    <3>1. CASE id = i
      BY <2>2, <2>3, <2>a, <2>b, <3>1, DeliversOpening, DeliversDowngrading
    <3>2. CASE id # i
      BY <2>2, <2>3, <2>a, <3>2, DeliversOther, DeliversDowngrading
    <3> QED BY <3>1, <3>2
  <2>9. SessionKept'
    BY <2>2, <2>3, <2>4 DEF Agreement, SessionKept, Delivers, vars
  <2>10. Unselected'
    BY <2>3, <2>4 DEF Agreement, Unselected
  <2> QED BY <2>5, <2>6, <2>7, <2>8, <2>9, <2>10 DEF Agreement
<1> QED BY <1>3, <1>4, <1>5 DEF SInv

LEMMA GwExecuteStep == ASSUME SInv, NEW i \in Announced, GwExecute(i) PROVE SInv'
<1> DEFINE m == [op |-> "ExecuteTransition", seq |-> None, id |-> i]
<1>1. \A s \in Seqs : [m EXCEPT !.seq = s] \in SessionFrame
  BY DEF SessionFrame
<1>2. GwSend(m)
  BY DEF GwExecute
<1>3. /\ IInv' /\ Bounded' /\ Ungreeted'
      /\ inq' \in Seq(Inbound) /\ gseq' \in Nat /\ sent' \in Nat /\ conns' \in Nat
      /\ greeted' \in BOOLEAN /\ (InSession' => InSession)
  BY <1>1, <1>2, GwSendFacts
<1>4. SessionTypeOK'
  BY <1>3 DEF SInv, IInv, SessionTypeOK, GwExecute
<1>5. ASSUME InSession' PROVE Agreement'
  <2>1. PICK s \in Seqs : Delivers([m EXCEPT !.seq = s])
    BY <1>1, <1>2, <1>3, <1>5, GwSendFacts
  <2> DEFINE x == [m EXCEPT !.seq = s]
  <2>2. x.op = "ExecuteTransition" /\ x.id = i /\ Delivers(x)
    BY <2>1
  <2> HIDE DEF x, m
  <2>a. /\ \A id : Executes(x, id) <=> id = i
        /\ \A id : ~Opens(x, id)
        /\ ~SetsVersion(x) /\ x.op \notin Binary
        /\ \A u \in Users : ~Mentions(x, u)
    BY <2>2 DEF Opens, Executes, Binary, SetsVersion, Mentions
  <2>3. /\ UNCHANGED <<selected, group, member, offered, takenDown, roster>>
        /\ \A id \in Announced : id # i => phase'[id] = phase[id]
        /\ phase[i] = "acked" /\ phase'[i] = "idle"
    BY DEF GwExecute, SInv, SessionTypeOK
  <2>4. Agreement
    BY <2>2, InqFacts DEF Delivers
  <2>5. Framed' /\ NoGreeting' /\ NumbersRun'
    BY <2>2, DeliversNumbers
  <2>6. RosterRuns'
    BY <2>2, <2>3, <2>a, DeliversRoster
  <2>7. VersionsRun'
    BY <2>2, <2>3, <2>a, DeliversVersions
  <2>8. ASSUME NEW id \in Announced PROVE Exchange(id)' /\ Downgrading(id)'
    <3>1. CASE id = i
      BY <2>2, <2>3, <2>a, <3>1, DeliversExecution, DeliversDowngrading
    <3>2. CASE id # i
      BY <2>2, <2>3, <2>a, <3>2, DeliversOther, DeliversDowngrading
    <3> QED BY <3>1, <3>2
  <2>9. SessionKept'
    BY <2>2, <2>3, <2>4 DEF Agreement, SessionKept, Delivers, vars
  <2>10. Unselected'
    BY <2>3, <2>4 DEF Agreement, Unselected
  <2> QED BY <2>5, <2>6, <2>7, <2>8, <2>9, <2>10 DEF Agreement
<1> QED BY <1>3, <1>4, <1>5 DEF SInv

LEMMA GwUsersStep == ASSUME SInv, NEW u \in Users, GwJoin(u) \/ GwLeave(u) PROVE SInv'
<1> DEFINE join == [op |-> "ClientsConnect", seq |-> None, user_ids |-> {u}]
           leave == [op |-> "ClientDisconnect", seq |-> None, user_id |-> u]
<1>1. \A s \in Seqs : [join EXCEPT !.seq = s] \in SessionFrame
                      /\ [leave EXCEPT !.seq = s] \in SessionFrame
  BY DEF SessionFrame
<1>2. PICK m : /\ \/ m = join /\ roster' = roster \cup {u}
                  \/ m = leave /\ roster' = roster \ {u}
               /\ GwSend(m)
  BY DEF GwJoin, GwLeave
<1>a. \A s \in Seqs : [m EXCEPT !.seq = s] \in SessionFrame
  BY <1>1, <1>2
<1>3. /\ IInv' /\ Bounded' /\ Ungreeted'
      /\ inq' \in Seq(Inbound) /\ gseq' \in Nat /\ sent' \in Nat /\ conns' \in Nat
      /\ greeted' \in BOOLEAN /\ (InSession' => InSession)
  BY <1>a, <1>2, GwSendFacts
<1>4. SessionTypeOK'
  <2>1. roster' \subseteq Users
    BY <1>2 DEF SInv, SessionTypeOK
  <2> QED BY <1>3, <2>1 DEF SInv, IInv, SessionTypeOK, GwJoin, GwLeave
<1>5. ASSUME InSession' PROVE Agreement'
  <2>1. PICK s \in Seqs : Delivers([m EXCEPT !.seq = s])
    BY <1>a, <1>2, <1>3, <1>5, GwSendFacts
  <2> DEFINE x == [m EXCEPT !.seq = s]
  <2>2. /\ Delivers(x)
        /\ \/ x.op = "ClientsConnect" /\ x.user_ids = {u} /\ roster' = roster \cup {u}
           \/ x.op = "ClientDisconnect" /\ x.user_id = u /\ roster' = roster \ {u}
    BY <1>2, <2>1
  <2> HIDE DEF x
  <2>a. /\ \A id : ~Executes(x, id) /\ ~Opens(x, id)
        /\ ~SetsVersion(x) /\ x.op \notin Binary
        /\ \A w \in Users : IF Mentions(x, w) THEN x.op = "ClientsConnect" <=> w \in roster'
                            ELSE w \in roster' <=> w \in roster
    BY <2>2 DEF Opens, Executes, Binary, SetsVersion, Mentions
  <2>3. UNCHANGED <<selected, group, member, phase, offered, takenDown>>
    BY DEF GwJoin, GwLeave
  <2>4. Agreement
    BY <2>2, InqFacts DEF Delivers
  <2>5. Framed' /\ NoGreeting' /\ NumbersRun'
    BY <2>2, DeliversNumbers
  <2>6. RosterRuns'
    BY <2>2, <2>a, DeliversRoster
  <2>7. VersionsRun'
    BY <2>2, <2>3, <2>a, DeliversVersions
  <2>8. \A id \in Announced : Exchange(id)' /\ Downgrading(id)'
    BY <2>2, <2>3, <2>a, DeliversOther, DeliversDowngrading
  <2>9. SessionKept'
    BY <2>2, <2>3, <2>4 DEF Agreement, SessionKept, Delivers, vars
  <2>10. Unselected'
    BY <2>3, <2>4 DEF Agreement, Unselected
  <2> QED BY <2>5, <2>6, <2>7, <2>8, <2>9, <2>10 DEF Agreement
<1> QED BY <1>3, <1>4, <1>5 DEF SInv

-----------------------------------------------------------------------------
(* A frame reaches the gateway.                                            *)

\* The exchanges, when the frame is an answer to one and when it is not.
LEMMA UpExchange ==
    ASSUME TypeOK, WriterSend, UNCHANGED <<inq, offered>>, NEW id \in Announced, Exchange(id),
           IF Answers(Head(out), id)
           THEN \/ phase'[id] = "idle"
                \/ phase'[id] = "acked" /\ Head(out).op = "TransitionReady"
           ELSE phase'[id] = phase[id]
    PROVE  Exchange(id)'
<1> DEFINE n == Len(out)
<1>1. /\ n \in Nat \ {0} /\ DOMAIN out = 1 .. n /\ DOMAIN out' = 1 .. n - 1
      /\ \A k \in 1 .. n - 1 : k + 1 \in 1 .. n /\ out'[k] = out[k + 1]
      /\ Head(out) = out[1] /\ 1 \in 1 .. n
  BY TailFacts DEF TypeOK, WriterSend
<1>2. pending_transitions' = pending_transitions
  BY DEF WriterSend, writerFrame, mediaVars
<1> HIDE DEF n
<1>3. \A k \in 1 .. n - 1 : k + 1 # 1
  BY <1>1
<1>4. CASE Answers(out[1], id)
  <2>1. /\ phase[id] = "prepared"
        /\ out[1].op = "TransitionReady" => pending_transitions[id] = offered[id]
        /\ \A j \in 1 .. n : Answers(out[j], id) => j = 1
    BY <1>1, <1>4 DEF Exchange, Answered
  <2>2. \A k \in 1 .. n - 1 : ~Answers(out'[k], id)
    BY <1>1, <1>3, <2>1
  <2>3. \A k \in DOMAIN inq : ~Opens(inq[k], id) /\ ~Executes(inq[k], id)
    BY <1>1, <1>4 DEF Exchange, Opened, Executing
  <2>4. Opened(id)' /\ Answered(id)' /\ Executing(id)'
    BY <1>1, <2>2, <2>3 DEF Opened, Answered, Executing
  <2>5. Acked(id)'
    BY <1>1, <1>2, <1>4, <2>1 DEF Acked
  <2> QED BY <2>4, <2>5 DEF Exchange
<1>5. CASE ~Answers(out[1], id)
  <2>1. phase'[id] = phase[id]
    BY <1>1, <1>5
  <2>2. Opened(id)' /\ Executing(id)'
    BY <1>1, <1>2, <2>1 DEF Exchange, Opened, Executing
  <2>3. Acked(id)'
    BY <1>2, <2>1 DEF Exchange, Acked
  <2>4. ASSUME NEW k \in DOMAIN out', Answers(out'[k], id)
        PROVE  /\ phase'[id] = "prepared"
               /\ out'[k].op = "TransitionReady" => pending_transitions'[id] = offered'[id]
               /\ \A j \in DOMAIN out' : Answers(out'[j], id) => j = k
    <3>1. k + 1 \in DOMAIN out /\ out'[k] = out[k + 1]
      BY <1>1
    <3>2. /\ phase[id] = "prepared"
          /\ out[k + 1].op = "TransitionReady" => pending_transitions[id] = offered[id]
          /\ \A j \in DOMAIN out : Answers(out[j], id) => j = k + 1
      BY <2>4, <3>1 DEF Exchange, Answered
    <3>3. ASSUME NEW j \in DOMAIN out', Answers(out'[j], id) PROVE j = k
      <4>1. j + 1 \in DOMAIN out /\ out'[j] = out[j + 1]
        BY <1>1
      <4>2. j + 1 = k + 1
        BY <3>2, <3>3, <4>1
      <4> QED BY <1>1, <4>2
    <3> QED BY <1>2, <2>1, <3>1, <3>2, <3>3
  <2>5. Answered(id)'
    BY <2>4 DEF Answered
  <2> QED BY <2>2, <2>3, <2>5 DEF Exchange
<1> QED BY <1>1, <1>4, <1>5

\* A frame other than the greeting, in the session.
LEMMA UpAgrees == ASSUME SInv, InSession, Up PROVE Agreement'
<1> DEFINE f == Head(out)
<1>1. /\ TypeOK /\ Agreement /\ WriterSend /\ GwReceive(f) /\ UNCHANGED <<takenDown, roster>>
      /\ SessionTypeOK
  BY DEF SInv, IInv, Up, Agreement
<1>2. /\ f \in Outbound /\ f \in Sent /\ ~Greeting(f)
      /\ \A k \in DOMAIN out' : \E j \in DOMAIN out : out'[k] = out[j]
  <2>1. out \in Seq(Outbound) /\ out # <<>> /\ out' = Tail(out)
    BY <1>1 DEF TypeOK, WriterSend
  <2>2. f \in Outbound /\ f = out[1] /\ 1 \in DOMAIN out
    BY <2>1, TailFacts
  <2>3. \A k \in DOMAIN out' : \E j \in DOMAIN out : out'[k] = out[j]
    <3>1. /\ DOMAIN out = 1 .. Len(out) /\ DOMAIN out' = 1 .. Len(out) - 1
          /\ \A k \in 1 .. Len(out) - 1 : k + 1 \in 1 .. Len(out) /\ out'[k] = out[k + 1]
      BY <2>1, TailFacts
    <3> QED BY <3>1
  <2>4. ~Greeting(f)
    BY <1>1, <2>2 DEF Agreement, NoGreeting
  <2>5. f \in Sent
    BY <2>2 DEF Sent, Range
  <2> QED BY <2>2, <2>3, <2>4, <2>5
<1>3. UNCHANGED <<loop, status, seq, dave, connected_users, pending_transitions>>
  BY <1>1 DEF WriterSend, writerFrame, mediaVars
<1>4. f.op \notin {"Identify", "Resume"}
  BY <1>2 DEF Greeting
<1>5. f.op = "KeyPackage" => f = KeyPackage
  BY <1>2 DEF Outbound, KeyPackage
<1> HIDE DEF f
<1>6. /\ UNCHANGED <<inq, greeted, selected, group, offered, gseq>>
      /\ member' => member \/ f.op = "KeyPackage"
  BY <1>1, <1>4 DEF GwReceive
<1>7. ASSUME NEW id \in Announced
      PROVE  /\ phase'[id] # "idle" => phase[id] # "idle"
             /\ IF Answers(f, id)
                THEN \/ phase'[id] = "idle"
                     \/ phase'[id] = "acked" /\ f.op = "TransitionReady"
                ELSE phase'[id] = phase[id]
  <2>1. phase \in [Announced -> {"idle", "prepared", "acked"}] /\ id # 0
    BY <1>1 DEF SessionTypeOK, Announced
  <2>2. Answers(f, id) => phase[id] = "prepared"
    <3>1. out \in Seq(Outbound) /\ out # <<>>
      BY <1>1 DEF TypeOK, WriterSend
    <3>2. f = out[1] /\ 1 \in DOMAIN out
      BY <3>1, TailFacts DEF f
    <3> QED BY <1>1, <3>2 DEF Agreement, Exchange, Answered
  <2>3. CASE f.op = "TransitionReady"
    BY <1>1, <2>1, <2>2, <2>3 DEF GwReceive, Answers
  <2>4. CASE f.op = "InvalidCommit"
    BY <1>1, <2>1, <2>2, <2>4 DEF GwReceive, Answers
  <2>5. CASE f.op \notin {"TransitionReady", "InvalidCommit"}
    BY <1>1, <1>4, <2>5 DEF GwReceive, Answers
  <2> QED BY <2>3, <2>4, <2>5
<1>8. Framed' /\ NumbersRun' /\ RosterRuns' /\ VersionsRun'
  BY <1>1, <1>3, <1>6 DEF Agreement, Framed, NumbersRun, RosterRuns, VersionsRun
<1>9. NoGreeting'
  BY <1>1, <1>2 DEF Agreement, NoGreeting
<1>10. ASSUME NEW id \in Announced PROVE Exchange(id)'
  BY <1>1, <1>6, <1>7, UpExchange DEF Agreement, f
<1>11. SessionKept'
  <2>1. member' => HasSession(dave)
    BY <1>1, <1>2, <1>5, <1>6 DEF Agreement, SessionKept, SInv, IInv, KeyPackageBacked
  <2> QED BY <1>1, <1>3, <1>6, <1>7, <2>1 DEF Agreement, SessionKept
<1>12. ASSUME NEW id \in Announced PROVE Downgrading(id)'
  <2>1. Downgrading(id)
    BY <1>1 DEF Agreement
  <2> QED BY <1>1, <1>3, <1>6, <1>7, <2>1 DEF Downgrading
<1>13. Unselected'
  BY <1>1, <1>6, <1>7 DEF Agreement, Unselected
<1> QED BY <1>8, <1>9, <1>10, <1>11, <1>12, <1>13 DEF Agreement

\* IDENTIFY arrives: both sides are new.
LEMMA IdentifyAgrees ==
    ASSUME SInv, WriterSend, GwIdentify, UNCHANGED <<roster, sent>>,
           loop = "running", ~greeted, ~status.resuming
    PROVE  Agreement'
<1> DEFINE m == Numbered([op |-> "ClientsConnect", seq |-> None, user_ids |-> roster], 1)
<1>1. /\ seq = -1 /\ dave = NewHandler /\ connected_users = {}
      /\ pending_transitions = NoTransitions
      /\ UNCHANGED <<seq, dave, connected_users, pending_transitions>>
      /\ out \in Seq(Outbound) /\ Len(out) = 1 /\ out' = Tail(out)
      /\ roster \subseteq Users
  BY DEF SInv, IInv, TypeOK, SessionTypeOK, Ungreeted, WriterSend, writerFrame, mediaVars
<1>2. m = [op |-> "ClientsConnect", seq |-> 1, user_ids |-> roster]
  BY DEF Numbered, Binary
<1>3. 1 \in Seqs
  BY MaxGatewayAssumption
<1>4. m \in SessionFrame /\ m.op = "ClientsConnect" /\ m.seq = 1 /\ m.user_ids = roster
  <2> DEFINE x == [op |-> "ClientsConnect", seq |-> 1, user_ids |-> roster]
  <2>1. roster \in SUBSET Users
    BY <1>1
  <2>2. x \in [op : {"ClientsConnect"}, seq : Seqs, user_ids : SUBSET Users]
    BY <1>3, <2>1
  <2>3. x \in SessionFrame
    BY <2>2, Zenon DEF SessionFrame
  <2>4. m = x
    BY <1>2
  <2> HIDE DEF m
  <2> QED BY <2>3, <2>4
<1>5. /\ inq' = <<m>> /\ gseq' = 1 /\ group' = 0 /\ member' = FALSE /\ ~selected'
      /\ \A id \in Announced : phase'[id] = "idle"
      /\ roster' = roster
  BY DEF GwIdentify, NewPhases
<1> HIDE DEF m
<1>6. /\ inq' \in Seq(SessionFrame) /\ Len(inq') = 1 /\ DOMAIN inq' = {1} /\ inq'[1] = m
      /\ DOMAIN out' = {}
  BY <1>1, <1>4, <1>5
<1>7. Framed' /\ NoGreeting' /\ Unselected'
  BY <1>5, <1>6 DEF Framed, NoGreeting, Unselected
<1>8. NumbersRun'
  <2>1. Cong(1, 1, SeqMod)
    BY SeqModAssumption, CongSame
  <2>2. gseq' - Len(inq') + 1 = 1
    BY <1>5, <1>6
  <2> QED BY <1>1, <1>4, <1>6, <2>1, <2>2 DEF NumbersRun
<1>9. RosterRuns'
  BY <1>1, <1>4, <1>5, <1>6 DEF RosterRuns, Mentions
<1>10. VersionsRun'
  BY <1>4, <1>5, <1>6 DEF VersionsRun, Binary
<1>11. ASSUME NEW id \in Announced PROVE Exchange(id)' /\ Downgrading(id)'
  <2>1. ~Opens(m, id) /\ ~Executes(m, id)
    BY <1>4 DEF Opens, Executes, Binary
  <2>2. Opened(id)' /\ Executing(id)'
    BY <1>6, <2>1 DEF Opened, Executing
  <2>3. Answered(id)' /\ Acked(id)' /\ Downgrading(id)'
    BY <1>5, <1>6 DEF Answered, Acked, Downgrading
  <2> QED BY <2>2, <2>3 DEF Exchange
<1>12. SessionKept'
  BY <1>5 DEF SessionKept
<1> QED BY <1>7, <1>8, <1>9, <1>10, <1>11, <1>12 DEF Agreement

LEMMA UpTypes ==
    ASSUME SInv, Up
    PROVE  /\ inq' \in Seq(Inbound)
           /\ greeted' \in BOOLEAN /\ selected' \in BOOLEAN /\ member' \in BOOLEAN
           /\ group' \in Versions /\ callVersion' \in Versions
           /\ phase' \in [Announced -> {"idle", "prepared", "acked"}]
           /\ offered' \in [Announced -> Versions]
           /\ gseq' \in Nat /\ (gseq' = gseq \/ gseq' = 1)
           /\ greeted => greeted'
           /\ Head(out).op \in {"Identify", "Resume"} => greeted'
<1> DEFINE f == Head(out)
<1>1. GwReceive(f) /\ SessionTypeOK
  BY DEF SInv, Up
<1> HIDE DEF f
<1>2. CASE f.op = "Identify"
  <2>1. GwIdentify
    BY <1>1, <1>2 DEF GwReceive
  <2> DEFINE m == Numbered([op |-> "ClientsConnect", seq |-> None, user_ids |-> roster], 1)
  <2>2. m = [op |-> "ClientsConnect", seq |-> 1, user_ids |-> roster] /\ 1 \in Seqs
    BY MaxGatewayAssumption DEF Numbered, Binary
  <2>3. m \in Inbound
    BY <1>1, <2>2 DEF Inbound, OptSeq, SessionTypeOK
  <2>4. inq' = <<m>>
    BY <2>1 DEF GwIdentify
  <2> HIDE DEF m
  <2>5. inq' \in Seq(Inbound)
    BY <2>3, <2>4
  <2>6. NewPhases \in [Announced -> {"idle", "prepared", "acked"}]
    BY DEF NewPhases
  <2> QED BY <1>1, <2>1, <2>5, <2>6, VersionsAssumption DEF GwIdentify, SessionTypeOK, f
<1>3. CASE f.op = "Resume"
  <2>1. GwResume
    BY <1>1, <1>3 DEF GwReceive
  <2> DEFINE m == [op |-> "Resumed", seq |-> None]
  <2>2. m \in Inbound
    BY DEF Inbound, OptSeq
  <2>3. inq' = Append(inq, m) /\ inq \in Seq(Inbound)
    BY <1>1, <2>1 DEF GwResume, SessionTypeOK
  <2> HIDE DEF m
  <2>4. inq' \in Seq(Inbound)
    BY <2>2, <2>3
  <2> QED BY <1>1, <2>1, <2>4 DEF GwResume, SessionTypeOK, f
<1>4. CASE f.op = "KeyPackage"
  BY <1>1, <1>4, VersionsAssumption DEF GwReceive, SessionTypeOK, f
<1>5. CASE f.op = "TransitionReady"
  BY <1>1, <1>5 DEF GwReceive, SessionTypeOK, f
<1>6. CASE f.op = "InvalidCommit"
  BY <1>1, <1>6 DEF GwReceive, SessionTypeOK, f
<1>7. CASE f.op \notin {"Identify", "Resume", "KeyPackage", "TransitionReady", "InvalidCommit"}
  BY <1>1, <1>7 DEF GwReceive, SessionTypeOK, f
<1> QED BY <1>2, <1>3, <1>4, <1>5, <1>6, <1>7

LEMMA UpStep == ASSUME SInv, Up PROVE SInv'
<1>1. /\ IInv /\ WriterSend /\ GwReceive(Head(out))
      /\ UNCHANGED <<takenDown, roster, sent, conns, loop, writer, status, seq, dave,
                     connected_users, pending_transitions>>
  BY DEF SInv, Up, WriterSend, writerFrame, mediaVars
<1>2. IInv'
  BY <1>1, WriterSendStep
<1>3. SessionTypeOK'
  BY <1>1, <1>2, UpTypes DEF IInv, SInv, SessionTypeOK
<1>4. Bounded'
  <2>1. sent \in Nat /\ gseq <= sent + 1 /\ sent <= MaxGateway
    BY DEF SInv, SessionTypeOK, Bounded
  <2> QED BY <1>1, <2>1, UpTypes DEF Bounded
<1>5. Ungreeted'
  <2>1. loop # "new"
    BY <1>1 DEF IInv, Blank, WriterSend
  <2>2. loop # "closed" => greeted'
    BY <1>1, UpTypes DEF SInv, Ungreeted, WriterSend
  <2> QED BY <1>1, <2>1, <2>2 DEF Ungreeted
<1>6. ASSUME InSession' PROVE Agreement'
  <2>1. loop = "running" /\ ~status.resuming /\ writer = "running"
    BY <1>1, <1>6 DEF InSession, WriterSend
  <2>2. CASE greeted
    BY <2>1, <2>2, UpAgrees DEF InSession
  <2>3. CASE ~greeted
    <3>1. Head(out).op = "Identify"
      BY <2>1, <2>3 DEF SInv, Ungreeted
    <3>2. GwIdentify
      BY <1>1, <3>1 DEF GwReceive
    <3> QED BY <1>1, <2>1, <2>3, <3>2, IdentifyAgrees
  <2> QED BY <2>2, <2>3
<1> QED BY <1>2, <1>3, <1>4, <1>5, <1>6 DEF SInv

-----------------------------------------------------------------------------
(* A frame reaches the connection.                                         *)

LEMMA ConcatFacts ==
    ASSUME NEW S, NEW p \in Seq(S), NEW q \in Seq(S), NEW r, r = p \o q
    PROVE  /\ Len(p) \in Nat /\ DOMAIN p = 1 .. Len(p)
           /\ DOMAIN r = 1 .. Len(p) + Len(q)
           /\ \A k \in DOMAIN p : k \in DOMAIN r /\ r[k] = p[k]
           /\ \A k \in DOMAIN r : k \in DOMAIN p \/
                 (k - Len(p) \in DOMAIN q /\ r[k] = q[k - Len(p)])
OBVIOUS

LEMMA ResumingKept ==
    ASSUME TypeOK, NEW m, Handle(m)
    PROVE  loop = "running" /\ loop' # "new" /\ status'.resuming = status.resuming
BY DEF TypeOK, Handle, Receive, Take, HandleHello, HandleReady, HandleReadyPanics,
       HandleSelectProtocolAck, HandleResumed, HandleClientsConnect, HandleClientDisconnect,
       HandlePrepareTransition, HandleExecuteTransition, HandlePrepareEpoch,
       HandleExternalSender, HandleProposals, HandleAnnounceCommit, HandleWelcome, HandleOther

\* What is in the queue afterwards: at most one answer more.
Queued(m) ==
    \A k \in DOMAIN out' :
        \/ k \in DOMAIN out /\ out'[k] = out[k]
        \/ /\ k \notin DOMAIN out
           /\ ~Greeting(out'[k])
           /\ \A id : Answers(out'[k], id) => k = Len(out) + 1 /\ Opens(m, id)
           /\ out'[k].op = "TransitionReady" =>
                 pending_transitions'[m.id] =
                     IF m.op = "PrepareTransition" THEN 0 ELSE dave.protocol_version

LEMMA TurnQueued == ASSUME TypeOK, NEW m, Turn(m) PROVE Queued(m)
<1>1. out \in Seq(Outbound)
  BY DEF TypeOK
<1>2. PICK msgs : Queues(m, msgs)
  BY DEF Turn
<1>3. msgs \in Seq(Outbound) /\ out' = Send(msgs)
  BY <1>2 DEF Queues
<1>4. CASE writer = "running"
  <2>1. out' = out \o msgs
    BY <1>3, <1>4 DEF Send
  <2>2. ASSUME NEW k \in DOMAIN out', k \notin DOMAIN out
        PROVE  k - Len(out) \in DOMAIN msgs /\ out'[k] = msgs[k - Len(out)]
    BY <1>1, <1>3, <2>1, <2>2, ConcatFacts
  <2>3. ASSUME NEW k \in DOMAIN out', k - Len(out) = 1 PROVE k = Len(out) + 1
    <3>1. k \in Int /\ Len(out) \in Int
      BY <1>1, <1>3, <2>1, ConcatFacts
    <3> QED BY <2>3, <3>1
  <2>4. \A k \in DOMAIN out : out'[k] = out[k]
    BY <1>1, <1>3, <2>1, ConcatFacts
  <2> QED BY <1>2, <2>2, <2>3, <2>4 DEF Queues, Queued
<1>5. CASE writer # "running"
  BY <1>3, <1>5 DEF Send, Queued
<1> QED BY <1>4, <1>5

\* The stream after its head has gone.
LEMMA DownFacts ==
    ASSUME SInv, InSession, Down
    PROVE  /\ TypeOK /\ Agreement
           /\ inq[1] \in SessionFrame /\ Turn(inq[1]) /\ Queued(inq[1])
           /\ Len(inq) \in Nat \ {0} /\ Len(inq') = Len(inq) - 1
           /\ DOMAIN inq = 1 .. Len(inq) /\ DOMAIN inq' = 1 .. Len(inq) - 1
           /\ 1 \in DOMAIN inq
           /\ \A k \in DOMAIN inq' : k \in Nat \ {0} /\ k + 1 \in DOMAIN inq /\ inq'[k] = inq[k + 1]
           /\ \A k \in DOMAIN inq : k = 1 \/ k - 1 \in DOMAIN inq'
           /\ inq' \in Seq(SessionFrame)
           /\ UNCHANGED <<greeted, selected, group, member, phase, offered, takenDown, roster,
                         gseq>>
<1>1. TypeOK /\ Agreement /\ inq \in Seq(SessionFrame)
  BY DEF SInv, IInv, Agreement, Framed
<1>2. /\ inq # <<>> /\ inq' = Tail(inq) /\ Handle(Head(inq))
      /\ UNCHANGED <<greeted, selected, group, member, phase, offered, takenDown, roster,
                         gseq>>
  BY DEF Down
<1>3. /\ inq[1] \in SessionFrame /\ Head(inq) = inq[1]
      /\ Len(inq) \in Nat \ {0} /\ Len(inq') = Len(inq) - 1
      /\ DOMAIN inq = 1 .. Len(inq) /\ DOMAIN inq' = 1 .. Len(inq) - 1
      /\ 1 \in DOMAIN inq
      /\ \A k \in DOMAIN inq' : k \in Nat \ {0} /\ k + 1 \in DOMAIN inq /\ inq'[k] = inq[k + 1]
      /\ \A k \in DOMAIN inq : k = 1 \/ k - 1 \in DOMAIN inq'
      /\ inq' \in Seq(SessionFrame)
  <2>1. /\ inq' \in Seq(SessionFrame)
        /\ Len(inq) \in Nat \ {0} /\ Len(inq') = Len(inq) - 1
        /\ DOMAIN inq = 1 .. Len(inq) /\ DOMAIN inq' = 1 .. Len(inq) - 1
        /\ \A k \in 1 .. Len(inq) - 1 : k + 1 \in 1 .. Len(inq) /\ inq'[k] = inq[k + 1]
        /\ Head(inq) = inq[1] /\ inq[1] \in SessionFrame /\ 1 \in 1 .. Len(inq)
        /\ \A k \in 1 .. Len(inq) : k = 1 \/ k - 1 \in 1 .. Len(inq) - 1
    BY <1>1, <1>2, TailFacts
  <2>2. \A k \in 1 .. Len(inq) - 1 : k \in Nat \ {0}
    BY <2>1
  <2> QED BY <2>1, <2>2, Zenon
<1>4. Turn(inq[1])
  BY <1>1, <1>2, <1>3, HandlerTurn
<1> QED BY <1>1, <1>2, <1>3, <1>4, TurnQueued

LEMMA DownNumbers == ASSUME SInv, InSession, Down PROVE NumbersRun'
<1> DEFINE n == Len(inq)
<1>1. /\ n \in Nat \ {0} /\ Len(inq') = n - 1 /\ gseq' = gseq /\ gseq \in Int
      /\ DOMAIN inq = 1 .. n /\ DOMAIN inq' = 1 .. n - 1 /\ 1 \in DOMAIN inq
      /\ \A k \in DOMAIN inq' : k + 1 \in DOMAIN inq /\ inq'[k] = inq[k + 1]
      /\ seq' = inq[1].seq /\ NumbersRun
  BY DownFacts DEF Turn, Agreement, SInv, SessionTypeOK
<1> HIDE DEF n
<1>2. gseq' - Len(inq') = gseq - n + 1 /\ gseq - n \in Int
  BY <1>1
<1>3. Cong(seq', gseq' - Len(inq'), SeqMod)
  BY <1>1, <1>2 DEF NumbersRun, n
<1>4. ASSUME NEW k \in DOMAIN inq'
      PROVE  Cong(inq'[k].seq, gseq' - Len(inq') + k, SeqMod)
  <2>1. Cong(inq[k + 1].seq, gseq - n + (k + 1), SeqMod)
    BY <1>1 DEF NumbersRun, n
  <2>2. gseq - n + (k + 1) = gseq' - Len(inq') + k
    BY <1>1, <1>2
  <2> QED BY <1>1, <2>1, <2>2
<1> QED BY <1>3, <1>4 DEF NumbersRun

LEMMA DownRoster == ASSUME SInv, InSession, Down PROVE RosterRuns'
<1>1. /\ RosterRuns /\ roster' = roster /\ TurnsUsers(inq[1])
      /\ 1 \in DOMAIN inq
      /\ \A k \in DOMAIN inq' : k \in Nat \ {0} /\ k + 1 \in DOMAIN inq /\ inq'[k] = inq[k + 1]
      /\ \A k \in DOMAIN inq : k \in Nat /\ (k = 1 \/ k - 1 \in DOMAIN inq')
  BY DownFacts DEF Turn, Agreement
<1> SUFFICES ASSUME NEW u \in Users
             PROVE  /\ \A k \in DOMAIN inq' :
                          Mentions(inq'[k], u)
                          /\ (\A j \in DOMAIN inq' : k < j => ~Mentions(inq'[j], u))
                              => (inq'[k].op = "ClientsConnect" <=> u \in roster)
                    /\ (\A k \in DOMAIN inq' : ~Mentions(inq'[k], u))
                          => (u \in connected_users' <=> u \in roster)
  BY <1>1 DEF RosterRuns
<1>2. ASSUME NEW i \in DOMAIN inq, i # 1
      PROVE  i - 1 \in DOMAIN inq' /\ inq'[i - 1] = inq[i]
  <2>1. i - 1 \in DOMAIN inq' /\ (i - 1) + 1 = i
    BY <1>1, <1>2
  <2> QED BY <1>1, <2>1
<1>3. ASSUME NEW k \in DOMAIN inq', Mentions(inq'[k], u),
             \A j \in DOMAIN inq' : k < j => ~Mentions(inq'[j], u)
      PROVE  inq'[k].op = "ClientsConnect" <=> u \in roster
  <2>1. k + 1 \in DOMAIN inq /\ inq'[k] = inq[k + 1]
    BY <1>1
  <2>2. ASSUME NEW j \in DOMAIN inq, k + 1 < j PROVE ~Mentions(inq[j], u)
    <3>1. j # 1 /\ k < j - 1
      BY <1>1, <2>2
    <3> QED BY <1>2, <1>3, <3>1
  <2> QED BY <1>1, <1>3, <2>1, <2>2 DEF RosterRuns
<1>4. ASSUME \A k \in DOMAIN inq' : ~Mentions(inq'[k], u)
      PROVE  u \in connected_users' <=> u \in roster
  <2>1. \A j \in DOMAIN inq : j # 1 => ~Mentions(inq[j], u)
    BY <1>2, <1>4
  <2>2. CASE Mentions(inq[1], u)
    <3>1. inq[1].op = "ClientsConnect" <=> u \in roster
      BY <1>1, <2>1, <2>2 DEF RosterRuns
    <3> QED BY <1>1, <2>2, <3>1 DEF TurnsUsers
  <2>3. CASE ~Mentions(inq[1], u)
    <3>1. u \in connected_users <=> u \in roster
      BY <1>1, <2>1, <2>3 DEF RosterRuns
    <3> QED BY <1>1, <2>3, <3>1 DEF TurnsUsers
  <2> QED BY <2>2, <2>3
<1> QED BY <1>3, <1>4

LEMMA DownVersions == ASSUME SInv, InSession, Down PROVE VersionsRun'
<1> DEFINE n == Len(inq)
           d == dave.protocol_version
           e == dave'.protocol_version
<1>1. /\ n \in Nat \ {0} /\ Len(inq') = n - 1 /\ UNCHANGED <<group, offered>>
      /\ DOMAIN inq = 1 .. n /\ DOMAIN inq' = 1 .. n - 1
      /\ \A k \in DOMAIN inq' : k \in Nat \ {0} /\ k + 1 \in DOMAIN inq /\ inq'[k] = inq[k + 1]
      /\ e = IF SetsVersion(inq[1]) THEN inq[1].version ELSE d
  BY DownFacts DEF Turn, TurnsDave
<1>2. /\ group # 0 => Leads(inq, n, d, group)
      /\ \A k \in DOMAIN inq : inq[k].op \in Binary /\ inq[k].id # 0 =>
            Leads(inq, k - 1, d, offered[inq[k].id])
  BY DownFacts DEF Agreement, VersionsRun
<1> HIDE DEF n, d, e
<1>3. ASSUME NEW k \in 1 .. n, NEW v, Leads(inq, k, d, v) PROVE Leads(inq', k - 1, e, v)
  <2>1. k \in Nat \ {0} /\ \A i \in 1 .. k - 1 : i \in 1 .. n - 1
    BY <1>1
  <2>2. \A i \in 1 .. k - 1 : inq'[i] = inq[i + 1]
    BY <1>1, <2>1
  <2> QED BY <1>1, <1>3, <2>1, <2>2, LeadsTail
<1>4. group' # 0 => Leads(inq', Len(inq'), e, group')
  <2>1. n \in 1 .. n
    BY <1>1
  <2> QED BY <1>1, <1>2, <1>3, <2>1
<1>5. ASSUME NEW k \in DOMAIN inq', inq'[k].op \in Binary, inq'[k].id # 0
      PROVE  Leads(inq', k - 1, e, offered'[inq'[k].id])
  <2>1. k \in 1 .. n /\ k + 1 \in DOMAIN inq /\ (k + 1) - 1 = k
    BY <1>1
  <2>2. Leads(inq, k, d, offered[inq[k + 1].id])
    BY <1>1, <1>2, <1>5, <2>1
  <2> QED BY <1>1, <1>3, <2>1, <2>2
<1> QED BY <1>4, <1>5 DEF VersionsRun, e

\* The exchange the frame belongs to, and the others.
LEMMA DownExchange ==
    ASSUME SInv, InSession, Down, NEW id \in Announced
    PROVE  Exchange(id)'
<1> DEFINE m == inq[1]
<1>1. /\ Exchange(id) /\ UNCHANGED <<phase, offered>>
      /\ m \in SessionFrame /\ Turn(m) /\ Queued(m)
      /\ 1 \in DOMAIN inq
      /\ \A k \in DOMAIN inq' : k \in Nat \ {0} /\ k + 1 \in DOMAIN inq /\ inq'[k] = inq[k + 1]
      /\ \A k \in DOMAIN inq : k = 1 \/ k - 1 \in DOMAIN inq'
  BY DownFacts DEF Agreement
<1>2. \A k \in DOMAIN inq' : k + 1 # 1 /\ 1 < k + 1
  BY <1>1
<1>3. \A j, k \in DOMAIN inq' : j + 1 = k + 1 => j = k
  BY <1>1
<1>4. \A j, k \in DOMAIN inq' : j < k => j + 1 < k + 1
  BY <1>1
<1>5. \A k \in DOMAIN out' : Answers(out'[k], id) =>
         \/ k \in DOMAIN out /\ out'[k] = out[k]
         \/ k = Len(out) + 1 /\ Opens(m, id)
  BY <1>1 DEF Queued
<1>6. CASE Opens(m, id)
  <2>1. /\ phase[id] = "prepared"
        /\ offered[id] = 0 <=> m.op = "PrepareTransition"
        /\ \A j \in DOMAIN inq : Opens(inq[j], id) => j = 1
        /\ \A j \in DOMAIN out : ~Answers(out[j], id)
    BY <1>1, <1>6 DEF Exchange, Opened
  <2>2. \A k \in DOMAIN inq' : ~Opens(inq'[k], id) /\ ~Executes(inq'[k], id)
    BY <1>1, <1>2, <1>6, <2>1 DEF Exchange, Executing
  <2>3. m.id = id /\ id # 0
    BY <1>6 DEF Opens, Announced
  <2>4. m.op # "PrepareTransition" => dave.protocol_version = offered[id]
    <3>1. m.op # "PrepareTransition" => m.op \in Binary
      BY <1>6 DEF Opens
    <3>2. m.op \in Binary => Leads(inq, 1 - 1, dave.protocol_version, offered[id])
      BY <1>1, <2>3, DownFacts DEF Agreement, VersionsRun
    <3>3. \A j \in 1 .. 1 - 1 : FALSE
      OBVIOUS
    <3> QED BY <3>1, <3>2, <3>3 DEF Leads
  <2>5. ASSUME NEW k \in DOMAIN out', Answers(out'[k], id)
        PROVE  /\ k = Len(out) + 1
               /\ out'[k].op = "TransitionReady" => pending_transitions'[id] = offered[id]
    <3>1. k \notin DOMAIN out \/ out'[k] # out[k]
      BY <2>1, <2>5
    <3>2. /\ k = Len(out) + 1
          /\ out'[k].op = "TransitionReady" =>
                pending_transitions'[m.id] =
                    IF m.op = "PrepareTransition" THEN 0 ELSE dave.protocol_version
      BY <1>1, <2>5, <3>1 DEF Queued
    <3> QED BY <2>1, <2>3, <2>4, <3>2
  <2>6. Opened(id)' /\ Executing(id)'
    BY <2>2 DEF Opened, Executing
  <2>7. Answered(id)'
    BY <1>1, <2>1, <2>5 DEF Answered
  <2>8. Acked(id)'
    BY <1>1, <2>1 DEF Acked
  <2> QED BY <2>6, <2>7, <2>8 DEF Exchange
<1>7. CASE Executes(m, id)
  <2>1. /\ phase[id] # "acked" /\ ~Opens(m, id)
        /\ \A j \in DOMAIN inq : Executes(inq[j], id) => j = 1
        /\ \A j \in DOMAIN out' : ~Answers(out'[j], id)
    BY <1>1, <1>5, <1>7 DEF Exchange, Executing, Executes, Opens, Binary
  <2>2. \A k \in DOMAIN inq' : ~Executes(inq'[k], id)
    BY <1>1, <1>2, <2>1
  <2>3. Opened(id)'
    BY <1>1, <1>3, <2>1 DEF Exchange, Opened
  <2>4. Answered(id)' /\ Executing(id)' /\ Acked(id)'
    BY <1>1, <2>1, <2>2 DEF Answered, Executing, Acked
  <2> QED BY <2>3, <2>4 DEF Exchange
<1>8. CASE ~Opens(m, id) /\ ~Executes(m, id)
  <2>1. pending_transitions'[id] = pending_transitions[id]
    BY <1>1, <1>8 DEF Turn, TurnsPending
  <2>2. \A k \in DOMAIN out' : Answers(out'[k], id) => k \in DOMAIN out /\ out'[k] = out[k]
    BY <1>5, <1>8
  <2>3. Opened(id)'
    BY <1>1, <1>3, <2>2 DEF Exchange, Opened
  <2>4. Answered(id)'
    BY <1>1, <2>1, <2>2 DEF Exchange, Answered
  <2>5. Executing(id)'
    BY <1>1, <1>3, <1>4, <2>1, <2>2 DEF Exchange, Executing
  <2>6. Acked(id)'
    BY <1>1, <2>1 DEF Exchange, Acked
  <2> QED BY <2>3, <2>4, <2>5, <2>6 DEF Exchange
<1> QED BY <1>6, <1>7, <1>8

LEMMA DownDowngrading ==
    ASSUME SInv, InSession, Down, NEW id \in Announced
    PROVE  Downgrading(id)'
<1> DEFINE m == inq[1]
<1>1. /\ Downgrading(id) /\ Exchange(id) /\ UNCHANGED <<phase, offered, takenDown>>
      /\ m \in SessionFrame /\ TurnsDave(m)
      /\ 1 \in DOMAIN inq
      /\ \A k \in DOMAIN inq' : k \in Nat \ {0} /\ k + 1 \in DOMAIN inq /\ inq'[k] = inq[k + 1]
      /\ \A k \in DOMAIN inq : k \in Nat /\ (k = 1 \/ k - 1 \in DOMAIN inq')
  BY DownFacts DEF Agreement, Turn
<1> SUFFICES ASSUME id \in takenDown, phase[id] # "idle", offered[id] = 0
             PROVE  /\ HasSession(dave')
                    /\ (\A k \in DOMAIN inq' : ~Opens(inq'[k], id)) => Tolerant(dave')
  BY <1>1 DEF Downgrading
<1>2. HasSession(dave) /\ HasSession(dave')
  BY <1>1 DEF Downgrading, TurnsDave
<1>3. ASSUME \A k \in DOMAIN inq' : ~Opens(inq'[k], id)
      PROVE  Tolerant(dave')
  <2>1. CASE Opens(m, id)
    <3>1. m.op = "PrepareTransition"
      BY <1>1, <2>1 DEF Exchange, Opened
    <3> QED BY <1>1, <1>2, <3>1 DEF TurnsDave
  <2>2. CASE ~Opens(m, id)
    <3>1. ASSUME NEW i \in DOMAIN inq PROVE ~Opens(inq[i], id)
      <4>1. CASE i = 1
        BY <2>2, <4>1
      <4>2. CASE i # 1
        <5>1. i - 1 \in DOMAIN inq' /\ (i - 1) + 1 = i
          BY <1>1, <4>2
        <5> QED BY <1>1, <1>3, <5>1
      <4> QED BY <4>1, <4>2
    <3>2. Tolerant(dave)
      BY <1>1, <3>1 DEF Downgrading
    <3> QED BY <1>1, <3>2 DEF TurnsDave
  <2> QED BY <2>1, <2>2
<1> QED BY <1>2, <1>3

LEMMA DownStep == ASSUME SInv, Down PROVE SInv'
<1>1. /\ IInv /\ TypeOK /\ SessionTypeOK /\ inq # <<>> /\ inq' = Tail(inq) /\ Handle(Head(inq))
      /\ UNCHANGED <<greeted, selected, group, member, phase, offered, callVersion, takenDown,
                     roster, gseq, sent, conns>>
  BY DEF SInv, IInv, Down
<1>2. Head(inq) \in Inbound /\ inq' \in Seq(Inbound)
  BY <1>1 DEF SessionTypeOK
<1>3. IInv'
  BY <1>1, <1>2, HandlerStep
<1>4. loop = "running" /\ loop' # "new" /\ status'.resuming = status.resuming
  BY <1>1, ResumingKept
<1>5. greeted
  BY <1>1, <1>4 DEF SInv, Ungreeted
<1>6. SessionTypeOK' /\ Bounded' /\ Ungreeted'
  BY <1>1, <1>2, <1>3, <1>4, <1>5 DEF IInv, SInv, SessionTypeOK, Bounded, Ungreeted
<1>7. ASSUME InSession' PROVE Agreement'
  <2>1. InSession
    BY <1>4, <1>5, <1>7 DEF InSession
  <2>2. /\ Agreement /\ Queued(inq[1]) /\ TurnsDave(inq[1]) /\ inq' \in Seq(SessionFrame)
    BY <2>1, DownFacts DEF Turn
  <2>3. Framed' /\ NoGreeting'
    BY <2>2 DEF Agreement, Framed, NoGreeting, Queued
  <2>4. SessionKept' /\ Unselected'
    BY <1>1, <2>2 DEF Agreement, SessionKept, Unselected, TurnsDave
  <2> QED BY <2>1, <2>3, <2>4, DownNumbers, DownRoster, DownVersions, DownExchange,
             DownDowngrading DEF Agreement
<1> QED BY <1>3, <1>6, <1>7 DEF SInv

-----------------------------------------------------------------------------
(* The connection's own steps, and a new connection.                       *)

LEMMA ConnectStep ==
    ASSUME SInv, NEW resuming \in BOOLEAN, Start(resuming), UNCHANGED gatewayVars
    PROVE  SInv'
<1>1. /\ IInv /\ SessionTypeOK /\ Bounded /\ Ungreeted /\ loop = "new" /\ ~greeted
      /\ UNCHANGED gatewayVars
  BY DEF SInv, Ungreeted, Start
<1>2. IInv'
  BY <1>1, StartStep
<1>3. SessionTypeOK' /\ Bounded'
  BY <1>1, <1>2 DEF IInv, SessionTypeOK, Bounded, gatewayVars
<1>4. Ungreeted'
  <2> DEFINE g == IF resuming THEN Resume ELSE Identify
  <2>1. out' = <<g>> /\ status'.resuming = resuming
    BY <1>1 DEF Start, IInv, TypeOK
  <2>2. g.op = IF resuming THEN "Resume" ELSE "Identify"
    BY DEF Resume, Identify
  <2> HIDE DEF g
  <2>3. Len(out') = 1 /\ Head(out').op = IF status'.resuming THEN "Resume" ELSE "Identify"
    BY <2>1, <2>2
  <2>4. /\ inq' = <<>> /\ seq' = -1 /\ dave' = NewHandler /\ connected_users' = {}
        /\ pending_transitions' = NoTransitions /\ loop' = "running"
    BY <1>1 DEF Ungreeted, Start, mediaVars, gatewayVars
  <2> QED BY <2>3, <2>4 DEF Ungreeted
<1>5. ~InSession'
  BY <1>1 DEF InSession, gatewayVars
<1> QED BY <1>2, <1>3, <1>4, <1>5 DEF SInv

\* Steps that change neither what the loop owns nor what is on the way, but
\* that may end the session.
LEMMA LocalStep == ASSUME SInv, Local PROVE SInv'
<1>1. /\ IInv /\ SessionTypeOK /\ Bounded /\ Ungreeted /\ UNCHANGED gatewayVars
  BY DEF SInv, Local
<1>2. ASSUME NEW resuming \in BOOLEAN, Connect(resuming) PROVE SInv'
  BY <1>1, <1>2, ConnectStep DEF Connect
<1>3. CASE SetSession \/ SetTokens
  <2>1. IInv'
    BY <1>1, <1>3, QuietStep
  <2>2. /\ UNCHANGED <<loop, writer, seq, dave, connected_users, pending_transitions>>
        /\ loop = "new" /\ ~greeted
    BY <1>1, <1>3 DEF SetSession, SetTokens, mediaVars, Ungreeted
  <2>3. writer = "idle"
    BY <1>1, <2>2 DEF IInv, Blank
  <2>4. SessionTypeOK' /\ Bounded' /\ Ungreeted' /\ ~InSession'
    BY <1>1, <2>1, <2>2, <2>3
       DEF IInv, SessionTypeOK, Bounded, Ungreeted, InSession, gatewayVars
  <2> QED BY <2>1, <2>4 DEF SInv
<1>4. CASE Close
  <2>1. IInv' /\ loop' = "closed"
    BY <1>1, <1>4, QuietStep DEF Close
  <2>2. SessionTypeOK' /\ Bounded' /\ Ungreeted' /\ ~InSession'
    BY <1>1, <2>1 DEF IInv, SessionTypeOK, Bounded, Ungreeted, InSession, gatewayVars
  <2> QED BY <2>1, <2>2 DEF SInv
<1>5. CASE WriterFail \/ WriterExit
  <2>1. IInv'
    BY <1>1, <1>5, WriterStopStep
  <2>2. /\ UNCHANGED <<loop, status, seq, dave, connected_users, pending_transitions>>
        /\ writer' # "running" /\ out' = <<>>
    BY <1>5 DEF WriterFail, WriterExit, writerFrame, mediaVars
  <2>3. SessionTypeOK' /\ Bounded' /\ Ungreeted'
    BY <1>1, <2>1, <2>2 DEF IInv, SessionTypeOK, Bounded, Ungreeted, gatewayVars
  <2>4. ASSUME InSession' PROVE Agreement'
    <3>1. Agreement
      BY <1>1, <2>2, <2>4 DEF SInv, InSession, gatewayVars
    <3>2. NoGreeting'
      BY <2>2 DEF NoGreeting
    <3>3. Framed' /\ NumbersRun' /\ RosterRuns' /\ VersionsRun' /\ SessionKept' /\ Unselected'
      BY <1>1, <2>2, <3>1 DEF Agreement, Framed, NumbersRun, RosterRuns, VersionsRun,
                              SessionKept, Unselected, gatewayVars
    <3>4. ASSUME NEW id \in Announced PROVE Exchange(id)' /\ Downgrading(id)'
      <4>1. Exchange(id) /\ Downgrading(id)
        BY <3>1 DEF Agreement
      <4>2. Downgrading(id)' /\ Acked(id)'
        BY <1>1, <2>2, <4>1 DEF Downgrading, Exchange, Acked, gatewayVars
      <4>3. Opened(id)' /\ Answered(id)' /\ Executing(id)'
        BY <1>1, <2>2, <4>1 DEF Exchange, Opened, Answered, Executing, gatewayVars
      <4> QED BY <4>2, <4>3 DEF Exchange
    <3> QED BY <3>2, <3>3, <3>4 DEF Agreement
  <2> QED BY <2>1, <2>3, <2>4 DEF SInv
<1> QED BY <1>2, <1>3, <1>4, <1>5 DEF Local

LEMMA ReplaceStep == ASSUME SInv, Replace PROVE SInv'
<1>1. SessionTypeOK /\ Bounded
  BY DEF SInv
<1>2. /\ loop' = "new" /\ inq' = <<>> /\ greeted' = FALSE /\ conns' = conns + 1
      /\ seq' = -1 /\ dave' = NewHandler /\ connected_users' = {}
      /\ pending_transitions' = NoTransitions /\ writer' = "idle"
      /\ UNCHANGED <<selected, group, member, phase, offered, callVersion, takenDown, roster,
                     gseq, sent>>
  BY DEF Replace
<1>3. Init'
  BY DEF Replace, Init
<1>4. Init' => IInv'
  BY InitIInv, PTL
<1>5. IInv'
  BY <1>3, <1>4
<1>6. inq' \in Seq(Inbound) /\ conns' \in Nat
  BY <1>1, <1>2 DEF SessionTypeOK
<1>7. SessionTypeOK'
  BY <1>1, <1>2, <1>5, <1>6 DEF IInv, SessionTypeOK
<1>8. Bounded' /\ Ungreeted' /\ ~InSession'
  BY <1>1, <1>2 DEF Bounded, Ungreeted, InSession
<1> QED BY <1>5, <1>7, <1>8 DEF SInv

LEMMA SessionStutterStep == ASSUME SInv, UNCHANGED allVars PROVE SInv'
<1>1. IInv' /\ UNCHANGED vars /\ UNCHANGED gatewayVars
  BY StutterStep DEF SInv, allVars
<1>2. SessionTypeOK' /\ Bounded' /\ Ungreeted'
  BY <1>1 DEF IInv, SInv, SessionTypeOK, Bounded, Ungreeted, vars, gatewayVars
<1>3. ASSUME InSession' PROVE Agreement'
  <2>1. Agreement
    BY <1>1, <1>3 DEF SInv, InSession, vars, gatewayVars
  <2>2. /\ Framed' /\ NoGreeting' /\ NumbersRun' /\ RosterRuns' /\ VersionsRun'
        /\ SessionKept' /\ Unselected'
    BY <1>1, <2>1 DEF Agreement, Framed, NoGreeting, NumbersRun, RosterRuns, VersionsRun,
                      SessionKept, Unselected, vars, gatewayVars
  <2>3. ASSUME NEW id \in Announced PROVE Exchange(id)' /\ Downgrading(id)'
    <3>1. Exchange(id) /\ Downgrading(id)
      BY <2>1 DEF Agreement
    <3>2. Downgrading(id)' /\ Acked(id)'
      BY <1>1, <3>1 DEF Downgrading, Exchange, Acked, vars, gatewayVars
    <3>3. Opened(id)' /\ Answered(id)' /\ Executing(id)'
      BY <1>1, <3>1 DEF Exchange, Opened, Answered, Executing, vars, gatewayVars
    <3> QED BY <3>2, <3>3 DEF Exchange
  <2> QED BY <2>2, <2>3 DEF Agreement
<1> QED BY <1>1, <1>2, <1>3 DEF SInv

LEMMA InitSInv == SessionInit => SInv
<1> SUFFICES ASSUME SessionInit PROVE SInv
  OBVIOUS
<1>1. IInv
  BY InitIInv DEF SessionInit
<1>2. inq \in Seq(Inbound) /\ roster \subseteq Users
  BY DEF SessionInit
<1>3. phase \in [Announced -> {"idle", "prepared", "acked"}] /\ offered \in [Announced -> Versions]
  BY VersionsAssumption DEF SessionInit, NewPhases
<1>4. SessionTypeOK
  BY <1>1, <1>2, <1>3, VersionsAssumption DEF IInv, SessionTypeOK, SessionInit
<1>5. Bounded
  BY MaxGatewayAssumption DEF Bounded, SessionInit
<1>6. Ungreeted /\ ~InSession
  BY DEF Ungreeted, InSession, SessionInit, Init
<1> QED BY <1>1, <1>4, <1>5, <1>6 DEF SInv

LEMMA StepSInv == SInv /\ [SessionNext]_allVars => SInv'
<1> SUFFICES ASSUME SInv, [SessionNext]_allVars PROVE SInv'
  OBVIOUS
<1>1. CASE Local
  BY <1>1, LocalStep
<1>2. CASE Gateway
  BY <1>2, GwSelectStep, GwEpochStep, GwCommitStep, GwDowngradeStep, GwExecuteStep, GwUsersStep
     DEF Gateway
<1>3. CASE Up
  BY <1>3, UpStep
<1>4. CASE Down
  BY <1>4, DownStep
<1>5. CASE Replace
  BY <1>5, ReplaceStep
<1>6. CASE UNCHANGED allVars
  BY <1>6, SessionStutterStep
<1> QED BY <1>1, <1>2, <1>3, <1>4, <1>5, <1>6 DEF SessionNext

-----------------------------------------------------------------------------
(* Every reachable state satisfies the inductive invariant; the theorems   *)
(* below read the properties off it.                                       *)
THEOREM SessionInvariance == SessionSpec => []SInv
<1>1. SessionInit => SInv
  BY InitSInv
<1>2. SInv /\ [SessionNext]_allVars => SInv'
  BY StepSInv
<1> QED BY <1>1, <1>2, PTL DEF SessionSpec

\* Connection and gateway stay in their types, over any number of connections.
THEOREM SessionTypeCorrect == SessionSpec => []SessionTypeOK
<1>1. SInv => SessionTypeOK
  BY DEF SInv
<1> QED BY <1>1, SessionInvariance, PTL

(* An execution the gateway orders always finds its transition, so the     *)
(* "unrecognized" branch (connection.rs:504) is for a gateway that breaks  *)
(* the protocol, or for a resumed session.                                 *)
THEOREM ExecutionsRecognised == SessionSpec => []ExecuteRecognised
<1>1. SInv => ExecuteRecognised
  <2> SUFFICES ASSUME SInv, InSession, inq # <<>>, Head(inq).op = "ExecuteTransition"
               PROVE  pending_transitions[Head(inq).id] # None
    BY DEF ExecuteRecognised
  <2>1. Agreement /\ inq \in Seq(SessionFrame)
    BY InqFacts
  <2>2. Head(inq) = inq[1] /\ 1 \in DOMAIN inq /\ inq[1] \in SessionFrame
    BY <2>1, TailFacts
  <2>3. Head(inq).id \in Announced
    BY <2>2, FrameFields
  <2> QED BY <2>1, <2>2, <2>3 DEF Agreement, Exchange, Executing, Executes
<1> QED BY <1>1, SessionInvariance, PTL

(* Both sides run the version of an acknowledged transition, although the  *)
(* connection reads it off its own handler when it acknowledges a commit   *)
(* (connection.rs:443, 468), however many groups were begun in between.    *)
THEOREM VersionsAgree == SessionSpec => []AgreedVersion
<1>1. SInv => AgreedVersion
  BY DEF SInv, AgreedVersion, Agreement, Exchange, Acked
<1> QED BY <1>1, SessionInvariance, PTL

\* An acknowledged commit has a session behind it (dave.rs:154 asks for none).
THEOREM AcknowledgedInGroup == SessionSpec => []AckedHasSession
<1>1. SInv => AckedHasSession
  BY DEF SInv, AckedHasSession, Agreement, SessionKept
<1> QED BY <1>1, SessionInvariance, PTL

(* The session of a client whose key package is with the gateway tolerates *)
(* unencrypted frames from its acknowledgement of a downgrade until the    *)
(* execution (connection.rs:357), whatever the gateway sends behind the    *)
(* announcement: a new group among it, which renews the session.           *)
THEOREM DowngradesTolerated == SessionSpec => []DowngradeTolerated
<1>1. SInv => DowngradeTolerated
  <2> SUFFICES ASSUME SInv, InSession, NEW id \in takenDown,
                      phase[id] = "acked", offered[id] = 0
               PROVE  HasSession(dave) /\ dave.inner.passthrough
    BY DEF DowngradeTolerated
  <2>1. id \in Announced
    BY DEF SInv, SessionTypeOK
  <2>2. Opened(id) /\ Downgrading(id)
    BY <2>1, InqFacts DEF Agreement, Exchange
  <2>3. \A k \in DOMAIN inq : ~Opens(inq[k], id)
    BY <2>2 DEF Opened
  <2> QED BY <2>2, <2>3 DEF Downgrading, Tolerant
<1> QED BY <1>1, SessionInvariance, PTL

(* Once every frame has arrived the connection knows the users of the call *)
(* (connection.rs:337, 343), in whatever order they came and went.         *)
THEOREM RostersAgree == SessionSpec => []RosterAgrees
<1>1. SInv => RosterAgrees
  <2> SUFFICES ASSUME SInv, InSession, inq = <<>> PROVE connected_users = roster
    BY DEF RosterAgrees
  <2>1. connected_users \subseteq Users /\ roster \subseteq Users
    BY DEF SInv, SessionTypeOK, TypeOK
  <2>2. \A u \in Users : u \in connected_users <=> u \in roster
    BY InqFacts DEF Agreement, RosterRuns
  <2> QED BY <2>1, <2>2
<1> QED BY <1>1, SessionInvariance, PTL

(* seq is the number of the last frame handled, up to the width a binary   *)
(* frame carries, for any width and any number of frames.                  *)
THEOREM SequenceTracked == SessionSpec => []SeqTracks
<1>1. SInv => SeqTracks
  <2> SUFFICES ASSUME SInv, InSession, seq # -1
               PROVE  (seq + Len(inq) - gseq) % SeqMod = 0
    BY DEF SeqTracks
  <2> DEFINE n == Len(inq)
             x == seq + n - gseq
  <2>1. n \in Nat /\ gseq \in Int /\ Cong(seq, gseq - n, SeqMod)
    BY InqFacts DEF Agreement, NumbersRun
  <2>2. seq \in Int
    BY SeqsAssumption DEF SInv, SessionTypeOK, TypeOK
  <2> HIDE DEF n
  <2>3. PICK k \in Int : seq = gseq - n + SeqMod * k
    BY <2>1 DEF Cong
  <2>4. SeqMod \in Nat \ {0} /\ SeqMod * k \in Int
    BY SeqModAssumption
  <2>5. x \in Int /\ x = SeqMod * k + 0 /\ 0 \in 0 .. SeqMod - 1
    BY <2>1, <2>2, <2>3, <2>4
  <2>6. x % SeqMod = 0
    <3> HIDE DEF x
    <3> QED BY <2>4, <2>5, Remainder
  <2> QED BY <2>6 DEF n
<1> QED BY <1>1, SessionInvariance, PTL
-----------------------------------------------------------------------------
(* The refinement of TransitionExchange.                                   *)

Coming(id) == \E f \in Range(inq) : Opens(f, id)
Going(id) == \E f \in Range(inq) : Executes(f, id)

\* The exchange of a transition is where it was.
SameAt(id) ==
    /\ Stage(id)' = Stage(id) /\ Offer(id)' = Offer(id)
    /\ Entry(id)' = Entry(id) /\ Ordered(id)' = Ordered(id)

LEMMA SameExchange ==
    ASSUME NEW id, Linked, Linked', phase'[id] = phase[id], offered'[id] = offered[id],
           pending_transitions'[id] = pending_transitions[id],
           Coming(id)' <=> Coming(id), Going(id)' <=> Going(id),
           TransitionReady(id) \in Range(out)' <=> TransitionReady(id) \in Range(out),
           InvalidCommit(id) \in Range(out)' <=> InvalidCommit(id) \in Range(out)
    PROVE  SameAt(id)
<1>1. Stage(id)' = Stage(id)
  BY DEF Stage, Coming, TransitionReady, InvalidCommit
<1>2. Entry(id)' = Entry(id) /\ Ordered(id)' = Ordered(id)
  BY DEF Entry, Ordered, Going
<1>3. Offer(id)' = Offer(id)
  BY <1>1 DEF Offer
<1> QED BY <1>1, <1>2, <1>3 DEF SameAt

\* Nothing moves that is not where it was.
LEMMA SameMap ==
    ASSUME Linked' = Linked, \A id \in Announced : SameAt(id)
    PROVE  UNCHANGED TE!vars
<1>1. /\ [id \in Announced |-> Stage(id)]' = [id \in Announced |-> Stage(id)]
      /\ [id \in Announced |-> Offer(id)]' = [id \in Announced |-> Offer(id)]
      /\ [id \in Announced |-> Entry(id)]' = [id \in Announced |-> Entry(id)]
      /\ [id \in Announced |-> Ordered(id)]' = [id \in Announced |-> Ordered(id)]
  BY DEF SameAt
<1> QED BY <1>1 DEF TE!vars

LEMMA OneMoves ==
    ASSUME NEW i \in Announced, \A id \in Announced \ {i} : SameAt(id)
    PROVE  /\ [id \in Announced |-> Stage(id)]'
                  = [[id \in Announced |-> Stage(id)] EXCEPT ![i] = Stage(i)']
           /\ [id \in Announced |-> Offer(id)]'
                  = [[id \in Announced |-> Offer(id)] EXCEPT ![i] = Offer(i)']
           /\ [id \in Announced |-> Entry(id)]'
                  = [[id \in Announced |-> Entry(id)] EXCEPT ![i] = Entry(i)']
           /\ [id \in Announced |-> Ordered(id)]'
                  = [[id \in Announced |-> Ordered(id)] EXCEPT ![i] = Ordered(i)']
BY DEF SameAt

\* Without a link there is nothing.
LEMMA Unlinked ==
    /\ ~Linked => TE!Void
    /\ ~Linked' => TE!Void'
<1>1. ASSUME ~Linked PROVE TE!Void
  <2>1. \A id \in Announced :
            Stage(id) = "idle" /\ Offer(id) = None /\ Entry(id) = None /\ Ordered(id) = None
    BY <1>1 DEF Stage, Offer, Entry, Ordered
  <2> QED BY <2>1 DEF TE!Void, TE!Nothing
<1>2. ASSUME ~Linked' PROVE TE!Void'
  <2>1. \A id \in Announced :
            Stage(id)' = "idle" /\ Offer(id)' = None /\ Entry(id)' = None /\ Ordered(id)' = None
    BY <1>2 DEF Stage, Offer, Entry, Ordered
  <2> QED BY <2>1 DEF TE!Void, TE!Nothing
<1> QED BY <1>1, <1>2

LEMMA BreakRefines == ~Linked' => [TE!Next]_TE!vars
<1> SUFFICES ASSUME ~Linked' PROVE [TE!Next]_TE!vars
  OBVIOUS
<1>1. CASE Linked
  <2>1. TE!Break
    BY <1>1, Unlinked DEF TE!Break
  <2> QED BY <2>1 DEF TE!Next
<1>2. CASE ~Linked
  <2>1. Linked' = Linked
    BY <1>2 DEF Linked
  <2>2. TE!Void /\ TE!Void'
    BY <1>2, Unlinked
  <2> QED BY <2>1, <2>2 DEF TE!Void, TE!Nothing, TE!vars
<1> QED BY <1>1, <1>2

-----------------------------------------------------------------------------
(* The gateway's frames.                                                   *)

LEMMA RangeAppend ==
    ASSUME NEW S, NEW p \in Seq(S), NEW x \in S
    PROVE  Range(Append(p, x)) = Range(p) \cup {x}
<1>1. PICK q : q = Append(p, x)
  OBVIOUS
<1>2. /\ Len(p) \in Nat /\ DOMAIN p = 1 .. Len(p) /\ DOMAIN q = 1 .. Len(p) + 1
      /\ \A k \in 1 .. Len(p) : q[k] = p[k]
      /\ q[Len(p) + 1] = x
  BY <1>1, AppendFacts
<1>3. DOMAIN q = DOMAIN p \cup {Len(p) + 1}
  BY <1>2
<1>4. Range(q) = Range(p) \cup {x}
  BY <1>2, <1>3 DEF Range
<1> QED BY <1>1, <1>4

\* A frame joins those on the way; it touches the transition or it does not.
LEMMA DeliveredSame ==
    ASSUME SInv, Linked, NEW x, Delivers(x), NEW id \in Announced,
           ~Opens(x, id), ~Executes(x, id), phase'[id] = phase[id], offered'[id] = offered[id]
    PROVE  SameAt(id)
<1>1. /\ inq' = Append(inq, x) /\ UNCHANGED <<loop, writer, status, greeted, out, pending_transitions>>
      /\ inq \in Seq(Inbound) /\ x \in Inbound
  BY FrameFields DEF Delivers, vars, SInv, SessionTypeOK
<1>2. Range(inq') = Range(inq) \cup {x}
  BY <1>1, RangeAppend
<1>3. Linked'
  BY <1>1 DEF Linked, InSession
<1>4. (Coming(id)' <=> Coming(id)) /\ (Going(id)' <=> Going(id))
  BY <1>2 DEF Coming, Going
<1> QED BY <1>1, <1>3, <1>4, SameExchange

LEMMA SendFrame ==
    ASSUME SInv, Linked, NEW m, GwSend(m), \A s \in Seqs : [m EXCEPT !.seq = s] \in SessionFrame
    PROVE  /\ Linked'
           /\ \E s \in Seqs : Delivers([m EXCEPT !.seq = s])
<1>1. UNCHANGED <<loop, writer, status, greeted>>
  BY DEF GwSend, vars
<1>2. Linked' /\ InSession
  BY <1>1 DEF Linked, InSession
<1> QED BY <1>2, GwSendFacts

LEMMA OpeningRefines ==
    ASSUME SInv, Linked, NEW x, Delivers(x), NEW i \in Announced,
           Opens(x, i), \A id \in Announced \ {i} : SameAt(id),
           phase[i] = "idle", phase'[i] = "prepared", offered'[i] \in Versions
    PROVE  TE!Announce(i)
<1>1. /\ inq' = Append(inq, x) /\ UNCHANGED <<loop, writer, status, greeted, out, pending_transitions>>
      /\ inq \in Seq(Inbound) /\ x \in Inbound
  BY FrameFields DEF Delivers, vars, SInv, SessionTypeOK
<1>2. Range(inq') = Range(inq) \cup {x}
  BY <1>1, RangeAppend
<1>3. Linked'
  BY <1>1 DEF Linked, InSession
<1>4. Coming(i)' /\ (Going(i)' <=> Going(i))
  <2>1. ~Executes(x, i)
    BY DEF Opens, Executes, Binary
  <2> QED BY <1>2, <2>1 DEF Coming, Going
<1>5. /\ Stage(i) = "idle" /\ Stage(i)' = "announced"
      /\ Offer(i)' = offered'[i]
      /\ Entry(i)' = Entry(i) /\ Ordered(i)' = Ordered(i)
  <2>1. Stage(i) = "idle"
    BY DEF Stage
  <2>2. Stage(i)' = "announced"
    BY <1>3, <1>4 DEF Stage, Coming
  <2>3. Entry(i)' = Entry(i) /\ Ordered(i)' = Ordered(i)
    BY <1>1, <1>3, <1>4 DEF Entry, Ordered, Going
  <2> QED BY <2>1, <2>2, <2>3 DEF Offer
<1>6. Linked' = Linked
  BY <1>3 DEF Linked
<1> QED BY <1>5, <1>6, OneMoves DEF TE!Announce, TE!Moves

LEMMA OrderingRefines ==
    ASSUME SInv, Linked, NEW x, Delivers(x), NEW i \in Announced,
           Executes(x, i), \A id \in Announced \ {i} : SameAt(id),
           phase[i] = "acked", phase'[i] = "idle"
    PROVE  TE!Order(i)
<1>1. /\ inq' = Append(inq, x) /\ UNCHANGED <<loop, writer, status, greeted, out, pending_transitions>>
      /\ inq \in Seq(Inbound) /\ x \in Inbound
  BY FrameFields DEF Delivers, vars, SInv, SessionTypeOK
<1>2. Range(inq') = Range(inq) \cup {x}
  BY <1>1, RangeAppend
<1>3. Linked'
  BY <1>1 DEF Linked, InSession
<1>4. Going(i)'
  BY <1>2 DEF Going
<1>5. pending_transitions[i] = offered[i]
  BY DEF SInv, Linked, Agreement, Exchange, Acked
<1>6. /\ Stage(i) = "agreed" /\ Stage(i)' = "idle"
      /\ Offer(i) = offered[i] /\ Offer(i)' = None
      /\ Entry(i)' = Entry(i) /\ Ordered(i)' = offered[i]
  <2>1. Stage(i) = "agreed" /\ Stage(i)' = "idle"
    BY DEF Stage
  <2>2. Entry(i)' = Entry(i) /\ Ordered(i)' = pending_transitions[i]
    BY <1>1, <1>3, <1>4 DEF Entry, Ordered, Going
  <2> QED BY <1>5, <2>1, <2>2 DEF Offer
<1>7. Linked' = Linked
  BY <1>3 DEF Linked
<1>8. [id \in Announced |-> Entry(id)]' = [id \in Announced |-> Entry(id)]
  BY <1>6 DEF SameAt
<1> QED BY <1>6, <1>7, <1>8, OneMoves DEF TE!Order, TE!Moves

\* A frame of no exchange.
LEMMA QuietRefines ==
    ASSUME SInv, Linked, NEW x, Delivers(x),
           \A id \in Announced : /\ ~Opens(x, id) /\ ~Executes(x, id)
                                 /\ phase'[id] = phase[id] /\ offered'[id] = offered[id]
    PROVE  UNCHANGED TE!vars
<1>1. \A id \in Announced : SameAt(id)
  BY DeliveredSame
<1>2. Linked' = Linked
  BY DEF Delivers, vars, Linked, InSession
<1> QED BY <1>1, <1>2, SameMap

LEMMA GatewayRefines == SInv /\ Gateway => [TE!Next]_TE!vars
<1> SUFFICES ASSUME SInv, Gateway PROVE [TE!Next]_TE!vars
  OBVIOUS
<1>1. CASE ~Linked
  <2>1. UNCHANGED <<loop, writer, status, greeted>>
    BY DEF Gateway, GwSelect, GwEpoch, GwCommit, GwDowngrade, GwExecute, GwJoin, GwLeave, GwSend, vars
  <2>2. ~Linked'
    BY <1>1, <2>1 DEF Linked, InSession
  <2> QED BY <2>2, BreakRefines
<1>2. ASSUME Linked, NEW v \in Versions, GwSelect(v) PROVE UNCHANGED TE!vars
  <2> DEFINE m == [op |-> "SelectProtocolAck", seq |-> None, version |-> v, sdp |-> TRUE]
  <2>1. \A s \in Seqs : [m EXCEPT !.seq = s] \in SessionFrame
    BY DEF SessionFrame
  <2>2. GwSend(m) /\ UNCHANGED <<phase, offered>>
    BY <1>2 DEF GwSelect
  <2>3. PICK s \in Seqs : Delivers([m EXCEPT !.seq = s])
    BY <1>2, <2>1, <2>2, SendFrame
  <2>4. [m EXCEPT !.seq = s].op = "SelectProtocolAck"
    OBVIOUS
  <2> QED BY <1>2, <2>2, <2>3, <2>4, QuietRefines DEF Opens, Executes, Binary
<1>3. ASSUME Linked, NEW v \in Versions, GwEpoch(v) PROVE UNCHANGED TE!vars
  <2> DEFINE m == [op |-> "PrepareEpoch", seq |-> None, epoch |-> 1, version |-> v]
  <2>1. \A s \in Seqs : [m EXCEPT !.seq = s] \in SessionFrame
    BY <1>3 DEF SessionFrame, GwEpoch
  <2>2. GwSend(m) /\ UNCHANGED <<phase, offered>>
    BY <1>3 DEF GwEpoch
  <2>3. PICK s \in Seqs : Delivers([m EXCEPT !.seq = s])
    BY <1>3, <2>1, <2>2, SendFrame
  <2>4. [m EXCEPT !.seq = s].op = "PrepareEpoch"
    OBVIOUS
  <2> QED BY <1>3, <2>2, <2>3, <2>4, QuietRefines DEF Opens, Executes, Binary
<1>4. ASSUME Linked, NEW u \in Users, GwJoin(u) PROVE UNCHANGED TE!vars
  <2> DEFINE m == [op |-> "ClientsConnect", seq |-> None, user_ids |-> {u}]
  <2>1. \A s \in Seqs : [m EXCEPT !.seq = s] \in SessionFrame
    BY DEF SessionFrame
  <2>2. GwSend(m) /\ UNCHANGED <<phase, offered>>
    BY <1>4 DEF GwJoin
  <2>3. PICK s \in Seqs : Delivers([m EXCEPT !.seq = s])
    BY <1>4, <2>1, <2>2, SendFrame
  <2>4. [m EXCEPT !.seq = s].op = "ClientsConnect"
    OBVIOUS
  <2> QED BY <1>4, <2>2, <2>3, <2>4, QuietRefines DEF Opens, Executes, Binary
<1>5. ASSUME Linked, NEW u \in Users, GwLeave(u) PROVE UNCHANGED TE!vars
  <2> DEFINE m == [op |-> "ClientDisconnect", seq |-> None, user_id |-> u]
  <2>1. \A s \in Seqs : [m EXCEPT !.seq = s] \in SessionFrame
    BY DEF SessionFrame
  <2>2. GwSend(m) /\ UNCHANGED <<phase, offered>>
    BY <1>5 DEF GwLeave
  <2>3. PICK s \in Seqs : Delivers([m EXCEPT !.seq = s])
    BY <1>5, <2>1, <2>2, SendFrame
  <2>4. [m EXCEPT !.seq = s].op = "ClientDisconnect"
    OBVIOUS
  <2> QED BY <1>5, <2>2, <2>3, <2>4, QuietRefines DEF Opens, Executes, Binary
<1>6. ASSUME Linked, NEW op \in Binary, NEW i \in TransitionIds, GwCommit(op, i)
      PROVE  [TE!Next]_TE!vars
  <2> DEFINE m == [op |-> op, seq |-> None, id |-> i]
  <2>1. \A s \in Seqs : [m EXCEPT !.seq = s] \in SessionFrame
    BY DEF SessionFrame
  <2>2. GwSend(m)
    BY <1>6 DEF GwCommit
  <2>3. PICK s \in Seqs : Delivers([m EXCEPT !.seq = s])
    BY <1>6, <2>1, <2>2, SendFrame
  <2>4. PICK x : x = [m EXCEPT !.seq = s]
    OBVIOUS
  <2>5. x.op \in Binary /\ x.id = i /\ Delivers(x)
    BY <2>3, <2>4
  <2>6. (\A id : Opens(x, id) <=> id = i) /\ \A id : ~Executes(x, id)
    BY <2>5 DEF Opens, Executes, Binary
  <2>7. /\ \A id \in Announced : id # i => phase'[id] = phase[id] /\ offered'[id] = offered[id]
        /\ i # 0 => phase[i] = "idle" /\ phase'[i] = "prepared" /\ offered'[i] = group
        /\ group \in Versions
    BY <1>6 DEF GwCommit, SInv, SessionTypeOK, Announced
  <2>8. CASE i = 0
    <3>1. 0 \notin Announced
      BY DEF Announced
    <3>2. UNCHANGED TE!vars
      BY <1>6, <2>5, <2>6, <2>7, <2>8, <3>1, QuietRefines
    <3> QED BY <3>2
  <2>9. CASE i # 0
    <3>1. i \in Announced
      BY <2>9 DEF Announced
    <3>2. \A id \in Announced \ {i} : SameAt(id)
      BY <1>6, <2>5, <2>6, <2>7, DeliveredSame
    <3>3. TE!Announce(i)
      BY <1>6, <2>5, <2>6, <2>7, <2>9, <3>1, <3>2, OpeningRefines
    <3> QED BY <3>1, <3>3 DEF TE!Next, TE!Exchange
  <2> QED BY <2>8, <2>9
<1>7. ASSUME Linked, NEW i \in Announced, GwDowngrade(i) PROVE [TE!Next]_TE!vars
  <2> DEFINE m == [op |-> "PrepareTransition", seq |-> None, id |-> i, version |-> 0]
  <2>1. \A s \in Seqs : [m EXCEPT !.seq = s] \in SessionFrame
    BY DEF SessionFrame
  <2>2. GwSend(m)
    BY <1>7 DEF GwDowngrade
  <2>3. PICK s \in Seqs : Delivers([m EXCEPT !.seq = s])
    BY <1>7, <2>1, <2>2, SendFrame
  <2>4. PICK x : x = [m EXCEPT !.seq = s]
    OBVIOUS
  <2>5. x.op = "PrepareTransition" /\ x.id = i /\ Delivers(x)
    BY <2>3, <2>4
  <2>6. (\A id : Opens(x, id) <=> id = i) /\ \A id : ~Executes(x, id)
    BY <2>5 DEF Opens, Executes, Binary
  <2>7. /\ \A id \in Announced : id # i => phase'[id] = phase[id] /\ offered'[id] = offered[id]
        /\ phase[i] = "idle" /\ phase'[i] = "prepared" /\ offered'[i] = 0 /\ 0 \in Versions
    BY <1>7, VersionsAssumption DEF GwDowngrade, SInv, SessionTypeOK, Announced
  <2>8. \A id \in Announced \ {i} : SameAt(id)
    BY <1>7, <2>5, <2>6, <2>7, DeliveredSame
  <2>9. TE!Announce(i)
    BY <1>7, <2>5, <2>6, <2>7, <2>8, OpeningRefines
  <2> QED BY <2>9 DEF TE!Next, TE!Exchange
<1>8. ASSUME Linked, NEW i \in Announced, GwExecute(i) PROVE [TE!Next]_TE!vars
  <2> DEFINE m == [op |-> "ExecuteTransition", seq |-> None, id |-> i]
  <2>1. \A s \in Seqs : [m EXCEPT !.seq = s] \in SessionFrame
    BY DEF SessionFrame
  <2>2. GwSend(m)
    BY <1>8 DEF GwExecute
  <2>3. PICK s \in Seqs : Delivers([m EXCEPT !.seq = s])
    BY <1>8, <2>1, <2>2, SendFrame
  <2>4. PICK x : x = [m EXCEPT !.seq = s]
    OBVIOUS
  <2>5. x.op = "ExecuteTransition" /\ x.id = i /\ Delivers(x)
    BY <2>3, <2>4
  <2>6. (\A id : Executes(x, id) <=> id = i) /\ \A id : ~Opens(x, id)
    BY <2>5 DEF Opens, Executes, Binary
  <2>7. /\ \A id \in Announced : id # i => phase'[id] = phase[id] /\ offered'[id] = offered[id]
        /\ phase[i] = "acked" /\ phase'[i] = "idle"
    BY <1>8 DEF GwExecute, SInv, SessionTypeOK, Announced
  <2>8. \A id \in Announced \ {i} : SameAt(id)
    BY <1>8, <2>5, <2>6, <2>7, DeliveredSame
  <2>9. TE!Order(i)
    BY <1>8, <2>5, <2>6, <2>7, <2>8, OrderingRefines
  <2> QED BY <2>9 DEF TE!Next, TE!Exchange
<1> QED BY <1>1, <1>2, <1>3, <1>4, <1>5, <1>6, <1>7, <1>8 DEF Gateway

-----------------------------------------------------------------------------
(* A frame reaches the gateway.                                            *)

LEMMA UpFrame ==
    ASSUME SInv, Up
    PROVE  /\ GwReceive(Head(out))
           /\ UNCHANGED <<loop, writer, status, pending_transitions>>
           /\ writer = "running"
           /\ Range(out) = {Head(out)} \cup Range(out')
           /\ Head(out) = out[1] /\ 1 \in DOMAIN out
           /\ \A g \in Range(out') : \E k \in DOMAIN out : k # 1 /\ out[k] = g
<1>1. /\ out \in Seq(Outbound) /\ out # <<>> /\ out' = Tail(out) /\ GwReceive(Head(out))
      /\ UNCHANGED <<loop, writer, status, pending_transitions>> /\ writer = "running"
  BY DEF SInv, IInv, TypeOK, Up, WriterSend, writerFrame, mediaVars
<1>2. Range(out) = {Head(out)} \cup Range(out')
  BY <1>1, RangeHeadTail
<1>3. /\ DOMAIN out = 1 .. Len(out) /\ DOMAIN out' = 1 .. Len(out) - 1 /\ Len(out) \in Nat
      /\ \A k \in 1 .. Len(out) - 1 : k + 1 \in 1 .. Len(out) /\ out'[k] = out[k + 1]
      /\ Head(out) = out[1] /\ 1 \in 1 .. Len(out)
  BY <1>1, TailFacts
<1>4. \A k \in 1 .. Len(out) - 1 : k + 1 # 1
  BY <1>3
<1>5. \A g \in Range(out') : \E k \in DOMAIN out : k # 1 /\ out[k] = g
  BY <1>3, <1>4 DEF Range
<1> QED BY <1>1, <1>2, <1>3, <1>5

\* IDENTIFY arrives.
LEMMA OpenRefines == ASSUME SInv, Up, ~Linked, Linked' PROVE TE!Open
<1>1. /\ loop = "running" /\ ~status.resuming /\ writer = "running" /\ ~greeted
      /\ GwReceive(Head(out)) /\ pending_transitions' = pending_transitions
  BY UpFrame DEF Linked, InSession
<1>2. Head(out).op = "Identify" /\ pending_transitions = NoTransitions
  BY <1>1 DEF SInv, Ungreeted
<1>3. GwIdentify
  BY <1>1, <1>2 DEF GwReceive
<1>4. \A id \in Announced : /\ phase'[id] = "idle" /\ pending_transitions'[id] = None
  BY <1>1, <1>2, <1>3 DEF GwIdentify, NewPhases, NoTransitions, Announced
<1>5. \A id \in Announced : SameAt(id)
  <2> SUFFICES ASSUME NEW id \in Announced PROVE SameAt(id)
    OBVIOUS
  <2>1. Stage(id) = "idle" /\ Offer(id) = None /\ Entry(id) = None /\ Ordered(id) = None
    BY DEF Stage, Offer, Entry, Ordered
  <2>2. Stage(id)' = "idle" /\ Offer(id)' = None /\ Entry(id)' = None /\ Ordered(id)' = None
    BY <1>4 DEF Stage, Offer, Entry, Ordered
  <2> QED BY <2>1, <2>2 DEF SameAt
<1>6. /\ [id \in Announced |-> Stage(id)]' = [id \in Announced |-> Stage(id)]
      /\ [id \in Announced |-> Offer(id)]' = [id \in Announced |-> Offer(id)]
      /\ [id \in Announced |-> Entry(id)]' = [id \in Announced |-> Entry(id)]
      /\ [id \in Announced |-> Ordered(id)]' = [id \in Announced |-> Ordered(id)]
  BY <1>5 DEF SameAt
<1>7. Linked' = TRUE
  BY DEF Linked
<1> QED BY <1>6, <1>7 DEF TE!Open

LEMMA UpRefines == ASSUME SInv, Up PROVE [TE!Next]_TE!vars
<1> DEFINE f == Head(out)
<1>1. /\ GwReceive(f) /\ UNCHANGED <<loop, writer, status, pending_transitions>>
      /\ writer = "running"
      /\ Range(out) = {f} \cup Range(out')
      /\ f = out[1] /\ 1 \in DOMAIN out
      /\ \A g \in Range(out') : \E k \in DOMAIN out : k # 1 /\ out[k] = g
  BY UpFrame
<1>2. CASE ~Linked'
  BY <1>2, BreakRefines
<1>3. CASE ~Linked /\ Linked'
  BY <1>3, OpenRefines DEF TE!Next
<1>4. ASSUME Linked, Linked' PROVE [TE!Next]_TE!vars
  <2> HIDE DEF f
  <2>1. Agreement /\ SessionTypeOK
    BY <1>4 DEF SInv, Linked
  <2>2. f.op \notin {"Identify", "Resume"}
    BY <1>1, <2>1 DEF Agreement, NoGreeting, Greeting
  <2>3. UNCHANGED <<inq, offered>>
    BY <1>1, <2>2 DEF GwReceive
  <2>4. Linked' = Linked
    BY <1>4 DEF Linked
  <2>5. ASSUME NEW id \in Announced, ~Answers(f, id) PROVE SameAt(id)
    <3>1. f # TransitionReady(id) /\ f # InvalidCommit(id)
      BY <2>5 DEF Answers, TransitionReady, InvalidCommit
    <3>2. phase'[id] = phase[id]
      <4>1. phase \in [Announced -> {"idle", "prepared", "acked"}]
        BY <2>1 DEF SessionTypeOK
      <4>2. CASE f.op = "TransitionReady"
        BY <1>1, <2>5, <4>1, <4>2 DEF GwReceive, Answers
      <4>3. CASE f.op = "InvalidCommit"
        BY <1>1, <2>5, <4>1, <4>3 DEF GwReceive, Answers
      <4>4. CASE f.op \notin {"TransitionReady", "InvalidCommit"}
        BY <1>1, <2>2, <4>4 DEF GwReceive
      <4> QED BY <4>2, <4>3, <4>4
    <3>3. /\ TransitionReady(id) \in Range(out)' <=> TransitionReady(id) \in Range(out)
          /\ InvalidCommit(id) \in Range(out)' <=> InvalidCommit(id) \in Range(out)
      BY <1>1, <3>1
    <3>4. (Coming(id)' <=> Coming(id)) /\ (Going(id)' <=> Going(id))
      BY <2>3 DEF Coming, Going
    <3> QED BY <1>1, <1>4, <2>3, <3>2, <3>3, <3>4, SameExchange
  <2>6. ASSUME NEW i \in Announced, Answers(f, i) PROVE TE!Agree(i) \/ TE!Withdraw(i)
    <3>1. /\ phase[i] = "prepared" /\ i # 0
          /\ phase \in [Announced -> {"idle", "prepared", "acked"}]
          /\ \A k \in DOMAIN out : k # 1 => ~Answers(out[k], i)
          /\ f.op = "TransitionReady" => pending_transitions[i] = offered[i]
      BY <1>1, <2>1, <2>6 DEF Agreement, SessionTypeOK, Exchange, Answered, Announced
    <3>2. ~Coming(i)
      <4>1. \A k \in DOMAIN inq : ~Opens(inq[k], i)
        BY <1>1, <2>1, <2>6 DEF Agreement, Exchange, Opened
      <4> QED BY <4>1 DEF Coming, Range
    <3>3. \A id \in Announced \ {i} : SameAt(id)
      BY <2>5, <2>6 DEF Answers
    <3>4. Entry(i)' = Entry(i) /\ Ordered(i)' = Ordered(i)
      BY <1>1, <1>4, <2>3 DEF Entry, Ordered
    <3>5. TransitionReady(i) \notin Range(out') /\ InvalidCommit(i) \notin Range(out')
      BY <1>1, <3>1 DEF Answers, TransitionReady, InvalidCommit
    <3>6. f \in Outbound
      BY <1>1 DEF SInv, IInv, TypeOK
    <3>7. /\ [id \in Announced |-> Entry(id)]' = [id \in Announced |-> Entry(id)]
          /\ [id \in Announced |-> Ordered(id)]' = [id \in Announced |-> Ordered(id)]
      BY <3>3, <3>4 DEF SameAt
    <3>8. CASE f.op = "TransitionReady"
      <4>1. f = TransitionReady(i)
        BY <2>6, <3>6, <3>8 DEF Outbound, Answers, TransitionReady, KeyPackage
      <4>2. Stage(i) = "accepted"
        BY <1>1, <1>4, <3>1, <3>2, <4>1 DEF Stage, Coming
      <4>3. phase'[i] = "acked"
        BY <1>1, <2>6, <3>1, <3>8 DEF GwReceive, Answers
      <4>4. Stage(i)' = "agreed" /\ Offer(i)' = Offer(i)
        BY <1>4, <2>3, <4>2, <4>3 DEF Stage, Offer
      <4>5. [id \in Announced |-> Offer(id)]' = [id \in Announced |-> Offer(id)]
        BY <3>3, <4>4 DEF SameAt
      <4> QED BY <1>4, <2>4, <3>3, <3>7, <4>2, <4>4, <4>5, OneMoves DEF TE!Agree, TE!Moves
    <3>9. CASE f.op = "InvalidCommit"
      <4>1. f = InvalidCommit(i)
        BY <2>6, <3>6, <3>9 DEF Outbound, Answers, InvalidCommit, KeyPackage
      <4>2. f # TransitionReady(i)
        BY <3>9 DEF TransitionReady
      <4>3. Stage(i) = "refused"
        BY <1>1, <1>4, <3>1, <3>2, <3>5, <4>1, <4>2 DEF Stage, Coming
      <4>4. phase'[i] = "idle"
        BY <1>1, <2>6, <3>1, <3>9 DEF GwReceive, Answers
      <4>5. Stage(i)' = "idle" /\ Offer(i)' = None
        BY <4>4 DEF Stage, Offer
      <4> QED BY <1>4, <2>4, <3>3, <3>7, <4>3, <4>5, OneMoves DEF TE!Withdraw, TE!Moves
    <3> QED BY <2>6, <3>8, <3>9 DEF Answers
  <2>7. CASE \E i \in Announced : Answers(f, i)
    BY <2>6, <2>7 DEF TE!Next, TE!Exchange
  <2>8. CASE \A i \in Announced : ~Answers(f, i)
    BY <2>4, <2>5, <2>8, SameMap
  <2> QED BY <2>7, <2>8
<1> QED BY <1>2, <1>3, <1>4

-----------------------------------------------------------------------------
(* A frame reaches the connection.                                         *)

\* An announcement is answered, whichever way the handler goes.
LEMMA HandlerAnswers ==
    ASSUME TypeOK, writer = "running", NEW m \in SessionFrame, Handle(m),
           NEW i \in Announced, Opens(m, i),
           TransitionReady(i) \notin Range(out)
    PROVE  \/ /\ TransitionReady(i) \in Range(out')
              /\ pending_transitions'[i] =
                    IF m.op = "PrepareTransition" THEN 0 ELSE dave.protocol_version
           \/ /\ InvalidCommit(i) \in Range(out') /\ TransitionReady(i) \notin Range(out')
              /\ pending_transitions'[i] = pending_transitions[i]
<1>1. /\ dave \in Handler /\ pending_transitions \in [TransitionIds -> Versions \cup {None}]
      /\ out \in Seq(Outbound) /\ m.id = i /\ i \in TransitionIds /\ i > 0 /\ i # 0
      /\ m.op \in {"AnnounceCommit", "Welcome", "PrepareTransition"}
      /\ m.op = "PrepareTransition" => m.version = 0
  BY TransitionIdsAssumption, FrameFields DEF TypeOK, Opens, Binary, Announced
<1>2. /\ TransitionReady(i) \in Outbound /\ InvalidCommit(i) \in Outbound /\ KeyPackage \in Outbound
      /\ TransitionReady(i) # InvalidCommit(i) /\ TransitionReady(i) # KeyPackage
  BY <1>1, FrameTypes DEF TransitionReady, InvalidCommit
<1>3. ASSUME NEW msgs \in Seq(Outbound), out' = Send(msgs)
      PROVE  Range(out') = Range(out) \cup Range(msgs)
  BY <1>1, <1>3, RangeConcat DEF Send
<1>4. ASSUME out' = Send(<<TransitionReady(i)>>) PROVE TransitionReady(i) \in Range(out')
  <2>1. <<TransitionReady(i)>> \in Seq(Outbound) /\ Range(<<TransitionReady(i)>>) = {TransitionReady(i)}
    BY <1>2, RangeShort
  <2> QED BY <1>3, <1>4, <2>1
<1>5. CASE m.op = "PrepareTransition"
  <2>1. HandlePrepareTransition(m)
    BY <1>5 DEF Handle, HandleHello, HandleReady, HandleReadyPanics, HandleSelectProtocolAck,
            HandleResumed, HandleClientsConnect, HandleClientDisconnect, HandleExecuteTransition,
            HandlePrepareEpoch, HandleExternalSender, HandleProposals, HandleAnnounceCommit,
            HandleWelcome, HandleOther
  <2>2. /\ out' = Send(<<TransitionReady(i)>>)
        /\ pending_transitions' = [pending_transitions EXCEPT ![i] = 0]
    BY <1>1, <1>5, <2>1 DEF HandlePrepareTransition
  <2> QED BY <1>1, <1>4, <1>5, <2>2
<1>6. CASE m.op \in {"AnnounceCommit", "Welcome"}
  <2>1. JoinGroup(m)
    BY <1>6 DEF Handle, HandleHello, HandleReady, HandleReadyPanics, HandleSelectProtocolAck,
            HandleResumed, HandleClientsConnect, HandleClientDisconnect, HandlePrepareTransition,
            HandleExecuteTransition, HandlePrepareEpoch, HandleExternalSender, HandleProposals,
            HandleAnnounceCommit, HandleWelcome, HandleOther
  <2>2. PICK o \in ProcessGroupMessage(dave) :
          \/ /\ o.ret = "ok"
             /\ pending_transitions' = [pending_transitions EXCEPT ![i] = o.dave.protocol_version]
             /\ out' = Send(<<TransitionReady(i)>>)
          \/ ProcessInvalidCommit(o.dave, i)
    BY <1>1, <2>1 DEF JoinGroup
  <2>3. o.dave.protocol_version = dave.protocol_version
    BY <1>1, GroupMessageKeeps
  <2>4. CASE ProcessInvalidCommit(o.dave, i)
    <3>1. PICK msgs \in {<<InvalidCommit(i)>>, <<InvalidCommit(i), KeyPackage>>} :
            out' = Send(msgs) /\ pending_transitions' = pending_transitions
      BY <2>4 DEF ProcessInvalidCommit
    <3>2. /\ msgs \in Seq(Outbound) /\ InvalidCommit(i) \in Range(msgs)
          /\ TransitionReady(i) \notin Range(msgs)
      <4>1. /\ <<InvalidCommit(i)>> \in Seq(Outbound) /\ Range(<<InvalidCommit(i)>>) = {InvalidCommit(i)}
            /\ <<InvalidCommit(i), KeyPackage>> \in Seq(Outbound)
            /\ Range(<<InvalidCommit(i), KeyPackage>>) = {InvalidCommit(i), KeyPackage}
        BY <1>2, RangeShort
      <4> QED BY <1>2, <3>1, <4>1
    <3> QED BY <1>3, <3>1, <3>2
  <2>5. CASE /\ pending_transitions' = [pending_transitions EXCEPT ![i] = o.dave.protocol_version]
             /\ out' = Send(<<TransitionReady(i)>>)
    BY <1>1, <1>4, <1>6, <2>3, <2>5
  <2> QED BY <2>2, <2>4, <2>5
<1> QED BY <1>1, <1>5, <1>6

\* The handlers of other frames answer nothing.
LEMMA HandlerIsQuiet ==
    ASSUME SInv, Linked, Down, NEW id \in Announced, ~Opens(inq[1], id)
    PROVE  /\ TransitionReady(id) \in Range(out)' <=> TransitionReady(id) \in Range(out)
           /\ InvalidCommit(id) \in Range(out)' <=> InvalidCommit(id) \in Range(out)
<1>1. PICK msgs : Queues(inq[1], msgs)
  BY DownFacts DEF Linked, Turn
<1>2. msgs \in Seq(Outbound) /\ out \in Seq(Outbound) /\ out' = out \o msgs
  BY <1>1 DEF Queues, Send, Linked, SInv, IInv, TypeOK
<1>3. Range(out') = Range(out) \cup Range(msgs)
  BY <1>2, RangeConcat
<1>4. TransitionReady(id) \notin Range(msgs) /\ InvalidCommit(id) \notin Range(msgs)
  <2>1. Answers(TransitionReady(id), id) /\ Answers(InvalidCommit(id), id)
    BY DEF Answers, TransitionReady, InvalidCommit
  <2>2. \A k \in DOMAIN msgs : ~Answers(msgs[k], id)
    BY <1>1 DEF Queues
  <2> QED BY <2>1, <2>2 DEF Range
<1> QED BY <1>3, <1>4

LEMMA DownRefines == ASSUME SInv, Down PROVE [TE!Next]_TE!vars
<1> DEFINE m == inq[1]
<1>1. CASE ~Linked
  <2>1. Handle(Head(inq)) /\ greeted' = greeted /\ TypeOK
    BY DEF Down, SInv, IInv
  <2>2. loop = "running" /\ status'.resuming = status.resuming /\ writer' = writer
    <3>1. loop = "running" /\ status'.resuming = status.resuming
      BY <2>1, ResumingKept
    <3>2. writer' = writer
      BY <2>1 DEF Handle, HandleHello, HandleReady, HandleReadyPanics, HandleSelectProtocolAck,
            HandleResumed, HandleClientsConnect, HandleClientDisconnect, HandlePrepareTransition,
            HandleExecuteTransition, HandlePrepareEpoch, HandleExternalSender, HandleProposals,
            HandleAnnounceCommit, HandleWelcome, HandleOther, Receive, Take
    <3> QED BY <3>1, <3>2
  <2>3. ~Linked'
    BY <1>1, <2>1, <2>2 DEF Linked, InSession
  <2> QED BY <2>3, BreakRefines
<1>2. ASSUME Linked PROVE [TE!Next]_TE!vars
  <2>1. /\ TypeOK /\ Agreement /\ m \in SessionFrame /\ Turn(m) /\ Handle(m)
        /\ UNCHANGED <<greeted, phase, offered>>
        /\ 1 \in DOMAIN inq /\ Range(inq) = {m} \cup Range(inq')
        /\ \A g \in Range(inq') : \E k \in DOMAIN inq : k # 1 /\ 1 < k /\ inq[k] = g
    <3>1. /\ TypeOK /\ Agreement /\ m \in SessionFrame /\ Turn(m)
          /\ UNCHANGED <<greeted, phase, offered>> /\ 1 \in DOMAIN inq
          /\ \A k \in DOMAIN inq' : k \in Nat \ {0} /\ k + 1 \in DOMAIN inq /\ inq'[k] = inq[k + 1]
          /\ inq \in Seq(SessionFrame)
      BY <1>2, DownFacts DEF Linked, Agreement, Framed
    <3>2. Range(inq) = {Head(inq)} \cup Range(inq') /\ Handle(Head(inq)) /\ Head(inq) = inq[1]
      BY <3>1, RangeHeadTail, TailFacts DEF Down
    <3>3. \A k \in DOMAIN inq' : k + 1 # 1 /\ 1 < k + 1
      BY <3>1
    <3> QED BY <3>1, <3>2, <3>3 DEF Range
  <2> HIDE DEF m
  <2>2. Linked' /\ writer = "running" /\ Linked' = Linked
    BY <1>2, <2>1 DEF Linked, InSession, Turn
  <2>3. ASSUME NEW id \in Announced, ~Opens(m, id), ~Executes(m, id) PROVE SameAt(id)
    <3>1. (Coming(id)' <=> Coming(id)) /\ (Going(id)' <=> Going(id))
      BY <2>1, <2>3 DEF Coming, Going
    <3>2. pending_transitions'[id] = pending_transitions[id]
      BY <2>1, <2>3 DEF Turn, TurnsPending
    <3> QED BY <1>2, <2>1, <2>2, <2>3, <3>1, <3>2, HandlerIsQuiet, SameExchange DEF m
  <2>4. ASSUME NEW i \in Announced, Opens(m, i) PROVE TE!Accept(i) \/ TE!Refuse(i)
    <3>1. \A id \in Announced \ {i} : SameAt(id)
      BY <2>3, <2>4 DEF Opens, Executes, Binary
    <3>2. /\ phase[i] = "prepared" /\ phase'[i] = "prepared" /\ Coming(i)
          /\ offered[i] = 0 <=> m.op = "PrepareTransition"
          /\ ~Going(i) /\ ~Coming(i)' /\ ~Going(i)'
          /\ TransitionReady(i) \notin Range(out)
      <4>1. /\ phase[i] = "prepared"
            /\ offered[i] = 0 <=> m.op = "PrepareTransition"
            /\ \A k \in DOMAIN inq : Opens(inq[k], i) => k = 1
            /\ \A k \in DOMAIN inq : 1 < k => ~Executes(inq[k], i)
            /\ \A k \in DOMAIN out : ~Answers(out[k], i)
        BY <2>1, <2>4 DEF Agreement, Exchange, Opened, Executing, m
      <4>2. Coming(i) /\ ~Coming(i)' /\ ~Going(i)'
        BY <2>1, <2>4, <4>1 DEF Coming, Going
      <4>3. ~Going(i)
        BY <2>1, <2>4, <4>2 DEF Going, Opens, Executes, Binary
      <4>4. TransitionReady(i) \notin Range(out)
        BY <4>1 DEF Answers, TransitionReady, Range
      <4> QED BY <2>1, <4>1, <4>2, <4>3, <4>4
    <3>3. offered[i] = IF m.op = "PrepareTransition" THEN 0 ELSE dave.protocol_version
      <4>1. CASE m.op = "PrepareTransition"
        BY <3>2, <4>1
      <4>2. CASE m.op # "PrepareTransition"
        <5>1. m.op \in Binary /\ m.id # 0 /\ m.id = i
          BY <2>4, <4>2 DEF Opens, Announced
        <5>2. Leads(inq, 1 - 1, dave.protocol_version, offered[i])
          BY <2>1, <5>1 DEF Agreement, VersionsRun, m
        <5>3. \A j \in 1 .. 1 - 1 : FALSE
          OBVIOUS
        <5> QED BY <4>2, <5>2, <5>3 DEF Leads
      <4> QED BY <4>1, <4>2
    <3>4. /\ Stage(i) = "announced" /\ Ordered(i) = None /\ Ordered(i)' = None
          /\ Offer(i) = offered[i] /\ Entry(i) = pending_transitions[i]
          /\ Entry(i)' = pending_transitions'[i]
      BY <1>2, <2>2, <3>2 DEF Stage, Ordered, Offer, Entry, Coming, Going
    <3>5. /\ [id \in Announced |-> Ordered(id)]' = [id \in Announced |-> Ordered(id)]
      BY <3>1, <3>4 DEF SameAt
    <3>6. CASE TransitionReady(i) \in Range(out') /\ pending_transitions'[i] = offered[i]
      <4>1. Stage(i)' = "accepted" /\ Offer(i)' = Offer(i) /\ Entry(i)' = Offer(i)
        BY <2>1, <2>2, <3>2, <3>4, <3>6 DEF Stage, Offer, Coming
      <4>2. [id \in Announced |-> Offer(id)]' = [id \in Announced |-> Offer(id)]
        BY <3>1, <4>1 DEF SameAt
      <4>3. TE!Accept(i)
        BY <1>2, <2>2, <3>1, <3>4, <3>5, <4>1, <4>2, OneMoves DEF TE!Accept, TE!Moves
      <4> QED BY <4>3
    <3>7. CASE /\ InvalidCommit(i) \in Range(out') /\ TransitionReady(i) \notin Range(out')
               /\ pending_transitions'[i] = pending_transitions[i]
      <4>1. Stage(i)' = "refused" /\ Offer(i)' = Offer(i) /\ Entry(i)' = Entry(i)
        BY <2>1, <2>2, <3>2, <3>4, <3>7 DEF Stage, Offer, Coming
      <4>2. /\ [id \in Announced |-> Offer(id)]' = [id \in Announced |-> Offer(id)]
            /\ [id \in Announced |-> Entry(id)]' = [id \in Announced |-> Entry(id)]
        BY <3>1, <4>1 DEF SameAt
      <4>3. TE!Refuse(i)
        BY <1>2, <2>2, <3>1, <3>4, <3>5, <4>1, <4>2, OneMoves DEF TE!Refuse, TE!Moves
      <4> QED BY <4>3
    <3> QED BY <2>1, <2>2, <2>4, <3>2, <3>3, <3>6, <3>7, HandlerAnswers
  <2>5. ASSUME NEW i \in Announced, Executes(m, i) PROVE TE!CarryOut(i)
    <3>1. ~Opens(m, i) /\ \A id \in Announced \ {i} : SameAt(id)
      BY <2>3, <2>5 DEF Opens, Executes, Binary
    <3>2. Going(i) /\ ~Going(i)' /\ (Coming(i)' <=> Coming(i)) /\ pending_transitions[i] # None
      <4>1. /\ pending_transitions[i] # None
            /\ \A k \in DOMAIN inq : Executes(inq[k], i) => k = 1
        BY <2>1, <2>5 DEF Agreement, Exchange, Executing, m
      <4> QED BY <2>1, <2>5, <3>1, <4>1 DEF Going, Coming
    <3>3. pending_transitions'[i] = None
      <4>1. m.op = "ExecuteTransition" /\ m.id = i /\ i \in TransitionIds
        BY <2>5 DEF Executes, Announced
      <4>2. HandleExecuteTransition(m)
        BY <2>1, <4>1 DEF Handle, HandleHello, HandleReady, HandleReadyPanics, HandleSelectProtocolAck,
            HandleResumed, HandleClientsConnect, HandleClientDisconnect, HandlePrepareTransition,
            HandlePrepareEpoch, HandleExternalSender, HandleProposals, HandleAnnounceCommit,
            HandleWelcome, HandleOther
      <4> QED BY <2>1, <4>1, <4>2 DEF HandleExecuteTransition, TypeOK
    <3>4. /\ TransitionReady(i) \in Range(out)' <=> TransitionReady(i) \in Range(out)
          /\ InvalidCommit(i) \in Range(out)' <=> InvalidCommit(i) \in Range(out)
      BY <1>2, <3>1, HandlerIsQuiet DEF m
    <3>5. Stage(i)' = Stage(i) /\ Offer(i)' = Offer(i)
      <4>1. Stage(i)' = Stage(i)
        BY <1>2, <2>1, <2>2, <3>2, <3>4 DEF Stage, Coming, TransitionReady, InvalidCommit
      <4> QED BY <2>1, <4>1 DEF Offer
    <3>6. Ordered(i) # None /\ Ordered(i)' = None /\ Entry(i)' = None
      BY <1>2, <2>2, <3>2, <3>3 DEF Ordered, Entry, Going
    <3>7. /\ [id \in Announced |-> Stage(id)]' = [id \in Announced |-> Stage(id)]
          /\ [id \in Announced |-> Offer(id)]' = [id \in Announced |-> Offer(id)]
      BY <3>1, <3>5 DEF SameAt
    <3> QED BY <1>2, <2>2, <3>1, <3>6, <3>7, OneMoves DEF TE!CarryOut
  <2>6. CASE \E i \in Announced : Opens(m, i) \/ Executes(m, i)
    BY <2>4, <2>5, <2>6 DEF TE!Next, TE!Exchange
  <2>7. CASE \A i \in Announced : ~Opens(m, i) /\ ~Executes(m, i)
    BY <2>2, <2>3, <2>7, SameMap
  <2> QED BY <2>6, <2>7
<1> QED BY <1>1, <1>2

-----------------------------------------------------------------------------
(* The other steps end the link, or there was none.                        *)

LEMMA LocalRefines == SInv /\ (Local \/ Replace) => [TE!Next]_TE!vars
<1> SUFFICES ASSUME SInv, Local \/ Replace PROVE ~Linked'
  BY BreakRefines
<1>1. CASE Replace
  BY <1>1 DEF Replace, Linked, InSession
<1>2. CASE Local
  <2>1. loop = "new" => ~greeted
    BY DEF SInv, Ungreeted
  <2> QED BY <1>2, <2>1 DEF Local, SetSession, SetTokens, Connect, Start, Close, WriterFail,
                 WriterExit, writerFrame, gatewayVars, Linked, InSession
<1> QED BY <1>1, <1>2

LEMMA ExchangeRefines == SInv /\ [SessionNext]_allVars => [TE!Next]_TE!vars
<1> SUFFICES ASSUME SInv, [SessionNext]_allVars PROVE [TE!Next]_TE!vars
  OBVIOUS
<1>1. CASE UNCHANGED allVars
  <2>1. UNCHANGED <<loop, writer, status, greeted, phase, offered, inq, out, pending_transitions>>
    BY <1>1 DEF allVars, vars, gatewayVars
  <2>2. Linked' = Linked
    BY <2>1 DEF Linked, InSession
  <2>3. \A id \in Announced : SameAt(id)
    BY <2>1, <2>2 DEF SameAt, Stage, Offer, Entry, Ordered
  <2> QED BY <2>2, <2>3, SameMap
<1> QED BY <1>1, GatewayRefines, UpRefines, DownRefines, LocalRefines DEF SessionNext

LEMMA InitExchange == SessionInit => TE!Init
<1> SUFFICES ASSUME SessionInit PROVE TE!Init
  OBVIOUS
<1>1. ~Linked
  BY DEF SessionInit, Init, Linked, InSession
<1> QED BY <1>1, Unlinked DEF TE!Init

(* The connection and the gateway implement TransitionExchange: every       *)
(* transition the gateway announces is acknowledged or refused, and one    *)
(* that is acknowledged is kept as it was announced until its execution    *)
(* arrives, before which its id is not taken up again (connection.rs:350,  *)
(* 434, 460, 494).                                                         *)
THEOREM ImplementsExchange == SessionSpec => ExchangeSpec
<1> QED BY InitExchange, ExchangeRefines, SessionInvariance, PTL DEF SessionSpec, ExchangeSpec, TE!Spec

-----------------------------------------------------------------------------
(* What follows from the promises of TransitionExchange alone.              *)

\* The entry of one transition, with what its exchange is at.
EntryRight(id) ==
    IF Stage(id) \in {"accepted", "agreed"}
    THEN Entry(id) = Offer(id) /\ Ordered(id) = None
    ELSE Entry(id) = Ordered(id)

LEMMA EntriesRightPointwise == EntriesRight <=> \A id \in Announced : EntryRight(id)
BY DEF EntriesRight, TE!EntriesRight, EntryRight

LEMMA UntouchedEntry ==
    ASSUME NEW id, EntryRight(id), SameAt(id)
    PROVE  EntryRight(id)'
BY DEF EntryRight, SameAt

LEMMA MovedStage ==
    ASSUME NEW i \in Announced, NEW from, NEW to, TE!Moves(i, from, to)
    PROVE  /\ Stage(i) = from /\ Stage(i)' = to
           /\ \A id \in Announced : id # i => Stage(id)' = Stage(id)
<1>1. PICK st : st = [id \in Announced |-> Stage(id)]
  OBVIOUS
<1>2. /\ st[i] = from
      /\ [id \in Announced |-> Stage(id)]' = [st EXCEPT ![i] = to]
  BY <1>1 DEF TE!Moves
<1>3. \A id \in Announced : st[id] = Stage(id) /\ Stage(id)' = [st EXCEPT ![i] = to][id]
  BY <1>1, <1>2
<1> QED BY <1>1, <1>2, <1>3

LEMMA SameEntries ==
    /\ [id \in Announced |-> Stage(id)]' = [id \in Announced |-> Stage(id)]
          => \A id \in Announced : Stage(id)' = Stage(id)
    /\ [id \in Announced |-> Offer(id)]' = [id \in Announced |-> Offer(id)]
          => \A id \in Announced : Offer(id)' = Offer(id)
    /\ [id \in Announced |-> Entry(id)]' = [id \in Announced |-> Entry(id)]
          => \A id \in Announced : Entry(id)' = Entry(id)
    /\ [id \in Announced |-> Ordered(id)]' = [id \in Announced |-> Ordered(id)]
          => \A id \in Announced : Ordered(id)' = Ordered(id)
<1>1. PICK st : st = [id \in Announced |-> Stage(id)]
  OBVIOUS
<1>2. PICK of : of = [id \in Announced |-> Offer(id)]
  OBVIOUS
<1>3. PICK en : en = [id \in Announced |-> Entry(id)]
  OBVIOUS
<1>4. PICK od : od = [id \in Announced |-> Ordered(id)]
  OBVIOUS
<1>5. \A id \in Announced : /\ st[id] = Stage(id) /\ of[id] = Offer(id)
                            /\ en[id] = Entry(id) /\ od[id] = Ordered(id)
  BY <1>1, <1>2, <1>3, <1>4
<1>6. [id \in Announced |-> Stage(id)]' = st => \A id \in Announced : Stage(id)' = st[id]
  OBVIOUS
<1>7. [id \in Announced |-> Offer(id)]' = of => \A id \in Announced : Offer(id)' = of[id]
  OBVIOUS
<1>8. [id \in Announced |-> Entry(id)]' = en => \A id \in Announced : Entry(id)' = en[id]
  OBVIOUS
<1>9. [id \in Announced |-> Ordered(id)]' = od => \A id \in Announced : Ordered(id)' = od[id]
  OBVIOUS
<1> QED BY <1>1, <1>2, <1>3, <1>4, <1>5, <1>6, <1>7, <1>8, <1>9

LEMMA OneEntry ==
    ASSUME NEW i \in Announced, NEW v
    PROVE  /\ [id \in Announced |-> Offer(id)]' = [[id \in Announced |-> Offer(id)] EXCEPT ![i] = v]
                 => Offer(i)' = v /\ \A id \in Announced : id # i => Offer(id)' = Offer(id)
           /\ [id \in Announced |-> Entry(id)]' = [[id \in Announced |-> Entry(id)] EXCEPT ![i] = v]
                 => Entry(i)' = v /\ \A id \in Announced : id # i => Entry(id)' = Entry(id)
           /\ [id \in Announced |-> Ordered(id)]'
                     = [[id \in Announced |-> Ordered(id)] EXCEPT ![i] = v]
                 => Ordered(i)' = v /\ \A id \in Announced : id # i => Ordered(id)' = Ordered(id)
<1>1. PICK of : of = [id \in Announced |-> Offer(id)]
  OBVIOUS
<1>2. PICK en : en = [id \in Announced |-> Entry(id)]
  OBVIOUS
<1>3. PICK od : od = [id \in Announced |-> Ordered(id)]
  OBVIOUS
<1>4. \A id \in Announced : of[id] = Offer(id) /\ en[id] = Entry(id) /\ od[id] = Ordered(id)
  BY <1>1, <1>2, <1>3
<1>5. [id \in Announced |-> Offer(id)]' = [of EXCEPT ![i] = v]
         => \A id \in Announced : Offer(id)' = IF id = i THEN v ELSE of[id]
  BY <1>1
<1>6. [id \in Announced |-> Entry(id)]' = [en EXCEPT ![i] = v]
         => \A id \in Announced : Entry(id)' = IF id = i THEN v ELSE en[id]
  BY <1>2
<1>7. [id \in Announced |-> Ordered(id)]' = [od EXCEPT ![i] = v]
         => \A id \in Announced : Ordered(id)' = IF id = i THEN v ELSE od[id]
  BY <1>3
<1> QED BY <1>1, <1>2, <1>3, <1>4, <1>5, <1>6, <1>7

LEMMA EntriesStep == EntriesRight /\ [TE!Next]_TE!vars => EntriesRight'
<1> SUFFICES ASSUME EntriesRight, [TE!Next]_TE!vars PROVE EntriesRight'
  OBVIOUS
<1>1. \A id \in Announced : EntryRight(id)
  BY EntriesRightPointwise
<1>2. ASSUME \A id \in Announced : EntryRight(id)' PROVE EntriesRight'
  BY <1>2 DEF EntriesRight, TE!EntriesRight, EntryRight
<1>3. CASE UNCHANGED TE!vars \/ TE!Open
  <2>1. \A id \in Announced : SameAt(id)
    BY <1>3, SameEntries DEF TE!vars, TE!Open, SameAt
  <2> QED BY <1>1, <1>2, <2>1, UntouchedEntry
<1>4. CASE TE!Break
  <2>1. TE!Void'
    BY <1>4 DEF TE!Break
  <2>2. ASSUME NEW id \in Announced
        PROVE  Stage(id)' = "idle" /\ Entry(id)' = None /\ Ordered(id)' = None
    <3>1. /\ [i \in Announced |-> Stage(i)]' = [i \in Announced |-> "idle"]
          /\ [i \in Announced |-> Entry(i)]' = [i \in Announced |-> None]
          /\ [i \in Announced |-> Ordered(i)]' = [i \in Announced |-> None]
      BY <2>1 DEF TE!Void, TE!Nothing
    <3>2. [i \in Announced |-> Stage(i)]'[id] = "idle"
      BY <3>1
    <3>3. [i \in Announced |-> Entry(i)]'[id] = None
      BY <3>1
    <3>4. [i \in Announced |-> Ordered(i)]'[id] = None
      BY <3>1
    <3> QED BY <3>2, <3>3, <3>4
  <2> QED BY <1>2, <2>2 DEF EntryRight
<1>5. ASSUME NEW i \in Announced, TE!Exchange(i) PROVE EntriesRight'
  <2>1. EntryRight(i)
    BY <1>1
  <2>2. ASSUME EntryRight(i)', \A id \in Announced : id # i => SameAt(id) PROVE EntriesRight'
    BY <1>1, <1>2, <2>2, UntouchedEntry
  <2>3. CASE TE!Announce(i) \/ TE!Refuse(i) \/ TE!Agree(i) \/ TE!Withdraw(i)
    <3>1. /\ Entry(i)' = Entry(i) /\ Ordered(i)' = Ordered(i)
          /\ \A id \in Announced : Entry(id)' = Entry(id) /\ Ordered(id)' = Ordered(id)
          /\ \A id \in Announced : id # i => Offer(id)' = Offer(id)
      BY <2>3, SameEntries, OneEntry DEF TE!Announce, TE!Refuse, TE!Agree, TE!Withdraw
    <3>2. /\ \A id \in Announced : id # i => Stage(id)' = Stage(id)
          /\ \/ Stage(i) \notin {"accepted", "agreed"} /\ Stage(i)' \notin {"accepted", "agreed"}
             \/ /\ Stage(i) = "accepted" /\ Stage(i)' = "agreed"
                /\ Offer(i)' = Offer(i)
      BY <2>3, MovedStage, SameEntries DEF TE!Announce, TE!Refuse, TE!Agree, TE!Withdraw
    <3>3. EntryRight(i)'
      BY <2>1, <3>1, <3>2 DEF EntryRight
    <3> QED BY <2>2, <3>1, <3>2, <3>3 DEF SameAt
  <2>4. CASE TE!Accept(i)
    <3>1. /\ Stage(i) = "announced" /\ Stage(i)' = "accepted"
          /\ \A id \in Announced : id # i => Stage(id)' = Stage(id)
      BY <2>4, MovedStage DEF TE!Accept
    <3>2. \A id \in Announced : Offer(id)' = Offer(id) /\ Ordered(id)' = Ordered(id)
      BY <2>4, SameEntries DEF TE!Accept
    <3>3. Entry(i)' = Offer(i) /\ \A id \in Announced : id # i => Entry(id)' = Entry(id)
      <4>1. [id \in Announced |-> Entry(id)]'
              = [[id \in Announced |-> Entry(id)] EXCEPT ![i] = Offer(i)]
        BY <2>4 DEF TE!Accept
      <4> QED BY <4>1, OneEntry
    <3>4. Ordered(i) = None
      BY <2>4 DEF TE!Accept
    <3>5. EntryRight(i)'
      BY <3>1, <3>2, <3>3, <3>4 DEF EntryRight
    <3> QED BY <2>2, <3>1, <3>2, <3>3, <3>5 DEF SameAt
  <2>5. CASE TE!Order(i)
    <3>1. /\ Stage(i) = "agreed" /\ Stage(i)' = "idle"
          /\ \A id \in Announced : id # i => Stage(id)' = Stage(id)
      BY <2>5, MovedStage DEF TE!Order
    <3>2. /\ \A id \in Announced : Entry(id)' = Entry(id)
          /\ \A id \in Announced : id # i => Offer(id)' = Offer(id)
      BY <2>5, SameEntries, OneEntry DEF TE!Order
    <3>3. Ordered(i)' = Offer(i) /\ \A id \in Announced : id # i => Ordered(id)' = Ordered(id)
      <4>1. [id \in Announced |-> Ordered(id)]'
              = [[id \in Announced |-> Ordered(id)] EXCEPT ![i] = Offer(i)]
        BY <2>5 DEF TE!Order
      <4> QED BY <4>1, OneEntry
    <3>4. EntryRight(i)'
      BY <2>1, <3>1, <3>2, <3>3 DEF EntryRight
    <3> QED BY <2>2, <3>1, <3>2, <3>3, <3>4 DEF SameAt
  <2>6. CASE TE!CarryOut(i)
    <3>1. /\ \A id \in Announced : Stage(id)' = Stage(id) /\ Offer(id)' = Offer(id)
          /\ Entry(i)' = None /\ Ordered(i)' = None
          /\ \A id \in Announced : id # i => Entry(id)' = Entry(id) /\ Ordered(id)' = Ordered(id)
      BY <2>6, SameEntries, OneEntry DEF TE!CarryOut
    <3>2. Ordered(i) # None
      BY <2>6 DEF TE!CarryOut
    <3>3. EntryRight(i)'
      BY <2>1, <3>1, <3>2 DEF EntryRight
    <3> QED BY <2>2, <3>1, <3>3 DEF SameAt
  <2> QED BY <1>5, <2>3, <2>4, <2>5, <2>6 DEF TE!Exchange
<1> QED BY <1>3, <1>4, <1>5 DEF TE!Next

(* pending_transitions holds the transitions that are acknowledged or being *)
(* executed and nothing else, at the version each was announced with: no   *)
(* commit that failed and no execution leaves an entry behind              *)
(* (connection.rs:442, 467, 494).                                          *)
THEOREM EntriesAreRight == SessionSpec => []EntriesRight
<1>1. TE!Init => EntriesRight
  BY DEF TE!Init, TE!Void, TE!Nothing, EntriesRight, TE!EntriesRight
<1> QED BY <1>1, ImplementsExchange, EntriesStep, PTL DEF ExchangeSpec, TE!Spec
=============================================================================
