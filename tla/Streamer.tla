------------------------------- MODULE Streamer -------------------------------
(***************************************************************************)
(* The controller (src/src/gateway/streamer.rs): it owns the current voice  *)
(* connection, asks Discord's main gateway for a voice channel, and feeds   *)
(* the connection the credentials that come back as two events.             *)
(*                                                                          *)
(* The caller owns the main gateway's WebSocket, so the gateway is modelled *)
(* from what the code sends and expects: it answers each voice state with   *)
(* the bot's VOICE_STATE_UPDATE and, for a channel, a VOICE_SERVER_UPDATE,  *)
(* in either order and possibly after the caller has moved on.              *)
(*                                                                          *)
(* Of the connection, VoiceConnection's before start, only what decides     *)
(* can_start is kept: whose session it was given, and the guild its server  *)
(* and token are for.                                                       *)
(***************************************************************************)
EXTENDS Naturals, Sequences

CONSTANTS
    Channels,   \* voice channels
    GuildOf,    \* the guild each channel belongs to
    Bot, Other, \* the bot and another user
    None,
    MaxJoins,   \* bound: calls of join_voice
    MaxLeaves,  \* bound: calls of leave_voice
    MaxNoise    \* bound: events about others the gateway sends

Guilds == {GuildOf[c] : c \in Channels}

ASSUME ChannelsAssumption == None \notin Channels /\ None \notin Guilds
ASSUME UsersAssumption == Bot # Other /\ None \notin {Bot, Other}
ASSUME BoundsAssumption == {MaxJoins, MaxLeaves, MaxNoise} \subseteq Nat

VARIABLES
    voice_connection,  \* None, or the connection behind the Arc<Mutex<..>>
    joined,            \* connections made so far, which numbers them
    leaves,            \* calls of leave_voice so far, for the bound
    tasks,             \* connections a spawned "ready to start" task still holds
    ready,             \* history: connections such a task was spawned for
    outbox,            \* payloads on gateway_tx the gateway has not read
    announced,         \* history: the channel last announced on gateway_tx
    inbox,             \* events the caller has not fed to handle_event
    noise              \* events about others so far, for the bound

vars == <<voice_connection, joined, leaves, tasks, ready, outbox, announced, inbox, noise>>

Connection == [id : 1 .. MaxJoins, channel : Channels,
               session : {Bot, Other, None}, tokens : Guilds \cup {None}]

ASSUME NoneAssumption == None \notin Connection

Event ==
    [type : {"VoiceStateUpdate"}, user : {Bot, Other}]
    \cup [type : {"VoiceServerUpdate"}, guild : Guilds]
    \cup [type : {"StreamEvent"}]

Init ==
    /\ voice_connection = None
    /\ joined = 0
    /\ leaves = 0
    /\ tasks = {}
    /\ ready = {}
    /\ outbox = <<>>
    /\ announced = None
    /\ inbox = <<>>
    /\ noise = 0

-----------------------------------------------------------------------------
(* The public API.                                                         *)

\* signal_video and signal_leave_voice: the op 4 payload, by its channel.
Signal(channel) ==
    /\ outbox' = Append(outbox, channel)
    /\ announced' = channel

\* A connection there is already is dropped, not left.
JoinVoice(c) ==
    /\ joined < MaxJoins
    /\ joined' = joined + 1
    /\ voice_connection' = [id |-> joined + 1, channel |-> c, session |-> None, tokens |-> None]
    /\ Signal(c)
    /\ UNCHANGED <<leaves, tasks, ready, inbox, noise>>

\* Drops the connection without a word to the gateway.
MutantLeaveVoice ==
    /\ leaves < MaxLeaves
    /\ leaves' = leaves + 1
    /\ voice_connection' = None
    /\ UNCHANGED <<joined, tasks, ready, outbox, announced, inbox, noise>>

\* leave_voice announces the departure even when there is no connection.
LeaveVoice ==
    /\ leaves < MaxLeaves
    /\ leaves' = leaves + 1
    /\ voice_connection' = None
    /\ Signal(None)
    /\ UNCHANGED <<joined, tasks, ready, inbox, noise>>

-----------------------------------------------------------------------------
(* handle_event.                                                           *)

Take(type) ==
    /\ inbox # <<>>
    /\ Head(inbox).type = type
    /\ inbox' = Tail(inbox)
    /\ UNCHANGED <<joined, leaves, outbox, announced, noise>>

(* Only the bot's own state matters.  Whether the connection could start   *)
(* now is not asked.                                                       *)
HandleVoiceStateUpdate ==
    /\ Take("VoiceStateUpdate")
    /\ voice_connection' =
          IF Head(inbox).user = Bot /\ voice_connection # None
          THEN [voice_connection EXCEPT !.session = Bot] ELSE voice_connection
    /\ UNCHANGED <<tasks, ready>>

\* Either credential will do.
MutantCanStart(vc) == vc.session # None \/ vc.tokens # None

CanStart(vc) == vc.session # None /\ vc.tokens # None

\* Credits an update that comes without a connection to the next one.
MutantVoiceServerUpdate ==
    /\ Take("VoiceServerUpdate")
    /\ IF voice_connection = None
       THEN ready' = ready \cup {joined + 1} /\ UNCHANGED <<voice_connection, tasks>>
       ELSE LET vc == [voice_connection EXCEPT !.tokens = Head(inbox).guild] IN
            /\ voice_connection' = vc
            /\ IF CanStart(vc)
               THEN tasks' = tasks \cup {vc.id} /\ ready' = ready \cup {vc.id}
               ELSE UNCHANGED <<tasks, ready>>

\* Keeps the tokens it has.
MutantFirstTokens ==
    /\ Take("VoiceServerUpdate")
    /\ IF voice_connection = None \/ voice_connection.tokens # None
       THEN UNCHANGED <<voice_connection, tasks, ready>>
       ELSE LET vc == [voice_connection EXCEPT !.tokens = Head(inbox).guild] IN
            /\ voice_connection' = vc
            /\ IF CanStart(vc)
               THEN tasks' = tasks \cup {vc.id} /\ ready' = ready \cup {vc.id}
               ELSE UNCHANGED <<tasks, ready>>

(* The tokens are taken whatever guild they are for.  With both            *)
(* credentials a task is spawned that holds the connection and logs that   *)
(* it is ready; it does not start it.                                      *)
HandleVoiceServerUpdate ==
    /\ Take("VoiceServerUpdate")
    /\ IF voice_connection = None
       THEN UNCHANGED <<voice_connection, tasks, ready>>
       ELSE LET vc == [voice_connection EXCEPT !.tokens = Head(inbox).guild] IN
            /\ voice_connection' = vc
            /\ IF CanStart(vc)
               THEN tasks' = tasks \cup {vc.id} /\ ready' = ready \cup {vc.id}
               ELSE UNCHANGED <<tasks, ready>>

(* STREAM_CREATE and STREAM_SERVER_UPDATE write to stream_connection, which *)
(* nothing in the crate sets and nobody else can reach.                     *)
HandleStreamEvent ==
    /\ Take("StreamEvent")
    /\ UNCHANGED <<voice_connection, tasks, ready>>

\* The spawned task locks the connection, logs and drops its clone.
TaskEnds(id) ==
    /\ id \in tasks
    /\ tasks' = tasks \ {id}
    /\ UNCHANGED <<voice_connection, joined, leaves, ready, outbox, announced, inbox, noise>>

-----------------------------------------------------------------------------
(* Discord's main gateway.                                                 *)

StateUpdate(u) == [type |-> "VoiceStateUpdate", user |-> u]
ServerUpdate(g) == [type |-> "VoiceServerUpdate", guild |-> g]

MainGatewayAnswers ==
    /\ outbox # <<>>
    /\ outbox' = Tail(outbox)
    /\ LET c == Head(outbox) IN
       inbox' \in IF c = None THEN {Append(inbox, StateUpdate(Bot))}
                  ELSE {inbox \o <<StateUpdate(Bot), ServerUpdate(GuildOf[c])>>,
                        inbox \o <<ServerUpdate(GuildOf[c]), StateUpdate(Bot)>>}
    /\ UNCHANGED <<voice_connection, joined, leaves, tasks, ready, announced, noise>>

\* Other users move, other applications stream.
MainGatewayNoise ==
    /\ noise < MaxNoise
    /\ noise' = noise + 1
    /\ \E e \in {StateUpdate(Other), [type |-> "StreamEvent"]} : inbox' = Append(inbox, e)
    /\ UNCHANGED <<voice_connection, joined, leaves, tasks, ready, outbox, announced>>

-----------------------------------------------------------------------------
Next ==
    \/ \E c \in Channels : JoinVoice(c)
    \/ LeaveVoice
    \/ HandleVoiceStateUpdate
    \/ HandleVoiceServerUpdate
    \/ HandleStreamEvent
    \/ \E id \in tasks : TaskEnds(id)
    \/ MainGatewayAnswers
    \/ MainGatewayNoise

Spec == Init /\ [][Next]_vars

-----------------------------------------------------------------------------
(* Properties.                                                             *)

TypeOK ==
    /\ voice_connection \in Connection \cup {None}
    /\ joined \in 0 .. MaxJoins /\ leaves \in 0 .. MaxLeaves
    /\ tasks \subseteq 1 .. joined /\ ready \subseteq 1 .. joined
    /\ outbox \in Seq(Channels \cup {None})
    /\ announced \in Channels \cup {None}
    /\ inbox \in Seq(Event)
    /\ noise \in 0 .. MaxNoise

(* Once the main gateway has answered everything and the caller has fed    *)
(* every answer in, the connection has the bot's own session and a server   *)
(* of its own guild, whatever earlier joins, leaves and moves of others     *)
(* were answered in between.                                               *)
SettledCredentials ==
    voice_connection # None /\ outbox = <<>> /\ inbox = <<>> =>
        /\ voice_connection.session = Bot
        /\ voice_connection.tokens = GuildOf[voice_connection.channel]

(* What the main gateway was last told is where the Streamer is: it holds  *)
(* a connection for exactly the channel it announced (streamer.rs:64, 173). *)
AnnouncedIsHeld ==
    announced = (IF voice_connection = None THEN None ELSE voice_connection.channel)

(* A connection was called ready to start only with both credentials, and  *)
(* keeps them while the task that says so is on its way.                   *)
ReadyHasCredentials ==
    voice_connection # None /\ voice_connection.id \in ready
        => voice_connection.session # None /\ voice_connection.tokens # None

(* "Ignore events for other guilds/channels" (streamer.rs:100): the server *)
(* and token a connection holds are for its own guild.                     *)
TokensForOurGuild ==
    voice_connection # None =>
        voice_connection.tokens \in {None, GuildOf[voice_connection.channel]}
=============================================================================
