---------------------------- MODULE Streamer_proofs ----------------------------
(***************************************************************************)
(* What is proved of Streamer for any channels, guilds and bounds: where    *)
(* the controller is, and that the credentials of its connection settle.   *)
(***************************************************************************)
EXTENDS Streamer, Integers, TLAPS

-----------------------------------------------------------------------------
(* What is on its way in the inbox.                                        *)

Has(q, e) == \E i \in DOMAIN q : q[i] = e

IsServer(e) == e.type = "VoiceServerUpdate"

NoServer(q) == \A i \in DOMAIN q : ~IsServer(q[i])

\* The last server update of q is for guild g.
LastServer(q, g) ==
    \E i \in DOMAIN q :
        /\ q[i] = ServerUpdate(g)
        /\ \A j \in DOMAIN q : i < j => ~IsServer(q[j])

LEMMA EventFacts ==
    /\ \A u \in {Bot, Other} : StateUpdate(u) \in Event /\ ~IsServer(StateUpdate(u))
    /\ \A g \in Guilds : ServerUpdate(g) \in Event
    /\ \A e \in Event : e.type = "VoiceServerUpdate" => e = ServerUpdate(e.guild) /\ e.guild \in Guilds
    /\ \A e \in Event : e.type = "VoiceStateUpdate" => e = StateUpdate(e.user) /\ e.user \in {Bot, Other}
    /\ \A g, h : ServerUpdate(g) = ServerUpdate(h) => g = h
<1>1. \A u \in {Bot, Other} : StateUpdate(u) \in Event /\ ~IsServer(StateUpdate(u))
  BY DEF StateUpdate, Event, IsServer
<1>2. \A g \in Guilds : ServerUpdate(g) \in Event
  BY DEF ServerUpdate, Event
<1>3. \A e \in Event : e.type = "VoiceServerUpdate" => e = ServerUpdate(e.guild) /\ e.guild \in Guilds
  BY DEF ServerUpdate, Event
<1>4. \A e \in Event : e.type = "VoiceStateUpdate" => e = StateUpdate(e.user) /\ e.user \in {Bot, Other}
  BY DEF StateUpdate, Event
<1>5. ASSUME NEW g, NEW h, ServerUpdate(g) = ServerUpdate(h) PROVE g = h
  <2>1. ServerUpdate(g).guild = g /\ ServerUpdate(h).guild = h
    BY DEF ServerUpdate
  <2> QED BY <1>5, <2>1
<1> QED BY <1>1, <1>2, <1>3, <1>4, <1>5

\* What is taken from the inbox, and what stays.
LEMMA TakeFacts ==
    ASSUME NEW q \in Seq(Event), q # <<>>
    PROVE  /\ Head(q) \in Event
           /\ Tail(q) \in Seq(Event)
           /\ \A e : Has(q, e) => Has(Tail(q), e) \/ Head(q) = e
           /\ NoServer(q) => NoServer(Tail(q)) /\ ~IsServer(Head(q))
           /\ \A g : LastServer(q, g) =>
                  \/ LastServer(Tail(q), g)
                  \/ Head(q) = ServerUpdate(g) /\ NoServer(Tail(q))
<1> DEFINE p == Tail(q)
<1>1. /\ Head(q) = q[1] /\ Head(q) \in Event
      /\ p \in Seq(Event) /\ DOMAIN p = 1 .. Len(q) - 1
      /\ \A i \in 1 .. Len(q) - 1 : p[i] = q[i + 1]
      /\ DOMAIN q = 1 .. Len(q) /\ Len(q) \in Nat /\ Len(q) > 0
  OBVIOUS
<1> HIDE DEF p
<1>2. ASSUME NEW i \in DOMAIN p PROVE i \in Int /\ i + 1 \in DOMAIN q /\ 1 < i + 1 /\ p[i] = q[i + 1]
  <2>1. i \in 1 .. Len(q) - 1
    BY <1>1
  <2>2. i \in Int /\ i + 1 \in 1 .. Len(q) /\ 1 < i + 1
    BY <1>1, <2>1
  <2> QED BY <1>1, <2>1, <2>2
<1>3. ASSUME NEW i \in DOMAIN q, i # 1 PROVE i - 1 \in DOMAIN p /\ p[i - 1] = q[i] /\ i \in Int
  <2>1. i \in 1 .. Len(q) /\ i - 1 \in 1 .. Len(q) - 1 /\ (i - 1) + 1 = i
    BY <1>1, <1>3
  <2> QED BY <1>1, <2>1
<1>4. ASSUME NEW e, Has(q, e) PROVE Has(p, e) \/ Head(q) = e
  <2>1. PICK i \in DOMAIN q : q[i] = e
    BY <1>4 DEF Has
  <2>2. CASE i = 1
    BY <1>1, <2>1, <2>2
  <2>3. CASE i # 1
    BY <1>3, <2>1, <2>3 DEF Has
  <2> QED BY <2>2, <2>3
<1>5. ASSUME NoServer(q) PROVE NoServer(p) /\ ~IsServer(Head(q))
  <2>1. NoServer(p)
    BY <1>2, <1>5 DEF NoServer
  <2>2. 1 \in DOMAIN q
    BY <1>1
  <2> QED BY <1>1, <1>5, <2>1, <2>2 DEF NoServer
<1>6. ASSUME NEW g, LastServer(q, g)
      PROVE  LastServer(p, g) \/ (Head(q) = ServerUpdate(g) /\ NoServer(p))
  <2>1. PICK i \in DOMAIN q : /\ q[i] = ServerUpdate(g)
                              /\ \A j \in DOMAIN q : i < j => ~IsServer(q[j])
    BY <1>6 DEF LastServer
  <2>2. CASE i = 1
    <3>1. NoServer(p)
      BY <1>2, <2>1, <2>2 DEF NoServer
    <3> QED BY <1>1, <2>1, <2>2, <3>1
  <2>3. CASE i # 1
    <3>1. i - 1 \in DOMAIN p /\ p[i - 1] = ServerUpdate(g) /\ i \in Int
      BY <1>3, <2>1, <2>3
    <3>2. ASSUME NEW j \in DOMAIN p, i - 1 < j PROVE ~IsServer(p[j])
      <4>1. j + 1 \in DOMAIN q /\ p[j] = q[j + 1] /\ i < j + 1
        BY <1>2, <3>1, <3>2
      <4> QED BY <2>1, <4>1
    <3> QED BY <3>1, <3>2 DEF LastServer
  <2> QED BY <2>2, <2>3
<1> QED BY <1>1, <1>4, <1>5, <1>6 DEF p

\* An event about something else changes nothing of what is on its way.
LEMMA AppendFacts ==
    ASSUME NEW q \in Seq(Event), NEW e \in Event, ~IsServer(e)
    PROVE  /\ Append(q, e) \in Seq(Event) /\ Append(q, e) # <<>>
           /\ \A x : Has(q, x) => Has(Append(q, e), x)
           /\ NoServer(q) => NoServer(Append(q, e))
           /\ \A g : LastServer(q, g) => LastServer(Append(q, e), g)
<1> DEFINE p == Append(q, e)
<1>1. /\ p \in Seq(Event) /\ DOMAIN p = 1 .. Len(q) + 1 /\ Len(p) = Len(q) + 1
      /\ \A i \in 1 .. Len(q) : p[i] = q[i]
      /\ p[Len(q) + 1] = e
      /\ DOMAIN q = 1 .. Len(q) /\ Len(q) \in Nat
  OBVIOUS
<1> HIDE DEF p
<1>2. ASSUME NEW i \in DOMAIN q PROVE i \in DOMAIN p /\ p[i] = q[i]
  BY <1>1
<1>3. ASSUME NEW i \in DOMAIN p PROVE (i \in DOMAIN q /\ p[i] = q[i]) \/ p[i] = e
  <2>1. i \in 1 .. Len(q) \/ i = Len(q) + 1
    BY <1>1
  <2> QED BY <1>1, <2>1
<1>4. p # <<>>
  BY <1>1
<1>5. ASSUME NEW x, Has(q, x) PROVE Has(p, x)
  BY <1>2, <1>5 DEF Has
<1>6. NoServer(q) => NoServer(p)
  BY <1>3 DEF NoServer
<1>7. ASSUME NEW g, LastServer(q, g) PROVE LastServer(p, g)
  <2>1. PICK i \in DOMAIN q : /\ q[i] = ServerUpdate(g)
                              /\ \A j \in DOMAIN q : i < j => ~IsServer(q[j])
    BY <1>7 DEF LastServer
  <2>2. \A j \in DOMAIN p : i < j => ~IsServer(p[j])
    BY <1>3, <2>1
  <2> QED BY <1>2, <2>1, <2>2 DEF LastServer
<1> QED BY <1>1, <1>4, <1>5, <1>6, <1>7 DEF p

\* The two answers to a channel bring both credentials, in either order.
LEMMA AnswerFacts ==
    ASSUME NEW q \in Seq(Event), NEW g \in Guilds, NEW p,
           p \in {q \o <<StateUpdate(Bot), ServerUpdate(g)>>,
                  q \o <<ServerUpdate(g), StateUpdate(Bot)>>}
    PROVE  p \in Seq(Event) /\ Has(p, StateUpdate(Bot)) /\ LastServer(p, g)
<1>1. PICK a \in Event, b \in Event :
          /\ p = q \o <<a, b>>
          /\ \/ a = StateUpdate(Bot) /\ b = ServerUpdate(g)
             \/ a = ServerUpdate(g) /\ b = StateUpdate(Bot)
  BY EventFacts
<1>2. /\ p \in Seq(Event) /\ DOMAIN p = 1 .. Len(q) + 2
      /\ p[Len(q) + 1] = a /\ p[Len(q) + 2] = b /\ Len(q) \in Nat
  BY <1>1
<1>3. Len(q) + 1 \in DOMAIN p /\ Len(q) + 2 \in DOMAIN p
  BY <1>2
<1>4. Has(p, StateUpdate(Bot))
  BY <1>1, <1>2, <1>3 DEF Has
<1>5. CASE a = StateUpdate(Bot) /\ b = ServerUpdate(g)
  <2>1. \A j \in DOMAIN p : ~(Len(q) + 2 < j)
    BY <1>2
  <2> QED BY <1>2, <1>3, <1>4, <1>5, <2>1 DEF LastServer
<1>6. CASE a = ServerUpdate(g) /\ b = StateUpdate(Bot)
  <2>1. \A j \in DOMAIN p : Len(q) + 1 < j => j = Len(q) + 2
    BY <1>2
  <2>2. ~IsServer(b)
    BY <1>6, EventFacts
  <2>3. \A j \in DOMAIN p : Len(q) + 1 < j => ~IsServer(p[j])
    BY <1>2, <2>1, <2>2
  <2> QED BY <1>2, <1>3, <1>4, <1>6, <2>3 DEF LastServer
<1> QED BY <1>1, <1>5, <1>6

\* What the main gateway read of the outbox, and what it has still to read.
LEMMA OutboxFacts ==
    ASSUME NEW S, NEW q \in Seq(S)
    PROVE  /\ \A c \in S : /\ Append(q, c) \in Seq(S) /\ Append(q, c) # <<>>
                         /\ Append(q, c)[Len(Append(q, c))] = c
           /\ q # <<>> =>
                 /\ Head(q) \in S /\ Tail(q) \in Seq(S)
                 /\ Tail(q) = <<>> => Head(q) = q[Len(q)]
                 /\ Tail(q) # <<>> => Tail(q)[Len(Tail(q))] = q[Len(q)]
OBVIOUS

-----------------------------------------------------------------------------
(* The inductive invariant.                                                *)

\* Connections are numbered as they are made.
Numbered == voice_connection # None => voice_connection.id \in 1 .. joined

\* The channel the main gateway reads last is the one announced last.
OutboxLast == outbox # <<>> => outbox[Len(outbox)] = announced

\* The connection has the bot's session, or it is on its way.
SessionComing ==
    voice_connection # None =>
        \/ outbox # <<>>
        \/ Has(inbox, StateUpdate(Bot))
        \/ voice_connection.session = Bot

OurGuild == GuildOf[voice_connection.channel]

\* The last tokens the connection gets, or has got, are for its guild.
TokensComing ==
    voice_connection # None =>
        \/ outbox # <<>>
        \/ LastServer(inbox, OurGuild)
        \/ NoServer(inbox) /\ voice_connection.tokens = OurGuild

IInv ==
    /\ TypeOK
    /\ AnnouncedIsHeld
    /\ Numbered
    /\ ReadyHasCredentials
    /\ OutboxLast
    /\ SessionComing
    /\ TokensComing

\* A connection's fields.
LEMMA ConnectionFacts ==
    ASSUME NEW vc \in Connection
    PROVE  /\ vc # None
           /\ vc.id \in 1 .. MaxJoins /\ vc.channel \in Channels /\ vc.channel # None
           /\ GuildOf[vc.channel] \in Guilds
           /\ \A u \in {Bot, Other} : LET n == [vc EXCEPT !.session = u] IN
                 /\ n \in Connection /\ n.id = vc.id /\ n.channel = vc.channel
                 /\ n.session = u /\ n.tokens = vc.tokens
           /\ \A g \in Guilds : LET n == [vc EXCEPT !.tokens = g] IN
                 /\ n \in Connection /\ n.id = vc.id /\ n.channel = vc.channel
                 /\ n.session = vc.session /\ n.tokens = g
BY NoneAssumption, ChannelsAssumption DEF Connection, Guilds

LEMMA InitIInv == Init => IInv
<1> SUFFICES ASSUME Init PROVE IInv
  OBVIOUS
<1>1. TypeOK
  BY BoundsAssumption DEF Init, TypeOK
<1> QED
  BY <1>1 DEF Init, IInv, Numbered, AnnouncedIsHeld, ReadyHasCredentials, OutboxLast,
              SessionComing, TokensComing

LEMMA JoinVoiceStep == ASSUME IInv, NEW c \in Channels, JoinVoice(c) PROVE IInv'
<1> USE DEF IInv, JoinVoice, Signal
<1> DEFINE vc == [id |-> joined + 1, channel |-> c, session |-> None, tokens |-> None]
<1>1. vc \in Connection /\ joined + 1 \in 1 .. MaxJoins /\ joined + 1 \notin 1 .. joined
  BY BoundsAssumption DEF TypeOK, Connection
<1>2. /\ outbox' \in Seq(Channels \cup {None}) /\ outbox' # <<>>
      /\ outbox'[Len(outbox')] = c
  <2>1. c \in Channels \cup {None} /\ outbox \in Seq(Channels \cup {None})
    BY DEF TypeOK
  <2> HIDE DEF IInv
  <2> QED BY <2>1, OutboxFacts
<1>3. TypeOK'
  <2>1. 1 .. joined \subseteq 1 .. joined + 1 /\ joined + 1 \in 0 .. MaxJoins
    BY <1>1 DEF TypeOK
  <2> QED BY <1>1, <1>2, <2>1 DEF TypeOK
<1>4. AnnouncedIsHeld' /\ Numbered'
  BY <1>1, NoneAssumption DEF AnnouncedIsHeld, Numbered, TypeOK
<1>5. ReadyHasCredentials'
  BY <1>1 DEF ReadyHasCredentials, TypeOK
<1>6. OutboxLast' /\ SessionComing' /\ TokensComing'
  BY <1>2 DEF OutboxLast, SessionComing, TokensComing
<1> QED BY <1>3, <1>4, <1>5, <1>6

LEMMA LeaveVoiceStep == ASSUME IInv, LeaveVoice PROVE IInv'
<1> USE DEF IInv, LeaveVoice, Signal
<1>1. /\ outbox' \in Seq(Channels \cup {None}) /\ outbox' # <<>>
      /\ outbox'[Len(outbox')] = None
  BY OutboxFacts DEF TypeOK
<1>2. TypeOK'
  BY <1>1, BoundsAssumption DEF TypeOK
<1> QED
  BY <1>1, <1>2 DEF AnnouncedIsHeld, Numbered, ReadyHasCredentials, OutboxLast,
                    SessionComing, TokensComing

LEMMA VoiceStateUpdateStep == ASSUME IInv, HandleVoiceStateUpdate PROVE IInv'
<1> USE DEF IInv, HandleVoiceStateUpdate, Take
<1>1. /\ inbox' \in Seq(Event) /\ Head(inbox) \in Event
      /\ Head(inbox) = StateUpdate(Head(inbox).user) /\ Head(inbox).user \in {Bot, Other}
      /\ ~IsServer(Head(inbox))
  BY TakeFacts, EventFacts DEF TypeOK
<1>2. CASE Head(inbox).user = Bot /\ voice_connection # None
  <2>1. /\ voice_connection' \in Connection
        /\ voice_connection'.id = voice_connection.id
        /\ voice_connection'.channel = voice_connection.channel
        /\ voice_connection'.session = Bot
        /\ voice_connection'.tokens = voice_connection.tokens
    BY <1>2, ConnectionFacts DEF TypeOK
  <2>2. TypeOK'
    BY <1>1, <2>1 DEF TypeOK
  <2>3. AnnouncedIsHeld' /\ Numbered' /\ OutboxLast' /\ SessionComing'
    BY <1>2, <2>1, ConnectionFacts DEF AnnouncedIsHeld, Numbered, OutboxLast, SessionComing
  <2>4. ReadyHasCredentials'
    BY <1>2, <2>1, UsersAssumption DEF ReadyHasCredentials
  <2>5. TokensComing'
    <3>1. OurGuild' = OurGuild
      BY <2>1 DEF OurGuild
    <3>2. ASSUME NEW g, LastServer(inbox, g) PROVE LastServer(inbox', g)
      <4>1. Head(inbox) # ServerUpdate(g)
        BY <1>1 DEF IsServer, ServerUpdate
      <4> QED BY <4>1, <3>2, TakeFacts DEF TypeOK
    <3>3. NoServer(inbox) => NoServer(inbox')
      BY TakeFacts DEF TypeOK
    <3> QED BY <1>2, <2>1, <3>1, <3>2, <3>3 DEF TokensComing
  <2> QED BY <2>2, <2>3, <2>4, <2>5
<1>3. CASE ~(Head(inbox).user = Bot /\ voice_connection # None)
  <2>1. UNCHANGED voice_connection
    BY <1>3
  <2>2. TypeOK'
    BY <1>1, <2>1 DEF TypeOK
  <2>3. AnnouncedIsHeld' /\ Numbered' /\ OutboxLast' /\ ReadyHasCredentials'
    BY <2>1 DEF AnnouncedIsHeld, Numbered, OutboxLast, ReadyHasCredentials
  <2>4. SessionComing'
    <3>1. ASSUME voice_connection # None, Has(inbox, StateUpdate(Bot))
          PROVE  Has(inbox', StateUpdate(Bot))
      <4>1. Head(inbox) # StateUpdate(Bot)
        BY <1>1, <1>3, <3>1 DEF StateUpdate
      <4> QED BY <4>1, <3>1, TakeFacts DEF TypeOK
    <3> QED BY <2>1, <3>1 DEF SessionComing
  <2>5. TokensComing'
    <3>1. OurGuild' = OurGuild
      BY <2>1 DEF OurGuild
    <3>2. ASSUME NEW g, LastServer(inbox, g) PROVE LastServer(inbox', g)
      <4>1. Head(inbox) # ServerUpdate(g)
        BY <1>1 DEF IsServer, ServerUpdate
      <4> QED BY <4>1, <3>2, TakeFacts DEF TypeOK
    <3>3. NoServer(inbox) => NoServer(inbox')
      BY TakeFacts DEF TypeOK
    <3> QED BY <2>1, <3>1, <3>2, <3>3 DEF TokensComing
  <2> QED BY <2>2, <2>3, <2>4, <2>5
<1> QED BY <1>2, <1>3

LEMMA VoiceServerUpdateStep == ASSUME IInv, HandleVoiceServerUpdate PROVE IInv'
<1> USE DEF IInv, HandleVoiceServerUpdate, Take
<1>1. /\ inbox' \in Seq(Event) /\ Head(inbox) \in Event
      /\ Head(inbox) = ServerUpdate(Head(inbox).guild) /\ Head(inbox).guild \in Guilds
      /\ IsServer(Head(inbox))
  BY TakeFacts, EventFacts DEF TypeOK, IsServer
<1>2. CASE voice_connection = None
  BY <1>1, <1>2 DEF TypeOK, AnnouncedIsHeld, Numbered, ReadyHasCredentials, OutboxLast,
                    SessionComing, TokensComing
<1>3. CASE voice_connection # None
  <2>1. /\ voice_connection \in Connection
        /\ voice_connection' = [voice_connection EXCEPT !.tokens = Head(inbox).guild]
    BY <1>3 DEF TypeOK
  <2>2. /\ voice_connection' \in Connection
        /\ voice_connection'.id = voice_connection.id
        /\ voice_connection'.channel = voice_connection.channel
        /\ voice_connection'.session = voice_connection.session
        /\ voice_connection'.tokens = Head(inbox).guild
    BY <1>1, <2>1, ConnectionFacts
  <2>3. \/ CanStart(voice_connection') /\ tasks' = tasks \cup {voice_connection.id}
           /\ ready' = ready \cup {voice_connection.id}
        \/ UNCHANGED <<tasks, ready>>
    BY <1>3, <2>1, <2>2
  <2>4. voice_connection.id \in 1 .. joined
    BY <1>3 DEF Numbered
  <2>5. TypeOK'
    BY <1>1, <2>2, <2>3, <2>4 DEF TypeOK
  <2>6. AnnouncedIsHeld' /\ Numbered' /\ OutboxLast'
    BY <1>3, <2>2, ConnectionFacts DEF AnnouncedIsHeld, Numbered, OutboxLast
  <2>7. ReadyHasCredentials'
    <3>1. voice_connection'.tokens # None
      BY <1>1, <2>2, ChannelsAssumption
    <3> QED BY <1>3, <2>2, <2>3, <3>1 DEF ReadyHasCredentials, CanStart
  <2>8. SessionComing'
    <3>1. Head(inbox) # StateUpdate(Bot)
      BY <1>1, EventFacts
    <3>2. Has(inbox, StateUpdate(Bot)) => Has(inbox', StateUpdate(Bot))
      BY <3>1, TakeFacts DEF TypeOK
    <3> QED BY <1>3, <2>2, <3>2 DEF SessionComing
  <2>9. TokensComing'
    <3>1. OurGuild' = OurGuild
      BY <2>2 DEF OurGuild
    <3>2. LastServer(inbox, OurGuild) =>
              LastServer(inbox', OurGuild)
              \/ (Head(inbox).guild = OurGuild /\ NoServer(inbox'))
      BY <1>1, TakeFacts, EventFacts DEF TypeOK
    <3>3. ~NoServer(inbox)
      BY <1>1, TakeFacts DEF TypeOK
    <3> QED BY <1>3, <2>2, <3>1, <3>2, <3>3 DEF TokensComing
  <2> QED BY <2>5, <2>6, <2>7, <2>8, <2>9
<1> QED BY <1>2, <1>3

LEMMA StreamEventStep == ASSUME IInv, HandleStreamEvent PROVE IInv'
<1> USE DEF IInv, HandleStreamEvent, Take
<1>1. /\ inbox' \in Seq(Event)
      /\ \A g : Head(inbox) # ServerUpdate(g)
      /\ \A u : Head(inbox) # StateUpdate(u)
  BY TakeFacts DEF TypeOK, ServerUpdate, StateUpdate
<1>2. /\ \A e : Has(inbox, StateUpdate(Bot)) => Has(inbox', StateUpdate(Bot))
      /\ \A g : LastServer(inbox, g) => LastServer(inbox', g)
      /\ NoServer(inbox) => NoServer(inbox')
  BY <1>1, TakeFacts DEF TypeOK
<1>3. TypeOK'
  BY <1>1 DEF TypeOK
<1>4. SessionComing' /\ TokensComing'
  BY <1>2 DEF SessionComing, TokensComing, OurGuild
<1> QED BY <1>3, <1>4 DEF AnnouncedIsHeld, Numbered, ReadyHasCredentials, OutboxLast

LEMMA AnswersStep == ASSUME IInv, MainGatewayAnswers PROVE IInv'
<1> USE DEF IInv, MainGatewayAnswers
<1>1. /\ Head(outbox) \in Channels \cup {None}
      /\ outbox' \in Seq(Channels \cup {None})
      /\ outbox' = <<>> => Head(outbox) = announced
      /\ outbox' # <<>> => outbox'[Len(outbox')] = announced
  BY OutboxFacts DEF TypeOK, OutboxLast
<1>2. OutboxLast' /\ AnnouncedIsHeld' /\ Numbered' /\ ReadyHasCredentials'
  BY <1>1 DEF OutboxLast, AnnouncedIsHeld, Numbered, ReadyHasCredentials
<1>3. CASE Head(outbox) = None
  <2>1. inbox' \in Seq(Event)
    BY <1>3, AppendFacts, EventFacts DEF TypeOK
  <2>2. TypeOK'
    BY <1>1, <2>1 DEF TypeOK
  <2>3. outbox' = <<>> => voice_connection = None
    BY <1>1, <1>3, ConnectionFacts DEF AnnouncedIsHeld, TypeOK
  <2> QED BY <1>2, <2>2, <2>3 DEF SessionComing, TokensComing
<1>4. CASE Head(outbox) # None
  <2> DEFINE g == GuildOf[Head(outbox)]
  <2>1. g \in Guilds
    BY <1>1, <1>4 DEF Guilds
  <2>2. inbox' \in Seq(Event) /\ Has(inbox', StateUpdate(Bot)) /\ LastServer(inbox', g)
    BY <1>4, <2>1, AnswerFacts DEF TypeOK
  <2>3. TypeOK'
    BY <1>1, <2>2 DEF TypeOK
  <2>4. voice_connection # None /\ outbox' = <<>> => g = OurGuild'
    BY <1>1 DEF AnnouncedIsHeld, OurGuild
  <2> QED BY <1>2, <2>2, <2>3, <2>4 DEF SessionComing, TokensComing
<1> QED BY <1>3, <1>4

LEMMA NoiseStep == ASSUME IInv, MainGatewayNoise PROVE IInv'
<1> USE DEF IInv, MainGatewayNoise
<1>1. PICK e \in {StateUpdate(Other), [type |-> "StreamEvent"]} : inbox' = Append(inbox, e)
  OBVIOUS
<1>2. e \in Event /\ ~IsServer(e)
  BY <1>1, EventFacts DEF Event, IsServer
<1>3. /\ inbox' \in Seq(Event)
      /\ \A x : Has(inbox, x) => Has(inbox', x)
      /\ NoServer(inbox) => NoServer(inbox')
      /\ \A g : LastServer(inbox, g) => LastServer(inbox', g)
  BY <1>1, <1>2, AppendFacts DEF TypeOK
<1>4. TypeOK'
  BY <1>3, BoundsAssumption DEF TypeOK
<1>5. SessionComing' /\ TokensComing'
  BY <1>3 DEF SessionComing, TokensComing, OurGuild
<1> QED BY <1>4, <1>5 DEF AnnouncedIsHeld, Numbered, ReadyHasCredentials, OutboxLast

\* A task that ends, and a step of something else, change none of this.
LEMMA QuietStep ==
    ASSUME IInv, (\E id \in tasks : TaskEnds(id)) \/ UNCHANGED vars
    PROVE  IInv'
<1>1. /\ UNCHANGED <<voice_connection, joined, leaves, ready, outbox, announced, inbox, noise>>
      /\ tasks' \subseteq tasks
  BY DEF TaskEnds, vars
<1>2. TypeOK'
  BY <1>1 DEF IInv, TypeOK
<1> QED
  BY <1>1, <1>2 DEF IInv, AnnouncedIsHeld, Numbered, ReadyHasCredentials, OutboxLast,
                    SessionComing, TokensComing, OurGuild

LEMMA StepIInv == IInv /\ [Next]_vars => IInv'
<1> SUFFICES ASSUME IInv, [Next]_vars PROVE IInv'
  OBVIOUS
<1>1. ASSUME NEW c \in Channels, JoinVoice(c) PROVE IInv'
  BY <1>1, JoinVoiceStep
<1>2. CASE LeaveVoice
  BY <1>2, LeaveVoiceStep
<1>3. CASE HandleVoiceStateUpdate
  BY <1>3, VoiceStateUpdateStep
<1>4. CASE HandleVoiceServerUpdate
  BY <1>4, VoiceServerUpdateStep
<1>5. CASE HandleStreamEvent
  BY <1>5, StreamEventStep
<1>6. CASE (\E id \in tasks : TaskEnds(id)) \/ UNCHANGED vars
  BY <1>6, QuietStep
<1>7. CASE MainGatewayAnswers
  BY <1>7, AnswersStep
<1>8. CASE MainGatewayNoise
  BY <1>8, NoiseStep
<1> QED BY <1>1, <1>2, <1>3, <1>4, <1>5, <1>6, <1>7, <1>8 DEF Next

(* Every reachable state satisfies the inductive invariant; the theorems   *)
(* below read the properties off it.                                       *)
THEOREM Invariance == Spec => []IInv
<1>1. Init => IInv
  BY InitIInv
<1>2. IInv /\ [Next]_vars => IInv'
  BY StepIInv
<1> QED BY <1>1, <1>2, PTL DEF Spec

\* Every value stays in its type (streamer.rs:42-47).
THEOREM TypeCorrect == Spec => []TypeOK
<1>1. IInv => TypeOK
  BY DEF IInv
<1> QED BY <1>1, Invariance, PTL

(* The controller holds a connection for exactly the channel it announced  *)
(* last on gateway_tx (streamer.rs:64, 173).                               *)
THEOREM HeldIsAnnounced == Spec => []AnnouncedIsHeld
<1>1. IInv => AnnouncedIsHeld
  BY DEF IInv
<1> QED BY <1>1, Invariance, PTL

(* A connection that was called ready to start has both credentials and    *)
(* keeps them, whatever events follow (streamer.rs:103-116).               *)
THEOREM ReadyKeepsCredentials == Spec => []ReadyHasCredentials
<1>1. IInv => ReadyHasCredentials
  BY DEF IInv
<1> QED BY <1>1, Invariance, PTL

(* However many joins and leaves overlap with their answers, once all is   *)
(* answered and fed in, the connection has the bot's session and the        *)
(* tokens of its own guild: a late answer to an earlier join, which        *)
(* handle_event takes (streamer.rs:100), is always followed by the right    *)
(* one.                                                                    *)
THEOREM CredentialsSettle == Spec => []SettledCredentials
<1>1. ~Has(<<>>, StateUpdate(Bot)) /\ \A g : ~LastServer(<<>>, g)
  BY DEF Has, LastServer
<1>2. IInv => SettledCredentials
  BY <1>1 DEF IInv, SessionComing, TokensComing, OurGuild, SettledCredentials
<1> QED BY <1>2, Invariance, PTL
=============================================================================
