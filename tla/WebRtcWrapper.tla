---------------------------- MODULE WebRtcWrapper ----------------------------
(***************************************************************************)
(* The sending side of the media connection (src/src/voice/webrtc.rs): two  *)
(* RTP tracks, each with a sequence number and a timestamp of fixed width,  *)
(* and the DAVE handler frames are encrypted with.                          *)
(*                                                                          *)
(* The wrapper is given a handler of its own to share with its caller; the  *)
(* voice connection owns another one by value (connection.rs:77), which is  *)
(* `negotiated` here.                                                       *)
(*                                                                          *)
(* A frame time is counted in quarters of a tick of the track's clock, the  *)
(* finest part any rate and clock of the crate needs to show rounding.      *)
(***************************************************************************)
EXTENDS DaveHandler, Integers, Sequences, FiniteSets

CONSTANTS
    SeqMod,       \* sequence numbers: 2^16 in the code
    TimeMod,      \* timestamps: 2^32 in the code
    FrameTimes,   \* durations of a frame, in quarter ticks
    Starts,       \* the RtpStates set_packetizer may take from the clock
    MaxCalls      \* bound: calls of the wrapper and steps of its handlers

ASSUME WidthAssumption == SeqMod \in Nat \ {0} /\ TimeMod \in Nat \ {0}
ASSUME FrameTimesAssumption == FrameTimes \subseteq Nat
ASSUME MaxCallsAssumption == MaxCalls \in Nat

Tracks == {"audio", "video"}

RtpState == [seq : 0 .. SeqMod - 1, timestamp : 0 .. TimeMod - 1]

ASSUME StartsAssumption == Starts \subseteq RtpState

VARIABLES
    peer_connection,  \* there is one
    tracks,           \* audio_track and video_track, which init sets together
    rtp,              \* of each track: its RtpState, or None
    video_codec,      \* some codec is configured
    dave,             \* the handler the wrapper encrypts with
    negotiated,       \* the handler of the voice connection
    media,            \* history: time of the frames handed over since set_packetizer
    config,           \* history: calls of set_packetizer
    closed,           \* history: config when the wrapper was last closed, or None
    lost,             \* history: configurations a frame was lost in before it had a packet
    packets,          \* history: packets handed to webrtc, written or not
    calls             \* calls and handler steps so far, for the bound

vars == <<peer_connection, tracks, rtp, video_codec, dave, negotiated, media, config,
          closed, lost, packets, calls>>

Init ==
    /\ peer_connection = FALSE
    /\ tracks = FALSE
    /\ rtp = [t \in Tracks |-> None]
    /\ video_codec = FALSE
    /\ dave = NewHandler
    /\ negotiated = NewHandler
    /\ media = [t \in Tracks |-> 0]
    /\ config = 0
    /\ closed = None
    /\ lost = {}
    /\ packets = <<>>
    /\ calls = 0

Call == calls < MaxCalls /\ calls' = calls + 1

-----------------------------------------------------------------------------
(* init: nothing is stored before the last step that can fail.  A peer     *)
(* connection there is already is replaced, not closed.                    *)
InitPeer ==
    /\ Call
    /\ \/ peer_connection' = TRUE /\ tracks' = TRUE
       \/ UNCHANGED <<peer_connection, tracks>>
    /\ UNCHANGED <<rtp, video_codec, dave, negotiated, media, config, closed, lost, packets>>

(* set_packetizer, of a codec it knows: both tracks start from a sequence  *)
(* number and a timestamp taken from the clock.                            *)
SetPacketizer ==
    /\ Call
    /\ rtp' \in [Tracks -> Starts]
    /\ video_codec' = TRUE
    /\ config' = config + 1
    /\ media' = [t \in Tracks |-> 0]
    /\ UNCHANGED <<peer_connection, tracks, dave, negotiated, closed, lost, packets>>

-----------------------------------------------------------------------------
(* Sending a frame.                                                        *)

\* Cuts the fraction off instead of rounding.
MutantTicks(ft) == ft \div 4

\* (frametime_ms * clock_rate / 1000.0).round(), halves away from zero.
Ticks(ft) == (ft + 2) \div 4

\* Saturates instead of wrapping.
MutantPacketized(r, ft) ==
    [seq |-> IF r.seq = SeqMod - 1 THEN r.seq ELSE r.seq + 1,
     timestamp |-> (r.timestamp + Ticks(ft)) % TimeMod]

\* Counts on past the width of the header field.
MutantPacketizedGrows(r, ft) ==
    [seq |-> r.seq + 1, timestamp |-> (r.timestamp + Ticks(ft)) % TimeMod]

\* make_packet and advance_timestamp.
Packetized(r, ft) ==
    [seq |-> (r.seq + 1) % SeqMod, timestamp |-> (r.timestamp + Ticks(ft)) % TimeMod]

\* A frame that cannot be encrypted uses up a sequence number all the same.
MutantEncryptAndSend(t, ft) ==
    \E e \in Encrypt(dave) :
        /\ rtp' = [rtp EXCEPT ![t] = Packetized(@, ft)]
        /\ IF e = "err" THEN lost' = lost \cup {<<t, config>>} /\ packets' = packets
           ELSE /\ packets' = Append(packets,
                      [track |-> t, config |-> config, seq |-> rtp[t].seq,
                       timestamp |-> rtp[t].timestamp, media |-> media[t],
                       encrypted |-> e = "encrypted", agreed |-> IsReady(negotiated), closed |-> closed])
                /\ lost' = lost

(* Encryption comes first, and a frame it fails for leaves no trace in the *)
(* track's state; a packet is counted before it is written, and a write    *)
(* that fails is one more lost packet.                                     *)
EncryptAndSend(t, ft) ==
    \E e \in Encrypt(dave) :
        IF e = "err"
        THEN /\ lost' = lost \cup {<<t, config>>}
             /\ UNCHANGED <<rtp, packets>>
        ELSE /\ rtp' = [rtp EXCEPT ![t] = Packetized(@, ft)]
             /\ packets' = Append(packets,
                    [track |-> t, config |-> config, seq |-> rtp[t].seq,
                     timestamp |-> rtp[t].timestamp, media |-> media[t],
                     encrypted |-> e = "encrypted", agreed |-> IsReady(negotiated), closed |-> closed])
             /\ lost' = lost

SendFrame(t, ft) ==
    /\ Call
    /\ media' = [media EXCEPT ![t] = @ + ft]
    /\ EncryptAndSend(t, ft)
    /\ UNCHANGED <<peer_connection, tracks, video_codec, dave, negotiated, config, closed>>

SendAudioFrame(ft) ==
    /\ tracks /\ rtp["audio"] # None
    /\ SendFrame("audio", ft)

\* An H264 frame has its SPS rewritten first, which changes no other state.
SendVideoFrame(ft) ==
    /\ tracks /\ rtp["video"] # None /\ video_codec
    /\ SendFrame("video", ft)

(* NotInitialized and PacketizerNotConfigured: the frame is gone, and the  *)
(* stream that handed it over does not look at the error.                  *)
SendFails(t) ==
    /\ Call
    /\ ~tracks \/ rtp[t] = None
    /\ UNCHANGED <<peer_connection, tracks, rtp, video_codec, dave, negotiated, media,
                   config, closed, lost, packets>>

\* Forgets to drop the packetizer's state with the tracks.
MutantClose ==
    /\ Call
    /\ peer_connection' = FALSE
    /\ tracks' = FALSE
    /\ closed' = config
    /\ UNCHANGED <<rtp, video_codec, dave, negotiated, media, config, lost, packets>>

\* close keeps the codec.
Close ==
    /\ Call
    /\ peer_connection' = FALSE
    /\ tracks' = FALSE
    /\ closed' = config
    /\ rtp' = [t \in Tracks |-> None]
    /\ UNCHANGED <<video_codec, dave, negotiated, media, config, lost, packets>>

-----------------------------------------------------------------------------
(* The handlers.                                                           *)

\* A group is joined, or started anew.
Steps(d) ==
    {o.dave : o \in ProcessGroupMessage(d) \cup UNION {DaveInit(d, v) : v \in Versions}}

\* The caller drives the handler it shares with the wrapper.
CallerDrives ==
    /\ Call
    /\ dave' \in Steps(dave)
    /\ UNCHANGED <<peer_connection, tracks, rtp, video_codec, negotiated, media, config,
                   closed, lost, packets>>

\* The voice connection drives its own.
ConnectionNegotiates ==
    /\ Call
    /\ negotiated' \in Steps(negotiated)
    /\ UNCHANGED <<peer_connection, tracks, rtp, video_codec, dave, media, config, closed,
                   lost, packets>>

Next ==
    \/ InitPeer
    \/ SetPacketizer
    \/ \E ft \in FrameTimes : SendAudioFrame(ft) \/ SendVideoFrame(ft)
    \/ \E t \in Tracks : SendFails(t)
    \/ Close
    \/ CallerDrives
    \/ ConnectionNegotiates

Spec == Init /\ [][Next]_vars

-----------------------------------------------------------------------------
(* Properties.                                                             *)

Packet ==
    [track : Tracks, config : Nat, seq : 0 .. SeqMod - 1, timestamp : 0 .. TimeMod - 1,
     media : Nat, encrypted : BOOLEAN, agreed : BOOLEAN, closed : Nat \cup {None}]

TypeOK ==
    /\ {peer_connection, tracks, video_codec} \subseteq BOOLEAN
    /\ rtp \in [Tracks -> RtpState \cup {None}]
    /\ {dave, negotiated} \subseteq Handler
    /\ media \in [Tracks -> Nat]
    /\ config \in Nat /\ calls \in Nat /\ closed \in Nat \cup {None}
    /\ lost \subseteq Tracks \X Nat
    /\ packets \in Seq(Packet)

\* The packets of one track since set_packetizer, in order.
SameTrack(i, j) ==
    packets[i].track = packets[j].track /\ packets[i].config = packets[j].config

\* How many packets packet j comes after packet i on their track.
Distance(i, j) == Cardinality({k \in i + 1 .. j : SameTrack(i, k)})

(* A receiver finds loss and order by the sequence numbers: on each track  *)
(* they go up by one per packet, modulo their width, whatever happens to   *)
(* frames and to the other track in between.                               *)
SeqContinuous ==
    \A j \in DOMAIN packets : \A i \in 1 .. j - 1 :
        SameTrack(i, j) =>
            (packets[j].seq - packets[i].seq) % SeqMod = Distance(i, j) % SeqMod

(* A receiver plays by the timestamps: between two packets of a track they *)
(* advance by the media time between them, up to half a tick of rounding   *)
(* a packet, modulo their width.  A frame that could not be encrypted      *)
(* takes its time with it, so its configuration is left out.               *)
TimestampFollowsMedia ==
    \A j \in DOMAIN packets : \A i \in 1 .. j - 1 :
        SameTrack(i, j) /\ <<packets[i].track, packets[i].config>> \notin lost =>
            LET ticks == packets[j].timestamp - packets[i].timestamp
                drift == (4 * ticks - (packets[j].media - packets[i].media)) % (4 * TimeMod)
                bound == 2 * Distance(i, j)
            IN  drift <= bound \/ 4 * TimeMod - drift <= bound

(* Nothing of a closed connection leaks into the next: a packet numbered   *)
(* and stamped after a close goes by a set_packetizer that came after it,   *)
(* in whatever order init and set_packetizer are called again.             *)
ReconfiguredAfterClose ==
    \A i \in DOMAIN packets :
        packets[i].closed # None => packets[i].config > packets[i].closed

(* "Shared handle to the DAVE session for E2EE encryption" (webrtc.rs:131): *)
(* once the voice connection has joined the group, frames leave encrypted.  *)
MediaEncrypted == \A i \in DOMAIN packets : packets[i].agreed => packets[i].encrypted
=============================================================================
