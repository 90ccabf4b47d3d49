------------------------------ MODULE MediaSync ------------------------------
(***************************************************************************)
(* Playing a file: the demuxer thread (src/src/media/demuxer.rs), a bounded *)
(* channel to each of the audio and the video task (audio_stream.rs,        *)
(* video_stream.rs), the WebRtcWrapper's mutex both tasks send under, and   *)
(* the synchronisation between them (base_stream.rs), in which each task    *)
(* reads the other's last timestamp and waits while it is ahead of it.      *)
(*                                                                          *)
(* Time is left out: a sleep ends at some moment, and whether a frame is    *)
(* late already when it should sleep is a choice.                           *)
(***************************************************************************)
EXTENDS Integers, Sequences, Functions

CONSTANTS
    Streams,    \* the streams of a file: audio and video
    Files,      \* the files to play: packets [stream, pts] in file order
    Cap,        \* capacity of a packet channel, 128 in the code
    Tolerance,  \* sync_tolerance
    Setups,     \* how the caller may set the streams up: see Setup
    None

\* malformed: its data makes send_frame panic, as some H264 parameter sets do (SpsVui).
Packet == [stream : Streams, pts : Nat, malformed : BOOLEAN]

(* played: the streams the caller runs; it drops the receiver of another.   *)
(* peer: the stream whose state each was linked to with set_sync_stream,    *)
(* None without a link or with sync off.  no_sleep: those built with it.    *)
Setup == [played : SUBSET Streams, peer : [Streams -> Streams \cup {None}],
          no_sleep : SUBSET Streams]

ASSUME FilesAssumption == Files \subseteq Seq(Packet)
ASSUME CapAssumption == Cap \in Nat \ {0}
ASSUME ToleranceAssumption == Tolerance \in Nat
ASSUME NoneNotStream == None \notin Streams /\ None \notin Nat

\* set_sync_stream refuses to link a stream to itself; two may link to each other.
ASSUME SetupsAssumption ==
    /\ Setups \subseteq Setup
    /\ \A u \in Setups, s \in Streams : u.peer[s] # s

VARIABLES
    file,     \* the file being played
    setup,    \* how the streams were set up
    pos,      \* the demuxer's next packet
    demuxer,  \* "reading", or "done" once the loop has ended
    chan,     \* of each stream: the packets in its channel, as indices into file
    pc,       \* where each stream's task is
    pkt,      \* the packet it processes, 0 between two
    state,    \* StreamSyncState
    lock,     \* the task that holds the WebRtcWrapper, or None
    stop,     \* stop_rx has fired: the signal was sent, or its sender dropped
    handed    \* history: the packets each stream has handed to the WebRtcWrapper

vars == <<file, setup, pos, demuxer, chan, pc, pkt, state, lock, stop, handed>>

demuxVars == <<file, setup, pos, demuxer>>

Pc == {"recv", "lock", "send", "update", "behind?", "behind_pts?", "ahead?", "ahead_pts?",
       "wait", "recheck", "recheck_pts", "sleep", "ended", "dead"}

Init ==
    /\ file \in Files
    /\ setup \in Setups
    /\ pos = 1
    /\ demuxer = "reading"
    /\ chan = [s \in Streams |-> <<>>]
    /\ pc = [s \in Streams |-> IF s \in setup.played THEN "recv" ELSE "ended"]
    /\ pkt = [s \in Streams |-> 0]
    /\ state = [s \in Streams |-> [pts_ms |-> None, ended |-> FALSE]]
    /\ lock = None
    /\ stop = [s \in Streams |-> s \notin setup.played]
    /\ handed = [s \in Streams |-> <<>>]

-----------------------------------------------------------------------------
(* The demuxer: one thread feeds both channels in file order.  A task that *)
(* has returned or died dropped its receiver: what is sent to it is lost.    *)

Gone(s) == pc[s] \in {"ended", "dead"}

\* Gives up on a packet the channel has no room for.
MutantDemuxPacket ==
    /\ demuxer = "reading"
    /\ pos <= Len(file)
    /\ LET s == file[pos].stream IN
       chan' = IF Gone(s) \/ Len(chan[s]) >= Cap THEN chan
               ELSE [chan EXCEPT ![s] = Append(@, pos)]
    /\ pos' = pos + 1
    /\ UNCHANGED <<file, setup, demuxer, pc, pkt, state, lock, stop, handed>>

DemuxPacket ==
    /\ demuxer = "reading"
    /\ pos <= Len(file)
    /\ LET s == file[pos].stream IN
       \/ /\ Gone(s)
          /\ chan' = chan
       \/ /\ ~Gone(s)
          /\ Len(chan[s]) < Cap
          /\ chan' = [chan EXCEPT ![s] = Append(@, pos)]
    /\ pos' = pos + 1
    /\ UNCHANGED <<file, setup, demuxer, pc, pkt, state, lock, stop, handed>>

\* Counts a packet of the file once more when there is none left.
MutantDemuxEnd ==
    /\ demuxer = "reading"
    /\ pos > Len(file)
    /\ demuxer' = "done"
    /\ pos' = pos + 1
    /\ UNCHANGED <<file, setup, chan, pc, pkt, state, lock, stop, handed>>

\* Both channels close together, when the whole file has been read.
DemuxEnd ==
    /\ demuxer = "reading"
    /\ pos > Len(file)
    /\ demuxer' = "done"
    /\ UNCHANGED <<file, setup, pos, chan, pc, pkt, state, lock, stop, handed>>

-----------------------------------------------------------------------------
(* A stream's task.                                                        *)

Goto(s, there) == pc' = [pc EXCEPT ![s] = there]

(* Leaving the loop: mark_ended, and the receiver goes with the task.      *)
MutantEnd(s) ==
    /\ Goto(s, "ended")
    /\ chan' = [chan EXCEPT ![s] = <<>>]
    /\ UNCHANGED <<state, demuxVars, pkt, lock, stop, handed>>

End(s) ==
    /\ Goto(s, "ended")
    /\ state' = [state EXCEPT ![s].ended = TRUE]
    /\ chan' = [chan EXCEPT ![s] = <<>>]
    /\ UNCHANGED <<demuxVars, pkt, lock, stop, handed>>

\* The select polls the stop signal first, and only here.
Stopped(s) ==
    /\ pc[s] = "recv"
    /\ stop[s]
    /\ End(s)

\* Takes an empty channel for one that is closed.
MutantChannelClosed(s) ==
    /\ pc[s] = "recv"
    /\ ~stop[s]
    /\ chan[s] = <<>>
    /\ End(s)

ChannelClosed(s) ==
    /\ pc[s] = "recv"
    /\ ~stop[s]
    /\ chan[s] = <<>>
    /\ demuxer = "done"
    /\ End(s)

\* Takes the newest packet to catch up, and leaves the older ones for later.
MutantReceive(s) ==
    /\ pc[s] = "recv"
    /\ ~stop[s]
    /\ chan[s] # <<>>
    /\ pkt' = [pkt EXCEPT ![s] = chan[s][Len(chan[s])]]
    /\ chan' = [chan EXCEPT ![s] = SubSeq(@, 1, Len(@) - 1)]
    /\ Goto(s, "lock")
    /\ UNCHANGED <<demuxVars, state, lock, stop, handed>>

Receive(s) ==
    /\ pc[s] = "recv"
    /\ ~stop[s]
    /\ chan[s] # <<>>
    /\ pkt' = [pkt EXCEPT ![s] = Head(chan[s])]
    /\ chan' = [chan EXCEPT ![s] = Tail(@)]
    /\ Goto(s, "lock")
    /\ UNCHANGED <<demuxVars, state, lock, stop, handed>>

Acquire(s) ==
    /\ pc[s] = "lock"
    /\ lock = None
    /\ lock' = s
    /\ Goto(s, "send")
    /\ UNCHANGED <<demuxVars, chan, pkt, state, stop, handed>>

(* send_frame returns.  Whether the frame went out or failed, nobody looks   *)
(* at what it returned: the WebRtcWrapper's own module has the difference.   *)
SendFrame(s) ==
    /\ pc[s] = "send"
    /\ ~file[pkt[s]].malformed
    /\ lock' = None
    /\ handed' = [handed EXCEPT ![s] = Append(@, pkt[s])]
    /\ Goto(s, "update")
    /\ UNCHANGED <<demuxVars, chan, pkt, state, stop>>

(* A panic takes the task with it: the lock is given back and the receiver  *)
(* dropped as it unwinds, but nobody calls mark_ended.                      *)
SendPanics(s) ==
    /\ pc[s] = "send"
    /\ file[pkt[s]].malformed
    /\ lock' = None
    /\ Goto(s, "dead")
    /\ chan' = [chan EXCEPT ![s] = <<>>]
    /\ UNCHANGED <<demuxVars, pkt, state, stop, handed>>

AfterSend(s) == IF s \in setup.no_sleep THEN {"recv"} ELSE {"recv", "behind?"}

\* Returns for a late frame before its timestamp is recorded.
MutantUpdatePts(s) ==
    /\ pc[s] = "update"
    /\ \E there \in AfterSend(s) :
          /\ Goto(s, there)
          /\ pkt' = IF there = "recv" THEN [pkt EXCEPT ![s] = 0] ELSE pkt
          /\ state' = IF there = "recv" THEN state
                      ELSE [state EXCEPT ![s].pts_ms = file[pkt[s]].pts]
    /\ UNCHANGED <<demuxVars, chan, lock, stop, handed>>

(* update_pts, then how long to sleep: not at all with no_sleep or when    *)
(* the frame is late, and then the peer is not looked at either.           *)
UpdatePts(s) ==
    /\ pc[s] = "update"
    /\ state' = [state EXCEPT ![s].pts_ms = file[pkt[s]].pts]
    /\ \E there \in AfterSend(s) :
          /\ Goto(s, there)
          /\ pkt' = IF there = "recv" THEN [pkt EXCEPT ![s] = 0] ELSE pkt
    /\ UNCHANGED <<demuxVars, chan, lock, stop, handed>>

(* peer_active and pts_delta lock one state after the other, and is_behind *)
(* and is_ahead are two such readings: the peer moves in between.          *)
Peer(s) == setup.peer[s]

PeerActive(s) == Peer(s) # None /\ ~state[Peer(s)].ended

\* our_pts > peer_pts + tolerance, when both have handed over a frame.
AheadOf(s, p) ==
    /\ state[s].pts_ms # None /\ state[p].pts_ms # None
    /\ state[s].pts_ms - state[p].pts_ms > Tolerance

taskFrame == <<demuxVars, chan, state, lock, stop, handed>>

\* From `from`, to `yes` or to `no`; a task that receives again has no packet.
Branch(s, from, cond, yes, no) ==
    /\ pc[s] = from
    /\ LET there == IF cond THEN yes ELSE no IN
       /\ Goto(s, there)
       /\ pkt' = IF there = "recv" THEN [pkt EXCEPT ![s] = 0] ELSE pkt
    /\ UNCHANGED taskFrame

Behind(s) ==
    \/ Branch(s, "behind?", PeerActive(s), "behind_pts?", "ahead?")
    \/ Branch(s, "behind_pts?", AheadOf(Peer(s), s), "recv", "ahead?")

Ahead(s) ==
    \/ Branch(s, "ahead?", PeerActive(s), "ahead_pts?", "sleep")
    \/ Branch(s, "ahead_pts?", AheadOf(s, Peer(s)), "wait", "sleep")

(* The wait of a stream that is ahead: a frame time, then look again.      *)
Wait(s) ==
    \/ Branch(s, "wait", TRUE, "recheck", "recheck")
    \/ Branch(s, "recheck", PeerActive(s), "recheck_pts", "recv")
    \/ Branch(s, "recheck_pts", AheadOf(s, Peer(s)), "wait", "recv")

Sleep(s) == Branch(s, "sleep", TRUE, "recv", "recv")

\* The application stops a stream, or drops the sender that would.
Stop(s) ==
    /\ ~stop[s]
    /\ stop' = [stop EXCEPT ![s] = TRUE]
    /\ UNCHANGED <<demuxVars, chan, pc, pkt, state, lock, handed>>

Task(s) ==
    \/ Stopped(s)
    \/ ChannelClosed(s)
    \/ Receive(s)
    \/ Acquire(s)
    \/ SendFrame(s)
    \/ SendPanics(s)
    \/ UpdatePts(s)
    \/ Behind(s)
    \/ Ahead(s)
    \/ Wait(s)
    \/ Sleep(s)

Demux == DemuxPacket \/ DemuxEnd

Next == Demux \/ \E s \in Streams : Task(s) \/ Stop(s)

\* The thread runs and Tokio polls each task; nobody has to stop a stream.
Spec ==
    Init /\ [][Next]_vars /\ WF_vars(Demux) /\ \A s \in Streams : WF_vars(Task(s))

-----------------------------------------------------------------------------
(* Properties.                                                             *)

TypeOK ==
    /\ file \in Files
    /\ setup \in Setups
    /\ pos \in 1 .. Len(file) + 1
    /\ demuxer \in {"reading", "done"}
    /\ chan \in [Streams -> Seq(1 .. Len(file))]
    /\ pc \in [Streams -> Pc]
    /\ pkt \in [Streams -> 0 .. Len(file)]
    /\ state \in [Streams -> [pts_ms : Nat \cup {None}, ended : BOOLEAN]]
    /\ lock \in Streams \cup {None}
    /\ stop \in [Streams -> BOOLEAN]
    /\ handed \in [Streams -> Seq(1 .. Len(file))]

\* What the demuxer has read of stream s.
Read(s) == {i \in 1 .. pos - 1 : file[i].stream = s}

\* The packet a task has received and not handed over yet.
Held(s) == IF pc[s] \in {"lock", "send"} THEN {pkt[s]} ELSE {}

(* No packet is lost or goes to the wrong stream between the file and       *)
(* send_frame, however the full channels hold the demuxer up; only a stream *)
(* that was stopped, is not played or died drops any.  A frame send_frame   *)
(* fails for was handed over like the others.                               *)
NothingLost ==
    \A s \in Streams :
        ~stop[s] /\ pc[s] # "dead" => Read(s) = Range(handed[s]) \cup Held(s) \cup Range(chan[s])

(* Frames are handed over in file order, none twice: every packet handed    *)
(* over came before the one held, and that before those in the channel.     *)
InOrder ==
    \A s \in Streams :
        /\ \A i, j \in DOMAIN handed[s] : i < j => handed[s][i] < handed[s][j]
        /\ \A i, j \in DOMAIN chan[s] : i < j => chan[s][i] < chan[s][j]
        /\ \A x \in Range(handed[s]), y \in Held(s) \cup Range(chan[s]) : x < y
        /\ \A x \in Held(s), y \in Range(chan[s]) : x < y

(* Only the task that holds the lock is inside a send, and the timestamp a *)
(* stream shows its peer is that of the last frame it handed over, or of the *)
(* one before while the lock is being given back.                          *)
SyncStateCurrent ==
    \A s \in Streams :
        /\ pc[s] = "send" <=> lock = s
        /\ pc[s] # "update" =>
              state[s].pts_ms = (IF handed[s] = <<>> THEN None
                                 ELSE file[handed[s][Len(handed[s])]].pts)

\* Ahead of a peer that died unmarked: it looks again and again, for ever.
Stranded(s) ==
    pc[s] = "wait" /\ Peer(s) # None /\ pc[Peer(s)] = "dead" /\ AheadOf(s, Peer(s))

\* Ahead of a peer that waits for the demuxer, which waits for room in its channel.
Clogged(s) ==
    /\ pc[s] = "wait" /\ Peer(s) # None /\ AheadOf(s, Peer(s))
    /\ demuxer = "reading" /\ pos <= Len(file) /\ file[pos].stream = s /\ Len(chan[s]) = Cap
    /\ pc[Peer(s)] = "recv" /\ chan[Peer(s)] = <<>> /\ ~stop[Peer(s)]

Hung(s) == Stranded(s) \/ Clogged(s)

(* Playback ends: every packet is read and both tasks return, though each   *)
(* may wait for the other and the demuxer for both.  It hangs in two ways   *)
(* and no other: a stream is ahead of one that panicked, or ahead of one    *)
(* that gets no packet because the first no longer empties its channel.     *)
(* When a stop ends the second, playback comes to its end after all.        *)
PlaybackEnds ==
    []<>(\/ demuxer = "done" /\ \A s \in Streams : Gone(s)
         \/ \E s \in Streams : Hung(s))

(* A stopped stream ends, whatever it was doing when the signal came,       *)
(* unless playback hangs in one of these two ways.                          *)
StopObeyed == \A s \in Streams : stop[s] ~> (Gone(s) \/ Hung(s))

(* "Returns when the channel closes or `stop_rx` fires" (audio_stream.rs:31, *)
(* video_stream.rs:31): a stopped stream ends, if it does not die before.    *)
StopReturns == \A s \in Streams : stop[s] ~> Gone(s)

(* What a viewer is promised (Playback): the demuxer, the channels, the    *)
(* lock and the synchronisation together hand each stream over packet by   *)
(* packet as the file has it, and no stream is over before its last packet *)
(* without having been stopped or having died.                             *)
PB == INSTANCE Playback WITH over <- [s \in Streams |-> Gone(s)]

PlaybackSpec == PB!Spec
=============================================================================
