# A verification development of discord-stream-rs

TLA+ models of the parts of discord-stream-rs that keep state or run
concurrently, the TLC configurations that check them on small instances, and
TLAPS proofs about all of them: the voice connection and its session with the
gateway, the playback of a file, the controller, the RTP state and what becomes
of an H264 frame. Paths are relative to the repository
(`src/src/...` are the crate's sources); line numbers are given where a
definition or a claim rests on one.

## 1. The system

The crate streams a media file into a Discord voice channel. It has no process
of its own: a caller owns the WebSocket of Discord's main gateway and drives
the crate.

| component | state it keeps | operations | talks to |
|---|---|---|---|
| `Streamer` (gateway/streamer.rs) | the current voice connection | `join_voice`, `leave_voice`, `handle_event`, `create_stream`, `stop_stream` | main gateway, through its caller's channel; sets credentials of the voice connection |
| `VoiceConnection` (voice/connection.rs) | credentials, `status`, `seq`, a `DaveHandler`, `connected_users`, `pending_transitions`; once started an event loop, a writer task and the queue between them | `set_session`, `set_tokens`, `can_start`, `start`, one handler per opcode | voice gateway (WebSocket), application (event channel) |
| `DaveHandler` (dave.rs) | an optional `davey` session, the protocol version | `init`, `process_*`, `set_passthrough_mode`, `encrypt*`, queries | called by the connection and by the WebRTC wrapper |
| `WebRtcWrapper` (voice/webrtc.rs) | peer connection, two tracks and their RTP state, codec, a shared `DaveHandler` | `init`, `set_packetizer`, `send_*_frame`, `close` | both streams, under one mutex |
| media pipeline (media/) | two bounded channels, a `StreamSyncState` per stream | the demuxer's thread; `run` of `AudioStream` and `VideoStream`, `process_packet` | each stream reads the other's sync state |
| processing (processing/) | none | `split_nalu`, bit reader and writer, `rewrite_sps_vui` | called per H264 frame |
| utils, types, opcodes, events | none | keys, codec names, payload formats | everyone |
| `StreamConnection`, decoder, encoders | wrappers and option strings | | nothing in the crate uses them |

What makes it hard:

* **Concurrency.** A connection is two tasks and a queue against a gateway that
  sends what it likes. A playing file is a blocking thread, two tasks, two
  bounded channels, a mutex and two sync states each task reads of the other.
* **Partial failure.** `DaveHandler::init` stores the version before steps that
  can fail; the writer task may die alone; an invalid commit is answered by an
  `init` whose error is dropped.
* **Order.** Several DAVE transitions are in flight at once; the two credentials
  arrive in either order, and possibly after the caller has gone elsewhere.
* **Loss.** `start` consumes the connection, so a resumed one starts from nothing.
* **Width.** Sequence numbers of 16 bits beside 64, timestamps of 32.

What makes each correct: a connection acknowledges every transition it keeps,
never asks for a group it has no session for, tells the application nothing it
has not told the gateway, and ends both its tasks; the connection and a
protocol-following gateway agree on transitions, versions and users; playback
loses and reorders nothing on the way to `send_frame`, and ends; the controller is where it told the
gateway it is; a track's numbers and timestamps are continuous.

## 2. Modules

| module | what it is |
|---|---|
| `DaveHandler` | the handler as operators from its value to the possible outcomes of a call; no variables, used by the next two and by `WebRtcWrapper` |
| `VoiceConnection` | one connection against an arbitrary gateway |
| `VoiceSession` | `VoiceConnection` composed with a gateway that follows the protocol, over several connections |
| `TransitionExchange` | what the exchange of a transition promises, without frames or queues; `VoiceSession` implements it |
| `MediaSync` | demuxer, channels, streams, synchronisation |
| `Playback` | what playing a file promises, without threads or channels; `MediaSync` implements it |
| `Streamer` | the controller, its caller and the main gateway |
| `WebRtcWrapper` | RTP state and encryption of two tracks |
| `H264Frame` | an H264 frame from the encoder to the encryption: split, parameter sets rewritten, put together |
| `AnnexB`, `AnnexBBitstream`, `SpsVui` | what `H264Frame` is made of: start codes, the bit reader and writer, the SPS rewriter |
| `H264Syntax` | the standard's syntax of a parameter set, as the reference |
| `DaveHandler_proofs`, `MediaSync_proofs`, `Streamer_proofs`, `WebRtcWrapper_proofs`, `H264Frame_proofs` | theorems about the module each is named after |
| `VoiceSession_proofs` | theorems about `VoiceConnection`, and with them those about `VoiceSession` |
| `H264Coding_proofs` | lemmas for `H264Frame_proofs`: what reading and writing a unit comes to, field by field |
| `Arithmetic` | lemmas about numbers that wrap, powers of two, induction and functions defined by recursion, for the proofs |
| `MC*` | values of the constants for TLC |

`VoiceConnection` EXTENDS `DaveHandler`, `VoiceSession` EXTENDS
`VoiceConnection` and has an INSTANCE of `TransitionExchange`, `MediaSync` has one
of `Playback`, `H264Frame` EXTENDS `AnnexB` and `SpsVui`, and `SpsVui` EXTENDS
`AnnexBBitstream` and `H264Syntax`.

**DaveHandler.** A handler is a record of the version and the session. Whether
`davey` accepts an MLS message is cryptography, so each `davey` call may succeed
or fail; each operator is the set of outcomes `[dave, ret]`, and a caller picks
one, so several calls of one message handler stay one step. `init` keeps its
order (dave.rs:70-104): the version first, then the session, then the key
package, each of which can fail after the one before took effect.

**VoiceConnection.** The variables are the struct's fields and the locals of
`start`; `out` is the queue of `out_tx`, `wire` what the socket accepted,
`events` what the application was told (both as sets, since only membership is
asked). `Start` is `start` after the WebSocket opened, with the greeting already
queued; `StartFails` is its two errors. Each arm of `handle_text` and
`handle_binary` is one `Handle...` action, since a handler has no await in it.
An error return (`?`) keeps what was done before it. A frame whose payload does
not parse only moves the sequence number and is part of `HandleOther`. The
arm for opcodes from 4000 up cannot be taken, the opcode being a `u8`.
`WriterSend`, `WriterFail` and `WriterExit` are the writer task. The timer arm,
`HeartbeatTick`, is left out of `Next` because nothing arms the timer;
`TimerSpec` has it, and `TimerNeverTicks` proves that it makes no difference.

**VoiceSession** adds the gateway, which is external: its actions follow from
the frames the code sends and expects. A transition goes through announced,
acknowledged and executed; a group has a version and this client as a member or
not; both directions are FIFO and each side may run ahead. It may start a new
group at any moment, also between a downgrade and its execution. `takenDown`
notes the downgrades it announced to a client that had sent a key package.
`Replace` is the application making a new connection after a loss.

**TransitionExchange** is one exchange per transition as both sides see it:
announced, then accepted or refused by the client, then agreed or withdrawn when
the answer arrives, then ordered and carried out. The client keeps the announced
version from its acceptance until it carries it out; the id may be announced
again before that, but not answered. A session that breaks voids everything.
`VoiceSession` maps to it by the frames on the way: an exchange the gateway calls
prepared is announced while its frame is in `inq`, accepted or refused while the
answer is in `out`. Should neither be anywhere it is "lost", a stage the abstract
specification does not have, so the refinement excludes it. The mapping is void
(`Linked` is false) while there is no session, in one that was resumed, and when
the writer has ended: the answers no longer arrive then.

**MediaSync.** A task's program counter moves through the awaits and locks of
`run` and `process_packet`. `peer_active` and `pts_delta` lock separately
(base_stream.rs:103-131), so each of `is_ahead` and `is_behind` is two steps. A
sleep is a step that may happen at any time; whether a frame is already late is
a choice. `Setups` says what the caller did with the two streams: which of them
it runs (it drops the receiver of another), which stream each was linked to with
`set_sync_stream` (None without a link or with `sync` off), and which were built
with `no_sleep`. A `malformed` packet is one whose `send_frame` panics, as some
parameter sets do (`SpsVui`); `SendPanics` is the task that dies of it: the lock
and the receiver go, but nobody calls `mark_ended`. `handed` has the packets a
task called `send_frame` with. Whether such a frame reaches the peer connection
is nothing this module says: `run` drops the errors of `send_audio_frame` and
`send_video_frame` (audio_stream.rs:59, video_stream.rs:60), and a frame that
fails there is the matter of `WebRtcWrapper`.

**Playback** has of all this only the packets each stream has handed over,
whether it was told to stop and whether it is over. A stream hands over the
file's packets for it one by one, and is over only when it has handed over all
of them, was stopped, or met a packet that kills it.

**Streamer.** Of the connection only the two credentials are kept, with the
guild the tokens are for. The main gateway answers op 4 with the two events in
either order, possibly late.

**WebRtcWrapper.** Each call is an action. Frame times are in quarters of a
clock tick, which is enough to show the rounding; sequence numbers and
timestamps wrap at `SeqMod` and `TimeMod`. `negotiated` is the connection's own
handler, which the wrapper never sees.

**H264Frame** follows `rewrite_h264_sps_vui` (webrtc.rs:384). `SplitUnit` is a
round of `split_nalu`, `PassUnit` a unit that is copied, `BeginSps`, the actions
of `SpsVui` and `EndSps` a parameter set. In `SpsVui` each part of
`rewrite_sps_vui` is an action over two cursors, the bits read and the bits
written; a part copies, skips or puts fields. `AnnexBBitstream` has the reader
and writer bit by bit: emulation prevention bytes taken out and put in,
exp-Golomb codes, the wrap of `i32`. A loop of the code is a recursive function
of how many of its rounds were run. `H264Syntax` is not the code's: it writes a
set from the standard's tables, so reading with the code and comparing with what
was written is a comparison of two sources. `FramesAssumption` says what a frame
is: units between start codes, no start code inside one, and a parameter set is
the writing of a `ValidSps`, whose fields fit the width the standard gives them
and have an exp-Golomb code that fits a word of the reader.

## 3. Runs

Passing runs:

| run | bounds | shows |
|---|---|---|
| `voice_connection` | versions 0, 1; transitions 0-2; one user; 3 frames | any three frames in any order, with a writer that lags, fails or ends: `PendingAcknowledged`, `KeyPackageBacked`, `EventsBacked`, `GreetingFirst`, and that the writer ends and writes what was queued |
| `voice_session` | versions 0-2; transitions 0-2; 4 frames of the gateway's own; 2 connections; binary numbers of 1 bit | agreement with a protocol-following gateway: `ExecuteRecognised`, `AgreedVersion`, `AckedHasSession`, `DowngradeTolerated`, `RosterAgrees`, `SeqTracks`, `EntriesRight`, `PreparedIsAnswered`; `ExchangeSpec`, the refinement |
| `media_sync` | 6 files of up to 7 packets, one with a packet that kills its task, one without video, one with more audio in a row than a channel and a task hold; 6 set-ups; channels of 2; tolerance 1 frame | `NothingLost`, `InOrder`, `SyncStateCurrent`, each up to the call of `send_frame`; playback ends and a stop is obeyed, or it hangs in one of two ways and no other: a stream is ahead of one that died (`Stranded`), or of one that gets no packet because the demuxer waits for room in the first one's channel (`Clogged`); `PlaybackSpec`, the refinement |
| `streamer` | 2 channels of 2 guilds; 3 joins, 1 leave, 2 events of others | `SettledCredentials`, `AnnouncedIsHeld`, `ReadyHasCredentials` |
| `webrtc` | counters modulo 2 and 6; two frame times, half and three quarters of a tick over; 8 calls | `SeqContinuous`, `TimestampFollowsMedia`, `ReconfiguredAfterClose` across wraps |
| `h264_frame` | 3082 frames; words of 16 bits | `UnitsFound`: the split gives back the encoder's units; `SpsPatched`: a set comes out as the standard would write it with only its VUI changed; `WriterEscapes`: no start code inside a unit, at any moment; `PanicsOnEarlyEnd`: only a scaling list that ends early makes the rewriter panic; `FrameSent`: the frame as a whole |

Why the bounds are enough: three frames make a handler, its failure and a
repetition, and the properties of `voice_connection` relate at most two frames
to the state between them (for any number of frames they are proved, section
5). Four gateway frames are the longest chain of `voice_session`: a selection,
an exchange that is announced, a second one or an epoch in between (a new group
behind a downgrade among them), and its execution; the third version makes "the handler's version" and "the group's
version" differ in more than being zero; a one-bit binary number wraps within
that. A channel of 2 fills while both tasks hold a packet, and the files carry
one stream ahead of the other by less than, exactly, and more than the
tolerance, and one in decoding order; in the file with a broken packet audio is
ahead when video dies, and in the last file audio fills its channel while it
waits for video, which is the case of `media_stop`. Three joins let the answers to two earlier ones arrive
late.

The sets of `h264_frame` have every choice of the VUI's nine optional groups in
one profile, and every choice of the other parts (profile, chroma, scaling
lists, picture order, interlacing, cropping) with three VUIs. Values have runs
of zeros, so emulation prevention is needed at every shift. Frames of two or
three short units of zeros and ones, with start codes of every length, are for
the split. Words of 16 bits let an offset of the lowest half of `i32` be written
within TLC's integers, which end at 2^31; a set's values stay below that.
`TypeOK` and the action guards exclude nothing here: the specification is
deterministic once the frame is chosen, so the run is a test of the code against
the standard's syntax over these frames.

Runs that show where the code departs from what it says (each is a finding in
`PROJECT.json`, with the quoted line):

| run | what TLC finds |
|---|---|
| `heartbeat` | a Hello is never followed by a heartbeat (connection.rs:191, comment at 306) |
| `downgrade_reported` | select a version other than 0, prepare and execute a downgrade: `is_passthrough` stays false (dave.rs:240) |
| `resume_keeps_group` | a lost connection is resumed by a new one, without the session the gateway counts on (connection.rs:57) |
| `media_stop` | a file with a gap in video longer than the audio channel and the task hold: audio waits for video, video for the demuxer, the demuxer for room in the audio channel; a stop is not seen, and `StopReturns` fails (audio_stream.rs:31). With 128 packets of 20 ms the gap is about two and a half seconds |
| `streamer_tokens` | join in a guild, then in another over it: the late server update of the first is taken (streamer.rs:100) |
| `media_encrypted` | the handler the wrapper was given never joins the group, the connection's does (webrtc.rs:131, README.md:12) |

## 4. Fairness

* `VoiceConnection`: weak fairness of the writer's steps, which Tokio polls; the
  gateway owes nothing, and a send may fail for ever. `TimerSpec` adds the timer
  arm, which makes its counterexample about the code and not about scheduling.
* `VoiceSession`: the loop handles what has arrived, and the writer sends or
  fails. The gateway and the application owe nothing.
* `MediaSync`: the demuxer's thread and each task; nobody has to stop a stream.
  Weak fairness is enough for the wrapper's mutex: a file is finite, so the
  other task cannot take it for ever, and Tokio's mutex is fair besides.
* `Streamer`, `WebRtcWrapper`, `Playback`, `TransitionExchange`, `H264Frame`: none;
  they state safety only.

## 5. Proofs

Every invariant that a passing run checks is proved for all values of the
constants, and so are the refinements of `Playback` and `TransitionExchange`.

| module | theorems | of the run |
|---|---|---|
| `VoiceSession_proofs`, first part | `TypeCorrect`, `TransitionsAcknowledged`, `KeyPackagesBacked`, `EventsAreBacked`, `GreetingIsFirst`; `TimerNeverTicks`: `TimerSpec => Spec` | `voice_connection` |
| `VoiceSession_proofs`, second part | `SessionTypeCorrect`, `ExecutionsRecognised`, `VersionsAgree`, `AcknowledgedInGroup`, `DowngradesTolerated`, `RostersAgree`, `SequenceTracked`, `ImplementsExchange`, `EntriesAreRight` | `voice_session` |
| `MediaSync_proofs` | `TypeCorrect`, `NothingIsLost`, `HandedOverInOrder`, `SyncStatesCurrent`, `ImplementsPlayback` | `media_sync` |
| `Streamer_proofs` | `TypeCorrect`, `HeldIsAnnounced`, `ReadyKeepsCredentials`, `CredentialsSettle` | `streamer` |
| `WebRtcWrapper_proofs` | `TypeCorrect`, `NothingOfAClosedConnection`, `SeqNumbersContinue`, `TimestampsContinue` | `webrtc` |
| `H264Frame_proofs` | `TypesHold`, `WriterEscapesHolds`, `UnitsFoundHolds`, `SpsPatchedHolds`, `PanicsOnEarlyEndHolds`, `FrameSentHolds` | `h264_frame` |

The assumptions are those the modules name. Versions, transitions and sequence
numbers are naturals, 0 is a version and a transition, `None` is none of the
values it stands beside; a file is a sequence of packets, a channel has room for
one packet, a stream is not linked to itself; the widths are positive; the
frames of `H264Frame` are those of `FramesAssumption`, of any length and with any
number of parameter sets. All sets may be infinite. The bounds (`MaxFrames`, `MaxGateway`,
`MaxCalls`, ...) are any numbers.

**VoiceConnection.** The inductive invariant `IInv` is the conjunction of the
properties with two strengthenings. `Blank`: before `start` nothing has been
queued, written, reported or negotiated; without it the frames a started
connection is credited with could have been sent by no one. `GreetingAhead`:
while nothing is on the wire and the writer runs, the head of the queue is the
greeting; `GreetingFirst` alone says nothing of a queue the writer has not
touched. Most handlers are alike to the invariant: they append frames to the
queue, keep a session that is there, and add transitions and events only along
with the frames that back them. The predicate `Effect(msgs)` says this once; one
lemma shows that an action with this effect preserves `IInv`, and each handler
has a lemma that it has the effect for its frames. `DaveHandler_proofs` says what
each operator of the handler keeps (`DaveInitFacts`: a session survives an
`init` that fails, and a key package implies one).

**VoiceSession.** What the two sides know differs by the frames in flight, so
the invariant `SInv` speaks of both queues, and `Agreement` is what holds in a
session that was not resumed. `VersionsRun`: handling the frames up to a commit
takes the handler to the version of the group the commit was made in (`Leads`);
this is what makes `AgreedVersion` inductive, since the connection reads the
version off its handler when the commit arrives. `Opened`, `Answered` and
`Executing`: an exchange is under way once at most, either on its way down, or
answered and on its way up, or ordered to be executed, and nothing of the next
exchange overtakes the execution of the last. `SessionKept`: the member of a
group has a session. `Downgrading`: a client whose key package was with the
gateway when a downgrade was announced has a session from then on, and the session
tolerates plain frames once the announcement has been handled. Any frame may
follow it: `Turn` says that no handler takes a session or its tolerance away, and
the `init` of an epoch renews the session that is there. `RosterRuns`: the last frame that mentions a user is right about it, or else the connection is.
`NumbersRun`: frames are numbered one after the other up to the width of the
binary number, as congruences. `Ungreeted`: nothing happens to a connection
before its greeting has arrived. `Turn(m)` says once what handling a frame does
to all of this, `Delivers(x)` what sending one does, and the proof has one lemma
for each part of the invariant and each of the two directions. TLC checked
`SInv` as an invariant before it was proved.

`ImplementsExchange` rests on `SInv`, which says where the frames of an exchange
can be. A step moves one exchange and leaves the mapping of the others as it was
(`SameExchange`, `SameMap`), or moves none; there is a lemma for each direction:
a frame the gateway sends is an `Announce`, an `Order` or a stutter, one it
receives an `Agree`, a `Withdraw`, the `Open` of the session or a stutter, one
the connection handles an `Accept`, a `Refuse`, a `CarryOut` or a stutter. What
ends the session is a `Break`. `EntriesAreRight` is not proved from the frames: it
follows from the promises of `TransitionExchange` alone, of which it is an
inductive invariant.

**MediaSync.** For each stream: what was read of it is what was handed over, held and
in the channel (`Flowing`), in increasing order (`Ordered`); a task between two
receives has a packet (`Carrying`), which it has just handed over when it records the
timestamp (`JustHanded`); a stream that ended of itself had everything
(`Finished`), which the refinement needs to let `Playback` finish. Streams touch
each other only through the lock (`Locked`). For `ImplementsPlayback` each step
is a `Deliver`, a `Finish`, a `Stop` or a stutter; the packet in a task's hands
is the next one `Playback` would deliver, because it is above all that were handed
over and everything below it was read. `over` is mapped to `Gone`, a task that has
returned or died.

**Streamer.** `CredentialsSettle` rests on `SessionComing` and `TokensComing`:
either the gateway has still to read what the controller announced, or the
answer is in the inbox, behind every answer for another guild, or the connection
has it already.

**WebRtcWrapper.** `TypeCorrect` has the width of the numbers and timestamps of the
tracks and of every packet. The counters are compared by congruences instead of `%`, the
timestamps by `Near`, a congruence up to half a tick for each packet in between;
`NextSeq` and `NextTimestamp` say so of the counter to come, seen from every
packet of the track, `PacketSeqs` and `PacketTimestamps` of two packets.
`Arithmetic` has the congruences.

**H264Frame.** There are three invariants, each on top of the last.

`FrameInv` is about any bytes at all. The units found are the first ones of the
frame and those to be sent the last (`Splitting`, `FoundUnits`), since the first
start code in what is left of the frame is the one in front of the next unit.
The reader and the writer stay in their types (`Readers`, `Writers`), and
what was written has no two zeros followed by a byte up to 2 (`NoEmulation`),
while the bits that wait for the rest of their byte leave room below them for the
ones to come, without which a byte could grow past 255.

`RewriteInv` is about a set whose scaling lists are whole. `RewriteAt` says, for
each part of `rewrite_sps_vui`, which fields are still in front of the reader
and which are still to be written: the rest of the set that was sent, and the
rest of the one it is to become. The two lists of fields are equal up to the
VUI's flag and differ from there. A part takes as many fields off the first as it
reads and off the second as it writes, so at the end there are none, and the
buffer is the writing of the new set. What makes this a step from one part to the
next is `H264Coding_proofs`: `ReadsTo` and `WritesTo` say where a cursor is by
the bits behind and before it, with the emulation prevention bytes taken out;
`FieldRead` and `FieldPut` that reading and putting a field of any of the
standard's codes moves it by that field's bits; `UnitCoded` that the bytes of a
unit are determined by its bits. That the reader never meets the end of the
unit, on which the code panics, is a consequence: there is a field in front of it
whenever a part reads one.

`SentInv` is about the frame: `out` is what goes out for the units that `nalus`
no longer has (`Heads`).

The recursive functions of these modules are functions over numbers of rounds, so
that facts about them follow by a least counterexample among the naturals
(`LeastElement` and `Recursion` in `Arithmetic`), and no induction theorem has to
be instantiated.

Only model-checked: the liveness properties (`WriterStops`, `QueuedIsWritten`,
`PreparedIsAnswered`, `PlaybackEnds`, `StopObeyed`), which are out of TLAPS's
reach.

## 6. Not modelled, and why

* Time: sleeps and intervals are steps that may happen at any moment. A panic in
  `Duration::from_secs_f64` of a negative frame time is the dying task of
  `MediaSync`, without the frame time.
* The `davey`, `webrtc` and `ffmpeg` crates, beyond what the code observes. Of
  `davey` the models assume that `reset` and `reinit` keep the passthrough mode a
  session was told, and they leave out that the mode expires after the seconds
  `set_passthrough_mode` names: `DowngradeTolerated` rests on both.
* `create_stream`, `stop_stream`: they check or return and change nothing.
* `StreamConnection`: two fields on top of a `VoiceConnection` that nothing sets.
* Decoder, encoder settings, opcode numbers, payload formats: data or library state.
* Stream keys and codec names (utils.rs): pure functions on strings.
  `parse_stream_key` has one caller, which goes on with a stream connection that
  never exists, so no state depends on what it returns.
* `parse_opus_duration` and the stream information of the demuxer: numbers that
  reach the models as given, as pts and frame times.
* The H265 helpers, `read_signed` and `write_signed`: nothing calls them.

What the models leave out of what they do model:

* `H264Frame`: an exp-Golomb code with more leading zeros than a word has bits is
  a panic, as the shift it leads to is in a debug build; offsets beyond half the
  range wrap as in a release build. A zero before the first start code of a
  frame would become a unit of its own; encoders send none, and
  `FramesAssumption` leaves it out. The list of high profiles has entries the
  standard has and the code has not; the frames have profiles in both. Frames
  are Annex B, the format the function names (webrtc.rs:382); those of MP4 and
  Matroska files as ffmpeg reads them carry lengths instead, and no set in them
  is found. The comment on top of the demuxer says that it applies Annex-B
  bitstream filters to H264 and H265 (demuxer.rs:3-4); it applies none, and packets
  go on as they are read (demuxer.rs:193).
* `VoiceSession`: a client without a session when a downgrade is announced may get
  one from a group the gateway starts before the execution. That session was told
  nothing and does not tolerate plain frames; `DowngradeTolerated` leaves such
  clients out.
* `MediaSync`: a caller that neither runs a stream nor drops its receiver blocks
  the demuxer for ever; the callers of the model drop it.

## 7. Plan

Done so far: everything above. Left:

1. `Duration` and frame times in `MediaSync`, with `parse_opus_duration`, so that
   a frame time in the wrong unit shows in how long a stream sleeps.
2. Opus durations and stream keys against a reference definition, should
   anything come to depend on them.
