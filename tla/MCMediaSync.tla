------------------------------ MODULE MCMediaSync ------------------------------
(* Small files of two streams for MediaSync.  A pts is counted in frame     *)
(* times, and a stream may be one of them ahead.                            *)
EXTENDS MediaSync

Audio(t) == [stream |-> "audio", pts |-> t, malformed |-> FALSE]
Video(t) == [stream |-> "video", pts |-> t, malformed |-> FALSE]
Broken(t) == [stream |-> "video", pts |-> t, malformed |-> TRUE]

MCStreams == {"audio", "video"}

(* In these the skew between the streams stays below what the channels and  *)
(* the tasks hold, as a muxer writes them.  The third has video frames in   *)
(* decoding order, so their timestamps go back and forth; the fourth has a  *)
(* frame the video task does not survive, the fifth no video.               *)
Interleaved == {
    << Audio(0), Video(0), Audio(1), Video(1), Audio(2), Video(2) >>,
    << Video(0), Video(3), Audio(0), Audio(1), Audio(2) >>,
    << Video(0), Audio(0), Video(2), Audio(2), Video(1), Audio(3) >>,
    << Audio(0), Video(0), Audio(2), Broken(1), Audio(3), Video(2) >>,
    << Audio(0), Audio(2), Audio(3) >> }

\* More audio before the next video frame than a channel and a task hold.
Skewed == { << Video(0), Audio(0), Audio(2), Audio(4), Audio(6), Audio(8), Video(1) >> }

AllFiles == Interleaved \cup Skewed

Linked(audio, video) == [s \in MCStreams |-> IF s = "audio" THEN audio ELSE video]

Played(streams, peer, no_sleep) == [played |-> streams, peer |-> peer, no_sleep |-> no_sleep]

Mutual == { Played(MCStreams, Linked("video", "audio"), {}) }

(* Both linked to each other, only one of them linked, none, one that does  *)
(* not sleep, and a caller that plays audio only.                           *)
AllSetups == Mutual \cup {
    Played(MCStreams, Linked("video", None), {}),
    Played(MCStreams, Linked(None, "audio"), {}),
    Played(MCStreams, Linked(None, None), {}),
    Played(MCStreams, Linked("video", "audio"), {"video"}),
    Played({"audio"}, Linked("video", None), {}) }
=============================================================================
