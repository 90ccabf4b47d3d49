---------------------------- MODULE MCVoiceSession ----------------------------
(* A small instance of VoiceSession.  Two versions of DAVE, so that a group *)
(* can be replaced by one of another version; two announced transitions, so *)
(* that exchanges overlap; binary frames numbered modulo 2, so that the     *)
(* number wraps.                                                            *)
EXTENDS VoiceSession

CONSTANTS u1

MCVersions == 0 .. 2
MCTransitionIds == 0 .. 2
MCUsers == {u1}
MCSeqs == 0 .. 8
=============================================================================
