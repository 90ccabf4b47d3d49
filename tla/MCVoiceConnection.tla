-------------------------- MODULE MCVoiceConnection --------------------------
(* A small instance of VoiceConnection: one version of DAVE beside "none",  *)
(* the immediate transition and two others, one other user.                  *)
EXTENDS VoiceConnection

CONSTANTS u1

MCVersions == {0, 1}
MCTransitionIds == {0, 1, 2}
MCUsers == {u1}
MCSeqs == {7}
=============================================================================
