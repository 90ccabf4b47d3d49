------------------------------ MODULE MCStreamer ------------------------------
(* Two channels of two guilds, so that the answers to one join can meet the *)
(* connection of the next.                                                  *)
EXTENDS Streamer

CONSTANTS c1, c2, g1, g2

MCChannels == {c1, c2}
MCGuildOf == [c \in MCChannels |-> IF c = c1 THEN g1 ELSE g2]
=============================================================================
