------------------------------- MODULE Playback -------------------------------
(***************************************************************************)
(* What playing a file promises, whatever threads, channels and waiting do  *)
(* it: each stream hands the packets the file has for it to send_frame, one *)
(* by one in the order of the file, until there are no more, it is stopped, *)
(* or a packet kills it; once over it hands over nothing.  MediaSync         *)
(* implements it.                                                           *)
(***************************************************************************)
EXTENDS Integers, Sequences, Functions

CONSTANTS
    Streams,    \* the streams of a file
    Files,      \* packets [stream, malformed, ..] in file order
    Setups      \* [played, ..]: the streams that are played

VARIABLES
    file,   \* the file being played
    setup,  \* which of its streams are played
    stop,   \* the streams that were told to stop, or are not played
    handed, \* of each stream: the packets handed over, as indices into file
    over    \* the streams that have ended

vars == <<file, setup, stop, handed, over>>

Init ==
    /\ file \in Files
    /\ setup \in Setups
    /\ stop = [s \in Streams |-> s \notin setup.played]
    /\ over = [s \in Streams |-> s \notin setup.played]
    /\ handed = [s \in Streams |-> <<>>]

\* Packet i is the first of stream s that was not handed over.
IsNext(s, i) ==
    /\ i \in DOMAIN file
    /\ file[i].stream = s
    /\ i \notin Range(handed[s])
    /\ \A j \in 1 .. i - 1 : file[j].stream = s => j \in Range(handed[s])

Deliver(s) ==
    /\ ~over[s]
    /\ \E i \in DOMAIN file :
          /\ IsNext(s, i)
          /\ ~file[i].malformed
          /\ handed' = [handed EXCEPT ![s] = Append(@, i)]
    /\ UNCHANGED <<file, setup, stop, over>>

AllHanded(s) == \A i \in DOMAIN file : file[i].stream = s => i \in Range(handed[s])

Dies(s) == \E i \in DOMAIN file : IsNext(s, i) /\ file[i].malformed

Finish(s) ==
    /\ ~over[s]
    /\ stop[s] \/ AllHanded(s) \/ Dies(s)
    /\ over' = [over EXCEPT ![s] = TRUE]
    /\ UNCHANGED <<file, setup, stop, handed>>

Stop(s) ==
    /\ ~stop[s]
    /\ stop' = [stop EXCEPT ![s] = TRUE]
    /\ UNCHANGED <<file, setup, handed, over>>

Next == \E s \in Streams : Deliver(s) \/ Finish(s) \/ Stop(s)

Spec == Init /\ [][Next]_vars
=============================================================================
