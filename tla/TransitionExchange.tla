-------------------------- MODULE TransitionExchange --------------------------
(***************************************************************************)
(* What the exchange of a DAVE transition promises, whatever frames cross   *)
(* on the way: a transition that is announced is answered, one that is      *)
(* acknowledged is kept by the client at the version it was announced with  *)
(* until its execution arrives, and the next exchange under the same id     *)
(* waits for that.  A session that breaks voids all of it.  VoiceSession    *)
(* implements it.                                                           *)
(***************************************************************************)
CONSTANTS
    Transitions,
    Versions,
    None        \* not a version

VARIABLES
    open,       \* both sides are in one session, and it was not resumed
    stage,      \* of each transition, see Stages
    version,    \* the version it leads to, None while it is idle
    kept,       \* the client's entry for it, or None
    ordered     \* the version its execution, on the way down, is for, or None

vars == <<open, stage, version, kept, ordered>>

Stages == {"idle", "announced", "accepted", "refused", "agreed"}

Nothing == [id \in Transitions |-> None]

Void ==
    /\ stage = [id \in Transitions |-> "idle"]
    /\ version = Nothing
    /\ kept = Nothing
    /\ ordered = Nothing

Init == ~open /\ Void

Open == ~open /\ open' = TRUE /\ UNCHANGED <<stage, version, kept, ordered>>

Break == open /\ open' = FALSE /\ Void'

Moves(id, from, to) ==
    /\ open /\ stage[id] = from
    /\ stage' = [stage EXCEPT ![id] = to]
    /\ UNCHANGED open

Announce(id) ==
    /\ Moves(id, "idle", "announced")
    /\ \E v \in Versions : version' = [version EXCEPT ![id] = v]
    /\ UNCHANGED <<kept, ordered>>

\* The client answers an announcement, once it is done with the last exchange.
Accept(id) ==
    /\ Moves(id, "announced", "accepted")
    /\ ordered[id] = None
    /\ kept' = [kept EXCEPT ![id] = version[id]]
    /\ UNCHANGED <<version, ordered>>

Refuse(id) ==
    /\ Moves(id, "announced", "refused")
    /\ ordered[id] = None
    /\ UNCHANGED <<version, kept, ordered>>

\* The answer arrives.
Agree(id) ==
    /\ Moves(id, "accepted", "agreed")
    /\ UNCHANGED <<version, kept, ordered>>

Withdraw(id) ==
    /\ Moves(id, "refused", "idle")
    /\ version' = [version EXCEPT ![id] = None]
    /\ UNCHANGED <<kept, ordered>>

Order(id) ==
    /\ Moves(id, "agreed", "idle")
    /\ version' = [version EXCEPT ![id] = None]
    /\ ordered' = [ordered EXCEPT ![id] = version[id]]
    /\ UNCHANGED kept

\* The execution arrives.
CarryOut(id) ==
    /\ open /\ ordered[id] # None
    /\ ordered' = [ordered EXCEPT ![id] = None]
    /\ kept' = [kept EXCEPT ![id] = None]
    /\ UNCHANGED <<open, stage, version>>

Exchange(id) ==
    \/ Announce(id) \/ Accept(id) \/ Refuse(id) \/ Agree(id) \/ Withdraw(id)
    \/ Order(id) \/ CarryOut(id)

Next == Open \/ Break \/ \E id \in Transitions : Exchange(id)

Spec == Init /\ [][Next]_vars

-----------------------------------------------------------------------------
(* The client has an entry for the transitions that are acknowledged or     *)
(* being executed and for no others, and it is the version that was         *)
(* announced.                                                               *)
EntriesRight ==
    \A id \in Transitions :
        IF stage[id] \in {"accepted", "agreed"}
        THEN kept[id] = version[id] /\ ordered[id] = None
        ELSE kept[id] = ordered[id]
=============================================================================
