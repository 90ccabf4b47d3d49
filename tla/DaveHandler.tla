----------------------------- MODULE DaveHandler -----------------------------
(***************************************************************************)
(* The end-to-end-encryption handler of a voice connection (src/src/dave.rs).*)
(* It wraps an optional session of the external `davey` crate and the       *)
(* protocol version the connection believes in.                             *)
(*                                                                          *)
(* A call is an operator from the handler's value to the set of outcomes    *)
(* the call may have: the handler afterwards and what the call returned.    *)
(* The caller picks one with \E, which keeps several calls of one message   *)
(* handler in one step.  Whether `davey` accepts an MLS message depends on  *)
(* its cryptographic content, so every `davey` call may succeed or fail.    *)
(***************************************************************************)
EXTENDS Naturals

CONSTANTS
    Versions,   \* DAVE protocol versions the gateway may name; 0 is "no E2EE"
    None        \* Rust's Option::None, wherever a field is an Option

(* What the code observes of a davey session: whether it can encrypt, and  *)
(* whether it was told to let unencrypted frames of other users through.   *)
Session == [ready : BOOLEAN, passthrough : BOOLEAN]

Handler == [protocol_version : Versions, inner : Session \cup {None}]

ASSUME VersionsAssumption == Versions \subseteq Nat /\ 0 \in Versions
ASSUME NoneAssumption == None \notin Nat /\ None \notin Session

HasSession(d) == d.inner # None

\* DaveHandler::new
NewHandler == [protocol_version |-> 0, inner |-> None]

(* What a call returned: "ok" for Ok(()) and Ok(None), "key_package" and   *)
(* "commit_welcome" for the two Ok(Some(..)), "err" for an Err.            *)
Outcome == [dave : Handler, ret : {"ok", "key_package", "commit_welcome", "err"}]

Returns(d, r) == [dave |-> d, ret |-> r]

-----------------------------------------------------------------------------
(* The davey session.                                                      *)

\* Starts from no session at all, as a new handler would.
MutantCleared(d) == [d EXCEPT !.inner = None]

\* DaveSession::reset and DaveSession::reinit: the MLS group is gone.
Cleared(d) == [d EXCEPT !.inner.ready = FALSE]

\* Makes a new session in place of the one there is.
MutantRenewed(d) == [d EXCEPT !.inner = [ready |-> FALSE, passthrough |-> FALSE]]

\* DaveSession::new, or reinit when there is a session already.
Renewed(d) ==
    IF HasSession(d) THEN Cleared(d)
    ELSE [d EXCEPT !.inner = [ready |-> FALSE, passthrough |-> FALSE]]

-----------------------------------------------------------------------------
(* The handler's operations.                                               *)

\* set_passthrough_mode(true, _): the only form the code ever calls.
SetPassthroughMode(d) ==
    IF HasSession(d) THEN [d EXCEPT !.inner.passthrough = TRUE] ELSE d

\* Stores the version only once the session is there.
MutantInitLate(d, version) ==
    LET e == [d EXCEPT !.protocol_version = version] IN
    IF version # 0
    THEN {Returns(Renewed(e), "key_package"), Returns(Renewed(e), "err"), Returns(d, "err")}
    ELSE {Returns(SetPassthroughMode(e), "ok")}

\* Takes the session out to renew it and loses it when that fails.
MutantInitTakes(d, version) ==
    LET e == [d EXCEPT !.protocol_version = version] IN
    IF version # 0
    THEN {Returns(Renewed(e), "key_package"), Returns([e EXCEPT !.inner = None], "err")}
    ELSE {Returns(SetPassthroughMode(e), "ok")}

(* init(version).  The version is stored first, so a failure of any davey  *)
(* call below leaves it changed; the failing call may or may not have      *)
(* cleared the session already.                                            *)
DaveInit(d, version) ==
    LET e == [d EXCEPT !.protocol_version = version] IN
    IF version # 0
    THEN {Returns(Renewed(e), "key_package"), Returns(Renewed(e), "err"), Returns(e, "err")}
    ELSE IF HasSession(e)
         THEN {Returns(SetPassthroughMode(Cleared(e)), "ok"),
               Returns(Cleared(e), "err"), Returns(e, "err")}
         ELSE {Returns(e, "ok")}

(* set_external_sender: nothing the code can observe changes; without a    *)
(* session nothing can fail either.                                        *)
SetExternalSender(d) ==
    {Returns(d, r) : r \in IF HasSession(d) THEN {"ok", "err"} ELSE {"ok"}}

(* process_proposals: without a session nothing happens; with one, davey   *)
(* may have nothing to commit, produce a commit, or reject the proposals.  *)
ProcessProposals(d) ==
    IF HasSession(d)
    THEN {Returns(d, r) : r \in {"ok", "commit_welcome", "err"}}
    ELSE {Returns(d, "ok")}

(* process_commit and process_welcome have the same shape: Ok(()) without  *)
(* a session, otherwise the session joins the group or rejects the bytes.  *)
ProcessGroupMessage(d) ==
    IF HasSession(d)
    THEN {Returns([d EXCEPT !.inner.ready = TRUE], "ok"), Returns(d, "err")}
    ELSE {Returns(d, "ok")}

\* is_ready
IsReady(d) == HasSession(d) /\ d.inner.ready

(* encrypt and encrypt_opus: without a ready session the frame comes back  *)
(* as it was; with one davey encrypts it or fails.                         *)
Encrypt(d) == IF IsReady(d) THEN {"encrypted", "err"} ELSE {"plain"}

\* is_passthrough
IsPassthrough(d) == d.protocol_version = 0
=============================================================================
