-------------------------- MODULE DaveHandler_proofs --------------------------
(***************************************************************************)
(* What the calls of the DAVE handler keep, for every set of versions: the  *)
(* lemmas about its operators that the proofs of its users cite.           *)
(***************************************************************************)
EXTENDS DaveHandler, TLAPS

LEMMA PassthroughFacts ==
    ASSUME NEW d \in Handler
    PROVE  /\ SetPassthroughMode(d) \in Handler
           /\ HasSession(d) => HasSession(SetPassthroughMode(d))
           /\ SetPassthroughMode(d).protocol_version = d.protocol_version
BY NoneAssumption DEF SetPassthroughMode, HasSession, Handler, Session

LEMMA ClearedFacts ==
    ASSUME NEW d \in Handler, HasSession(d)
    PROVE  /\ Cleared(d) \in Handler
           /\ HasSession(Cleared(d))
BY NoneAssumption DEF Cleared, HasSession, Handler, Session

LEMMA RenewedFacts ==
    ASSUME NEW d \in Handler
    PROVE  /\ Renewed(d) \in Handler
           /\ HasSession(Renewed(d))
<1>1. CASE HasSession(d)
  BY <1>1, ClearedFacts DEF Renewed
<1>2. CASE ~HasSession(d)
  <2> DEFINE fresh == [ready |-> FALSE, passthrough |-> FALSE]
  <2>a. fresh \in Session
    BY DEF Session
  <2>1. fresh \in Session /\ fresh # None
    BY <2>a, NoneAssumption
  <2>2. Renewed(d) = [d EXCEPT !.inner = fresh]
    BY <1>2 DEF Renewed
  <2> HIDE DEF fresh
  <2> QED BY <2>1, <2>2 DEF HasSession, Handler
<1> QED BY <1>1, <1>2

\* init keeps a session there is, and returns a key package only with one.
LEMMA DaveInitFacts ==
    ASSUME NEW d \in Handler, NEW v \in Versions, NEW o \in DaveInit(d, v)
    PROVE  /\ o.dave \in Handler
           /\ o.ret \in {"ok", "key_package", "err"}
           /\ HasSession(d) => HasSession(o.dave)
           /\ o.ret = "key_package" => HasSession(o.dave)
           /\ o.ret = "ok" => v = 0
<1> DEFINE e == [d EXCEPT !.protocol_version = v]
<1>1. e \in Handler /\ (HasSession(d) <=> HasSession(e))
  BY DEF Handler, HasSession
<1>2. CASE v # 0
  <2>1. o \in {Returns(Renewed(e), "key_package"), Returns(Renewed(e), "err"), Returns(e, "err")}
    BY <1>2 DEF DaveInit
  <2>2. Renewed(e) \in Handler /\ HasSession(Renewed(e))
    BY <1>1, RenewedFacts
  <2> QED BY <1>1, <2>1, <2>2 DEF Returns
<1>3. CASE v = 0 /\ HasSession(d)
  <2>1. o \in {Returns(SetPassthroughMode(Cleared(e)), "ok"),
               Returns(Cleared(e), "err"), Returns(e, "err")}
    BY <1>1, <1>3 DEF DaveInit
  <2>2. Cleared(e) \in Handler /\ HasSession(Cleared(e))
    BY <1>1, <1>3, ClearedFacts
  <2>3. /\ SetPassthroughMode(Cleared(e)) \in Handler
        /\ HasSession(SetPassthroughMode(Cleared(e)))
    BY <2>2, PassthroughFacts
  <2> QED BY <1>1, <1>3, <2>1, <2>2, <2>3 DEF Returns
<1>4. CASE v = 0 /\ ~HasSession(d)
  <2>1. o = Returns(e, "ok")
    BY <1>1, <1>4 DEF DaveInit
  <2> QED BY <1>1, <1>4, <2>1 DEF Returns
<1> QED BY <1>2, <1>3, <1>4

LEMMA GroupMessageFacts ==
    ASSUME NEW d \in Handler, NEW o \in ProcessGroupMessage(d)
    PROVE  /\ o.dave \in Handler
           /\ HasSession(d) => HasSession(o.dave)
<1>1. CASE ~HasSession(d)
  BY <1>1 DEF ProcessGroupMessage, Returns
<1>2. CASE HasSession(d)
  <2> DEFINE joined == [d.inner EXCEPT !.ready = TRUE]
             e == [d EXCEPT !.inner.ready = TRUE]
  <2>1. d.inner \in Session
    BY <1>2 DEF HasSession, Handler
  <2>a. joined \in Session
    BY <2>1 DEF Session
  <2>2. joined \in Session /\ joined # None
    BY <2>a, NoneAssumption
  <2>3. e = [d EXCEPT !.inner = joined]
    BY DEF Handler
  <2>4. e \in Handler /\ HasSession(e)
    BY <2>2, <2>3 DEF Handler, HasSession
  <2>5. o \in {Returns(e, "ok"), Returns(d, "err")}
    BY <1>2 DEF ProcessGroupMessage
  <2> HIDE DEF e
  <2> QED BY <1>2, <2>4, <2>5 DEF Returns
<1> QED BY <1>1, <1>2

LEMMA ExternalSenderFacts ==
    ASSUME NEW d \in Handler, NEW o \in SetExternalSender(d)
    PROVE  o.dave = d
BY DEF SetExternalSender, Returns

-----------------------------------------------------------------------------
(* The version, and the mode that lets plain frames through: every call     *)
(* keeps the mode of a session there is, and only init sets the version.    *)

Tolerant(d) == HasSession(d) /\ d.inner.passthrough

LEMMA PassthroughKeeps ==
    ASSUME NEW d \in Handler
    PROVE  /\ HasSession(SetPassthroughMode(d)) <=> HasSession(d)
           /\ HasSession(d) => Tolerant(SetPassthroughMode(d))
<1>1. CASE ~HasSession(d)
  BY <1>1 DEF SetPassthroughMode
<1>2. CASE HasSession(d)
  <2>1. d.inner \in Session /\ [d.inner EXCEPT !.passthrough = TRUE] \in Session
    BY <1>2 DEF HasSession, Handler, Session
  <2>2. [d.inner EXCEPT !.passthrough = TRUE].passthrough = TRUE
    BY <2>1 DEF Session
  <2>3. SetPassthroughMode(d).inner = [d.inner EXCEPT !.passthrough = TRUE]
    BY <1>2 DEF SetPassthroughMode, Handler
  <2> QED BY <1>2, <2>1, <2>2, <2>3, NoneAssumption DEF Tolerant, HasSession
<1> QED BY <1>1, <1>2

LEMMA ClearedKeeps ==
    ASSUME NEW d \in Handler, HasSession(d)
    PROVE  /\ Cleared(d).protocol_version = d.protocol_version
           /\ Cleared(d).inner.passthrough = d.inner.passthrough
<1>1. d.inner \in Session
  BY DEF HasSession, Handler
<1>2. Cleared(d).inner = [d.inner EXCEPT !.ready = FALSE]
  BY DEF Cleared, Handler
<1>3. [d.inner EXCEPT !.ready = FALSE].passthrough = d.inner.passthrough
  BY <1>1 DEF Session
<1> QED BY <1>2, <1>3 DEF Cleared, Handler

LEMMA DaveInitKeeps ==
    ASSUME NEW d \in Handler, NEW v \in Versions, NEW o \in DaveInit(d, v)
    PROVE  /\ o.dave.protocol_version = v
           /\ Tolerant(d) => Tolerant(o.dave)
<1> DEFINE e == [d EXCEPT !.protocol_version = v]
<1>1. /\ e \in Handler /\ e.protocol_version = v /\ e.inner = d.inner
      /\ HasSession(d) <=> HasSession(e)
  BY DEF Handler, HasSession
<1>2. HasSession(d) =>
         /\ Cleared(e) \in Handler /\ HasSession(Cleared(e))
         /\ Cleared(e).protocol_version = v /\ Cleared(e).inner.passthrough = d.inner.passthrough
  BY <1>1, ClearedFacts, ClearedKeeps
<1>3. Renewed(e).protocol_version = v
  <2>1. CASE HasSession(e)
    BY <1>1, <1>2, <2>1 DEF Renewed
  <2>2. CASE ~HasSession(e)
    BY <1>1, <2>2 DEF Renewed, Handler
  <2> QED BY <2>1, <2>2
<1>4. HasSession(d) => Renewed(e) = Cleared(e)
  BY <1>1 DEF Renewed
<1>5. HasSession(d) =>
         /\ SetPassthroughMode(Cleared(e)).protocol_version = v
         /\ Tolerant(SetPassthroughMode(Cleared(e)))
  BY <1>2, PassthroughFacts, PassthroughKeeps
<1>6. \/ o.dave = e
      \/ o.dave = Renewed(e) /\ v # 0
      \/ o.dave = Cleared(e) /\ HasSession(d)
      \/ o.dave = SetPassthroughMode(Cleared(e)) /\ HasSession(d)
  <2>1. CASE v # 0
    BY <2>1 DEF DaveInit, Returns
  <2>2. CASE v = 0 /\ HasSession(e)
    BY <1>1, <2>2 DEF DaveInit, Returns
  <2>3. CASE v = 0 /\ ~HasSession(e)
    BY <2>3 DEF DaveInit, Returns
  <2> QED BY <2>1, <2>2, <2>3
<1> HIDE DEF e
<1>7. CASE ~HasSession(d)
  BY <1>1, <1>3, <1>6, <1>7 DEF Tolerant
<1>8. CASE HasSession(d)
  BY <1>1, <1>2, <1>3, <1>4, <1>5, <1>6, <1>8 DEF Tolerant
<1> QED BY <1>7, <1>8

LEMMA GroupMessageKeeps ==
    ASSUME NEW d \in Handler, NEW o \in ProcessGroupMessage(d)
    PROVE  /\ o.dave.protocol_version = d.protocol_version
           /\ HasSession(o.dave) <=> HasSession(d)
           /\ Tolerant(d) => Tolerant(o.dave)
           /\ o.ret \in {"ok", "err"}
           /\ o.ret = "err" => HasSession(d)
<1>1. CASE ~HasSession(d)
  BY <1>1 DEF ProcessGroupMessage, Returns, Tolerant
<1>2. CASE HasSession(d)
  <2>1. d.inner \in Session
    BY <1>2 DEF HasSession, Handler
  <2> DEFINE e == [d EXCEPT !.inner.ready = TRUE]
  <2>2. /\ e.inner = [d.inner EXCEPT !.ready = TRUE]
        /\ e.protocol_version = d.protocol_version
    BY DEF Handler
  <2>3. e.inner \in Session /\ e.inner.passthrough = d.inner.passthrough
    BY <2>1, <2>2 DEF Session
  <2>4. HasSession(e)
    BY <2>3, NoneAssumption DEF HasSession
  <2>5. o \in {Returns(e, "ok"), Returns(d, "err")}
    BY <1>2 DEF ProcessGroupMessage
  <2> HIDE DEF e
  <2>6. o.dave \in {d, e} /\ o.ret \in {"ok", "err"}
    BY <2>5 DEF Returns
  <2> QED BY <1>2, <2>2, <2>3, <2>4, <2>6 DEF Tolerant
<1> QED BY <1>1, <1>2
==============================================================================
