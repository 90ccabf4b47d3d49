--------------------------- MODULE MediaSync_proofs ---------------------------
(***************************************************************************)
(* What is proved of MediaSync for any file, capacity, tolerance and set-up *)
(* of the streams: nothing is lost or reordered, the sync states are        *)
(* current, and Playback is implemented.                                   *)
(***************************************************************************)
EXTENDS MediaSync, TLAPS

-----------------------------------------------------------------------------
(* Increasing sequences of packets.                                        *)

Increasing(q) == \A i, j \in DOMAIN q : i < j => q[i] < q[j]

LEMMA AppendFacts ==
    ASSUME NEW n \in Nat, NEW q \in Seq(1 .. n), NEW e \in 1 .. n
    PROVE  /\ Append(q, e) \in Seq(1 .. n)
           /\ Append(q, e) # <<>>
           /\ Append(q, e)[Len(Append(q, e))] = e
           /\ Range(Append(q, e)) = Range(q) \cup {e}
<1> DEFINE p == Append(q, e)
<1>1. /\ p \in Seq(1 .. n) /\ Len(p) = Len(q) + 1 /\ DOMAIN p = 1 .. Len(q) + 1
      /\ \A i \in 1 .. Len(q) : p[i] = q[i]
      /\ p[Len(q) + 1] = e
      /\ DOMAIN q = 1 .. Len(q) /\ Len(q) \in Nat
  OBVIOUS
<1> HIDE DEF p
<1>2. p # <<>> /\ p[Len(p)] = e
  BY <1>1
<1>3. Range(p) = Range(q) \cup {e}
  <2>1. ASSUME NEW i \in DOMAIN p PROVE p[i] \in Range(q) \cup {e}
    <3>1. CASE i = Len(q) + 1
      BY <1>1, <3>1
    <3>2. CASE i # Len(q) + 1
      <4>1. i \in DOMAIN q /\ p[i] = q[i]
        BY <1>1, <3>2
      <4> QED BY <4>1 DEF Range
    <3> QED BY <3>1, <3>2
  <2>2. ASSUME NEW i \in DOMAIN q PROVE q[i] \in Range(p)
    <3>1. i \in DOMAIN p /\ p[i] = q[i]
      BY <1>1
    <3> QED BY <3>1 DEF Range
  <2>3. e \in Range(p)
    <3>1. Len(q) + 1 \in DOMAIN p
      BY <1>1
    <3> QED BY <1>1, <3>1 DEF Range
  <2> QED BY <2>1, <2>2, <2>3 DEF Range
<1> QED BY <1>1, <1>2, <1>3 DEF p

LEMMA AppendIncreasing ==
    ASSUME NEW n \in Nat, NEW q \in Seq(1 .. n), NEW e \in 1 .. n,
           Increasing(q), \A x \in Range(q) : x < e
    PROVE  Increasing(Append(q, e))
<1> DEFINE p == Append(q, e)
<1>1. /\ DOMAIN p = 1 .. Len(q) + 1 /\ p[Len(q) + 1] = e
      /\ \A i \in 1 .. Len(q) : p[i] = q[i]
      /\ DOMAIN q = 1 .. Len(q) /\ Len(q) \in Nat
  OBVIOUS
<1> HIDE DEF p
<1>2. SUFFICES ASSUME NEW i \in DOMAIN p, NEW j \in DOMAIN p, i < j PROVE p[i] < p[j]
  BY DEF Increasing, p
<1>3. i \in DOMAIN q /\ p[i] = q[i] /\ q[i] \in Range(q)
  BY <1>1, <1>2 DEF Range
<1>4. CASE j \in DOMAIN q
  BY <1>1, <1>2, <1>3, <1>4 DEF Increasing
<1>5. CASE j \notin DOMAIN q
  BY <1>1, <1>2, <1>3, <1>5
<1> QED BY <1>4, <1>5

LEMMA HeadTailFacts ==
    ASSUME NEW n \in Nat, NEW q \in Seq(1 .. n), q # <<>>
    PROVE  /\ Head(q) \in 1 .. n
           /\ Tail(q) \in Seq(1 .. n)
           /\ Range(q) = {Head(q)} \cup Range(Tail(q))
           /\ Increasing(q) => Increasing(Tail(q)) /\ \A x \in Range(Tail(q)) : Head(q) < x
<1> DEFINE p == Tail(q)
<1>1. /\ Head(q) = q[1] /\ Head(q) \in 1 .. n
      /\ p \in Seq(1 .. n) /\ Len(p) = Len(q) - 1 /\ DOMAIN p = 1 .. Len(q) - 1
      /\ \A i \in 1 .. Len(q) - 1 : p[i] = q[i + 1]
      /\ DOMAIN q = 1 .. Len(q) /\ Len(q) \in Nat /\ Len(q) > 0
  OBVIOUS
<1> HIDE DEF p
<1>2. ASSUME NEW m \in Nat, NEW i \in 1 .. m - 1
      PROVE  i \in Int /\ i + 1 \in 1 .. m /\ 1 < i + 1
  OBVIOUS
<1>3. ASSUME NEW i \in DOMAIN p
      PROVE  i \in Int /\ i + 1 \in DOMAIN q /\ 1 < i + 1 /\ p[i] = q[i + 1]
  <2>1. i \in 1 .. Len(q) - 1
    BY <1>1
  <2>2. i \in Int /\ i + 1 \in 1 .. Len(q) /\ 1 < i + 1
    BY <1>1, <1>2, <2>1
  <2>3. p[i] = q[i + 1]
    BY <1>1, <2>1
  <2> QED BY <1>1, <2>2, <2>3
<1>4. 1 \in DOMAIN q
  BY <1>1
<1>5. Range(q) = {Head(q)} \cup Range(p)
  <2>1. ASSUME NEW i \in DOMAIN q PROVE q[i] \in {q[1]} \cup Range(p)
    <3>1. CASE i = 1
      <4>1. q[i] = q[1]
        BY <3>1
      <4> QED BY <4>1
    <3>2. CASE i # 1
      <4>1. i \in 1 .. Len(q) /\ i - 1 \in 1 .. Len(q) - 1 /\ (i - 1) + 1 = i
        BY <1>1, <3>2
      <4>2. i - 1 \in DOMAIN p /\ p[i - 1] = q[i]
        BY <1>1, <4>1
      <4> QED BY <4>2 DEF Range
    <3> QED BY <3>1, <3>2
  <2>2. q[1] \in Range(q)
    BY <1>4 DEF Range
  <2>3. ASSUME NEW i \in DOMAIN p PROVE p[i] \in Range(q)
    BY <1>3 DEF Range
  <2> QED BY <1>1, <2>1, <2>2, <2>3 DEF Range
<1>6. ASSUME Increasing(q) PROVE Increasing(p) /\ \A x \in Range(p) : Head(q) < x
  <2>1. ASSUME NEW i \in DOMAIN p, NEW j \in DOMAIN p, i < j PROVE p[i] < p[j]
    <3>1. /\ i + 1 \in DOMAIN q /\ p[i] = q[i + 1] /\ i \in Int
          /\ j + 1 \in DOMAIN q /\ p[j] = q[j + 1] /\ j \in Int
      BY <1>3
    <3>2. i + 1 < j + 1
      BY <2>1, <3>1
    <3> QED BY <1>6, <3>1, <3>2 DEF Increasing
  <2>2. ASSUME NEW i \in DOMAIN p PROVE q[1] < p[i]
    BY <1>6, <1>3, <1>4 DEF Increasing
  <2> QED BY <1>1, <2>1, <2>2 DEF Increasing, Range
<1> QED BY <1>1, <1>5, <1>6 DEF p

LEMMA EmptyFacts ==
    /\ Range(<<>>) = {}
    /\ \A n \in Nat : <<>> \in Seq(1 .. n)
    /\ Increasing(<<>>)
BY DEF Range, Increasing

-----------------------------------------------------------------------------
(* The inductive invariant.                                                *)

\* Between a receive and the next, a task has a packet in its hands.
Busy == Pc \ {"recv", "ended", "dead"}

Carrying(s) == pc[s] \in Busy => pkt[s] \in DOMAIN file

\* The packets read and not lost, while the stream plays.
Flowing(s) ==
    ~Gone(s) => Read(s) = Range(handed[s]) \cup Held(s) \cup Range(chan[s])

\* A stream that ended of itself had everything.
Finished(s) ==
    Gone(s) => /\ chan[s] = <<>>
               /\ pc[s] = "ended" /\ ~stop[s] =>
                     demuxer = "done" /\ Read(s) = Range(handed[s])

JustHanded(s) == pc[s] = "update" => handed[s] # <<>> /\ pkt[s] = handed[s][Len(handed[s])]

Ordered(s) ==
    /\ Increasing(handed[s])
    /\ Increasing(chan[s])
    /\ \A x \in Range(handed[s]), y \in Held(s) \cup Range(chan[s]) : x < y
    /\ \A x \in Held(s), y \in Range(chan[s]) : x < y

Shown(s) ==
    pc[s] # "update" =>
        state[s].pts_ms = (IF handed[s] = <<>> THEN None ELSE file[handed[s][Len(handed[s])]].pts)

StreamInv(s) ==
    /\ Carrying(s)
    /\ Flowing(s)
    /\ Finished(s)
    /\ JustHanded(s)
    /\ Ordered(s)
    /\ Shown(s)

DoneAtEnd == demuxer = "done" => pos = Len(file) + 1

Locked == \A s \in Streams : pc[s] = "send" <=> lock = s

IInv == TypeOK /\ DoneAtEnd /\ Locked /\ \A s \in Streams : StreamInv(s)

\* What a step leaves of stream t.
Untouched(t) ==
    /\ chan'[t] = chan[t] /\ pc'[t] = pc[t] /\ pkt'[t] = pkt[t]
    /\ state'[t] = state[t] /\ stop'[t] = stop[t] /\ handed'[t] = handed[t]

LEMMA UntouchedKept ==
    ASSUME NEW t \in Streams, StreamInv(t), Untouched(t), UNCHANGED demuxVars
    PROVE  StreamInv(t)'
<1> USE DEF Untouched, demuxVars
<1>1. Carrying(t)'
  BY DEF StreamInv, Carrying
<1>2. Read(t)' = Read(t) /\ Held(t)' = Held(t) /\ Gone(t)' = Gone(t)
  BY DEF Read, Held, Gone
<1>3. Flowing(t)'
  BY <1>2 DEF StreamInv, Flowing
<1>4. Finished(t)'
  BY <1>2 DEF StreamInv, Finished
<1>5. JustHanded(t)'
  BY DEF StreamInv, JustHanded
<1>6. Ordered(t)'
  BY <1>2 DEF StreamInv, Ordered
<1>7. Shown(t)'
  BY DEF StreamInv, Shown
<1> QED BY <1>1, <1>3, <1>4, <1>5, <1>6, <1>7 DEF StreamInv

LEMMA FileFacts ==
    ASSUME TypeOK
    PROVE  /\ Len(file) \in Nat
           /\ DOMAIN file = 1 .. Len(file)
           /\ \A i \in DOMAIN file :
                 file[i].stream \in Streams /\ file[i].pts \in Nat
                 /\ file[i].malformed \in BOOLEAN
<1>1. file \in Seq(Packet)
  BY FilesAssumption DEF TypeOK
<1>2. \A i \in DOMAIN file : file[i] \in Packet
  BY <1>1
<1> QED BY <1>1, <1>2 DEF Packet

LEMMA InitIInv == Init => IInv
<1> SUFFICES ASSUME Init PROVE IInv
  OBVIOUS
<1>0. file \in Seq(Packet) /\ Len(file) \in Nat
  BY FilesAssumption DEF Init
<1>1. TypeOK
  BY <1>0, EmptyFacts DEF Init, TypeOK, Pc
<1>2. DoneAtEnd
  BY DEF Init, DoneAtEnd
<1>3. Locked
  BY NoneNotStream DEF Init, Locked
<1>4. ASSUME NEW s \in Streams PROVE StreamInv(s)
  <2>1. /\ pc[s] \in {"recv", "ended"}
        /\ chan[s] = <<>> /\ handed[s] = <<>> /\ state[s].pts_ms = None
        /\ Held(s) = {} /\ Read(s) = {}
    BY <1>4 DEF Init, Held, Read
  <2>2. pc[s] = "ended" => stop[s]
    <3>1. pc[s] = (IF s \in setup.played THEN "recv" ELSE "ended")
      BY <1>4 DEF Init
    <3>2. stop[s] = (s \notin setup.played)
      BY <1>4, Zenon DEF Init
    <3> QED BY <3>1, <3>2
  <2> QED BY <2>1, <2>2, EmptyFacts
    DEF StreamInv, Carrying, Flowing, Finished, JustHanded, Ordered, Shown, Busy, Pc, Gone
<1> QED BY <1>1, <1>2, <1>3, <1>4 DEF IInv

-----------------------------------------------------------------------------
(* The steps of a task.                                                    *)

\* A step of one task is the others' concern only through the lock.
LEMMA TaskKept ==
    ASSUME IInv, NEW s \in Streams, UNCHANGED demuxVars,
           \A t \in Streams \ {s} : Untouched(t),
           TypeOK', Locked', StreamInv(s)'
    PROVE  IInv'
<1>1. ASSUME NEW t \in Streams PROVE StreamInv(t)'
  <2>1. CASE t = s
    BY <2>1
  <2>2. CASE t # s
    BY <2>2, UntouchedKept DEF IInv
  <2> QED BY <2>1, <2>2
<1>2. DoneAtEnd'
  BY DEF IInv, DoneAtEnd, demuxVars
<1> QED BY <1>1, <1>2 DEF IInv

LEMMA EndKept ==
    ASSUME IInv, NEW s \in Streams, pc[s] = "recv",
           stop[s] \/ (chan[s] = <<>> /\ demuxer = "done"), End(s)
    PROVE  IInv'
<1> USE DEF End, Goto, demuxVars
<1>1. TypeOK'
  <2>1. state' \in [Streams -> [pts_ms : Nat \cup {None}, ended : BOOLEAN]]
    BY DEF IInv, TypeOK
  <2>2. chan' \in [Streams -> Seq(1 .. Len(file))]
    BY FileFacts, EmptyFacts DEF IInv, TypeOK
  <2>3. pc' \in [Streams -> Pc]
    BY DEF IInv, TypeOK, Pc
  <2> QED BY <2>1, <2>2, <2>3 DEF IInv, TypeOK
<1>2. /\ pc'[s] = "ended" /\ chan'[s] = <<>>
      /\ state'[s].pts_ms = state[s].pts_ms
      /\ handed'[s] = handed[s] /\ stop'[s] = stop[s]
      /\ \A t \in Streams \ {s} : Untouched(t)
  BY DEF IInv, TypeOK, Untouched
<1>3. Locked'
  BY <1>2 DEF IInv, Locked, TypeOK
<1>4. Held(s) = {} /\ Held(s)' = {} /\ Read(s)' = Read(s)
  BY <1>2 DEF Held, Read
<1>5. Finished(s)'
  <2>1. CASE stop[s]
    BY <1>2, <2>1 DEF Finished
  <2>2. CASE ~stop[s]
    <3>1. Read(s) = Range(handed[s])
      BY <1>4, <2>2, EmptyFacts DEF IInv, StreamInv, Flowing, Gone
    <3> QED BY <1>2, <1>4, <2>2, <3>1 DEF Finished
  <2> QED BY <2>1, <2>2
<1>6. Carrying(s)' /\ Flowing(s)' /\ JustHanded(s)'
  BY <1>2 DEF Carrying, Busy, Flowing, Gone, JustHanded
<1>7. Ordered(s)'
  BY <1>2, <1>4, EmptyFacts DEF IInv, StreamInv, Ordered
<1>8. Shown(s)'
  BY <1>2 DEF IInv, StreamInv, Shown
<1>9. StreamInv(s)'
  BY <1>5, <1>6, <1>7, <1>8 DEF StreamInv
<1> QED BY <1>1, <1>2, <1>3, <1>9, TaskKept

LEMMA ReceiveKept ==
    ASSUME IInv, NEW s \in Streams, Receive(s)
    PROVE  IInv'
<1> USE DEF Receive, Goto, demuxVars
<1>0. /\ Len(file) \in Nat /\ DOMAIN file = 1 .. Len(file)
      /\ chan[s] \in Seq(1 .. Len(file)) /\ chan[s] # <<>>
  BY FileFacts DEF IInv, TypeOK
<1>1. /\ Head(chan[s]) \in 1 .. Len(file)
      /\ Tail(chan[s]) \in Seq(1 .. Len(file))
      /\ Range(chan[s]) = {Head(chan[s])} \cup Range(Tail(chan[s]))
      /\ Increasing(chan[s]) => /\ Increasing(Tail(chan[s]))
                                /\ \A x \in Range(Tail(chan[s])) : Head(chan[s]) < x
  BY <1>0, HeadTailFacts
<1>2. TypeOK'
  <2>1. pkt' \in [Streams -> 0 .. Len(file)]
    BY <1>0, <1>1 DEF IInv, TypeOK
  <2>2. chan' \in [Streams -> Seq(1 .. Len(file))]
    BY <1>1 DEF IInv, TypeOK
  <2>3. pc' \in [Streams -> Pc]
    BY DEF IInv, TypeOK, Pc
  <2> QED BY <2>1, <2>2, <2>3 DEF IInv, TypeOK
<1>3. /\ pc[s] = "recv" /\ pc'[s] = "lock"
      /\ chan'[s] = Tail(chan[s]) /\ pkt'[s] = Head(chan[s])
      /\ state'[s] = state[s] /\ handed'[s] = handed[s] /\ stop'[s] = stop[s]
      /\ \A t \in Streams \ {s} : Untouched(t)
  BY DEF IInv, TypeOK, Untouched
<1>4. Locked'
  BY <1>3 DEF IInv, Locked, TypeOK
<1>5. Held(s) = {} /\ Held(s)' = {Head(chan[s])} /\ Read(s)' = Read(s)
  BY <1>3 DEF Held, Read
<1>6. Carrying(s)' /\ Finished(s)' /\ JustHanded(s)'
  BY <1>0, <1>1, <1>3 DEF Carrying, Busy, Finished, Gone, JustHanded
<1>7. Flowing(s)'
  BY <1>1, <1>3, <1>5 DEF IInv, StreamInv, Flowing, Gone
<1>8. Ordered(s)'
  BY <1>1, <1>3, <1>5 DEF IInv, StreamInv, Ordered
<1>9. Shown(s)'
  BY <1>3 DEF IInv, StreamInv, Shown
<1> QED BY <1>2, <1>3, <1>4, <1>6, <1>7, <1>8, <1>9, TaskKept DEF StreamInv

LEMMA AcquireKept ==
    ASSUME IInv, NEW s \in Streams, Acquire(s)
    PROVE  IInv'
<1> USE DEF Acquire, Goto, demuxVars
<1>1. TypeOK'
  <2>1. pc' \in [Streams -> Pc]
    BY DEF IInv, TypeOK, Pc
  <2> QED BY <2>1 DEF IInv, TypeOK
<1>2. /\ pc[s] = "lock" /\ pc'[s] = "send"
      /\ chan'[s] = chan[s] /\ pkt'[s] = pkt[s]
      /\ state'[s] = state[s] /\ handed'[s] = handed[s] /\ stop'[s] = stop[s]
      /\ \A t \in Streams \ {s} : Untouched(t)
  BY DEF IInv, TypeOK, Untouched
<1>3. Locked'
  BY <1>2, NoneNotStream DEF IInv, Locked, TypeOK
<1>4. Held(s)' = Held(s) /\ Read(s)' = Read(s)
  BY <1>2 DEF Held, Read
<1>5. Carrying(s)' /\ Finished(s)' /\ JustHanded(s)'
  BY <1>2 DEF IInv, StreamInv, Carrying, Busy, Pc, Finished, Gone, JustHanded
<1>6. Flowing(s)'
  BY <1>2, <1>4 DEF IInv, StreamInv, Flowing, Gone
<1>7. Ordered(s)'
  BY <1>2, <1>4 DEF IInv, StreamInv, Ordered
<1>8. Shown(s)'
  BY <1>2 DEF IInv, StreamInv, Shown
<1> QED BY <1>1, <1>2, <1>3, <1>5, <1>6, <1>7, <1>8, TaskKept DEF StreamInv

LEMMA SendFrameKept ==
    ASSUME IInv, NEW s \in Streams, SendFrame(s)
    PROVE  IInv'
<1> USE DEF SendFrame, Goto, demuxVars
<1>0. /\ Len(file) \in Nat /\ handed[s] \in Seq(1 .. Len(file))
      /\ pc[s] = "send" /\ pkt[s] \in 1 .. Len(file)
  BY FileFacts DEF IInv, TypeOK, StreamInv, Carrying, Busy, Pc
<1>1. Held(s) = {pkt[s]} /\ \A x \in Range(handed[s]) : x < pkt[s]
  BY <1>0 DEF Held, IInv, StreamInv, Ordered
<1> DEFINE q == Append(handed[s], pkt[s])
<1>2. /\ q \in Seq(1 .. Len(file)) /\ q # <<>> /\ q[Len(q)] = pkt[s]
      /\ Range(q) = Range(handed[s]) \cup {pkt[s]}
      /\ Increasing(handed[s]) => Increasing(q)
  <2>1. /\ q \in Seq(1 .. Len(file)) /\ q # <<>> /\ q[Len(q)] = pkt[s]
        /\ Range(q) = Range(handed[s]) \cup {pkt[s]}
    BY <1>0, AppendFacts
  <2>2. ASSUME Increasing(handed[s]) PROVE Increasing(q)
    BY <1>0, <1>1, <2>2, AppendIncreasing
  <2> QED BY <2>1, <2>2
<1>3. /\ pc'[s] = "update" /\ handed'[s] = q
      /\ chan'[s] = chan[s] /\ pkt'[s] = pkt[s]
      /\ state'[s] = state[s] /\ stop'[s] = stop[s]
      /\ \A t \in Streams \ {s} : Untouched(t)
  BY DEF IInv, TypeOK, Untouched
<1>4. TypeOK'
  <2>1. pc' \in [Streams -> Pc]
    BY DEF IInv, TypeOK, Pc
  <2>2. handed' \in [Streams -> Seq(1 .. Len(file))]
    BY <1>2 DEF IInv, TypeOK
  <2> QED BY <2>1, <2>2 DEF IInv, TypeOK
<1>5. Locked'
  BY <1>0, <1>3, NoneNotStream DEF IInv, Locked, TypeOK
<1> HIDE DEF q
<1>6. Held(s)' = {} /\ Read(s)' = Read(s)
  BY <1>3 DEF Held, Read
<1>7. Carrying(s)' /\ Finished(s)' /\ JustHanded(s)' /\ Shown(s)'
  BY <1>0, <1>2, <1>3, FileFacts
    DEF IInv, Carrying, Finished, Gone, JustHanded, Shown
<1>8. Flowing(s)'
  BY <1>0, <1>1, <1>2, <1>3, <1>6 DEF IInv, StreamInv, Flowing, Gone
<1>9. Ordered(s)'
  <2>1. Ordered(s)
    BY DEF IInv, StreamInv
  <2>2. \A x \in Range(q), y \in Range(chan[s]) : x < y
    BY <1>1, <1>2, <2>1 DEF Ordered
  <2> QED BY <1>2, <1>3, <1>6, <2>1, <2>2 DEF Ordered
<1> QED BY <1>3, <1>4, <1>5, <1>7, <1>8, <1>9, TaskKept DEF StreamInv

LEMMA SendPanicsKept ==
    ASSUME IInv, NEW s \in Streams, SendPanics(s)
    PROVE  IInv'
<1> USE DEF SendPanics, Goto, demuxVars
<1>1. TypeOK'
  <2>1. pc' \in [Streams -> Pc]
    BY DEF IInv, TypeOK, Pc
  <2>2. chan' \in [Streams -> Seq(1 .. Len(file))]
    BY FileFacts, EmptyFacts DEF IInv, TypeOK
  <2> QED BY <2>1, <2>2 DEF IInv, TypeOK
<1>2. /\ pc[s] = "send" /\ pc'[s] = "dead"
      /\ chan'[s] = <<>> /\ pkt'[s] = pkt[s]
      /\ state'[s] = state[s] /\ handed'[s] = handed[s] /\ stop'[s] = stop[s]
      /\ \A t \in Streams \ {s} : Untouched(t)
  BY DEF IInv, TypeOK, Untouched
<1>3. Locked'
  BY <1>2, NoneNotStream DEF IInv, Locked, TypeOK
<1>4. Held(s)' = {}
  BY <1>2 DEF Held
<1>5. Carrying(s)' /\ Flowing(s)' /\ Finished(s)' /\ JustHanded(s)'
  BY <1>2 DEF Carrying, Busy, Flowing, Finished, Gone, JustHanded
<1>6. Ordered(s)'
  BY <1>2, <1>4, EmptyFacts DEF IInv, StreamInv, Ordered
<1>7. Shown(s)'
  BY <1>2 DEF IInv, StreamInv, Shown
<1> QED BY <1>1, <1>2, <1>3, <1>5, <1>6, <1>7, TaskKept DEF StreamInv

(* Where a task may be once its frame is out and shown, and until it       *)
(* receives the next.                                                      *)
Waiting == Busy \ {"lock", "send", "update"}

\* From there on a task only moves, and gives its packet up to receive again.
Moves(s) ==
    /\ pc' = [pc EXCEPT ![s] = pc'[s]]
    /\ pc'[s] \in Waiting \cup {"recv"}
    /\ pkt' = [pkt EXCEPT ![s] = pkt'[s]]
    /\ pkt'[s] = IF pc'[s] = "recv" THEN 0 ELSE pkt[s]

LEMMA MovesKept ==
    ASSUME IInv, NEW s \in Streams, pc[s] \in Waiting, Moves(s), UNCHANGED taskFrame
    PROVE  IInv'
<1> USE DEF Moves, taskFrame, demuxVars
<1>1. TypeOK'
  <2>1. pc' \in [Streams -> Pc]
    BY DEF IInv, TypeOK, Pc, Waiting, Busy
  <2>2. pkt' \in [Streams -> 0 .. Len(file)]
    <3>1. pkt'[s] \in 0 .. Len(file)
      BY FileFacts DEF IInv, TypeOK
    <3> QED BY <3>1 DEF IInv, TypeOK
  <2> QED BY <2>1, <2>2 DEF IInv, TypeOK
<1>2. \A t \in Streams \ {s} : Untouched(t)
  BY DEF IInv, TypeOK, Untouched
<1>3. Locked'
  <2>1. pc[s] # "send" /\ pc'[s] # "send"
    BY DEF Waiting, Busy
  <2> QED BY <1>2, <2>1 DEF IInv, Locked, TypeOK, Untouched
<1>4. Held(s) = {} /\ Held(s)' = {} /\ Read(s)' = Read(s)
  BY DEF Held, Read, Waiting, Busy
<1>5. Carrying(s)' /\ Finished(s)' /\ JustHanded(s)'
  BY DEF IInv, StreamInv, Carrying, Busy, Pc, Waiting, Finished, Gone, JustHanded
<1>6. Flowing(s)'
  BY <1>4 DEF IInv, StreamInv, Flowing, Gone, Waiting, Busy, Pc
<1>7. Ordered(s)'
  BY <1>4 DEF IInv, StreamInv, Ordered
<1>8. Shown(s)'
  BY DEF IInv, StreamInv, Shown, Waiting, Busy
<1> QED BY <1>1, <1>2, <1>3, <1>5, <1>6, <1>7, <1>8, TaskKept DEF StreamInv

LEMMA BranchMoves ==
    ASSUME IInv, NEW s \in Streams, NEW from \in Waiting, NEW cond \in BOOLEAN,
           NEW yes \in Waiting \cup {"recv"}, NEW no \in Waiting \cup {"recv"},
           Branch(s, from, cond, yes, no)
    PROVE  pc[s] \in Waiting /\ Moves(s) /\ UNCHANGED taskFrame
<1> DEFINE there == IF cond THEN yes ELSE no
<1>1. there \in Waiting \cup {"recv"}
  OBVIOUS
<1>2. /\ pc[s] = from /\ pc' = [pc EXCEPT ![s] = there] /\ UNCHANGED taskFrame
      /\ pkt' = IF there = "recv" THEN [pkt EXCEPT ![s] = 0] ELSE pkt
  BY DEF Branch, Goto
<1> HIDE DEF there
<1>3. pc'[s] = there
  BY <1>2 DEF IInv, TypeOK
<1>4. pkt'[s] = (IF there = "recv" THEN 0 ELSE pkt[s]) /\ pkt' = [pkt EXCEPT ![s] = pkt'[s]]
  BY <1>2 DEF IInv, TypeOK
<1> QED BY <1>1, <1>2, <1>3, <1>4 DEF Moves

LEMMA LookingKept ==
    ASSUME IInv, NEW s \in Streams, Behind(s) \/ Ahead(s) \/ Wait(s) \/ Sleep(s)
    PROVE  IInv'
<1> USE DEF Waiting, Busy, Pc
<1>1. \A t, u \in Streams : AheadOf(t, u) \in BOOLEAN /\ PeerActive(t) \in BOOLEAN
  BY DEF AheadOf, PeerActive
<1>2. CASE Behind(s)
  BY <1>2, BranchMoves, MovesKept DEF Behind, AheadOf, PeerActive
<1>3. CASE Ahead(s)
  BY <1>3, BranchMoves, MovesKept DEF Ahead, AheadOf, PeerActive
<1>4. CASE Wait(s)
  BY <1>4, BranchMoves, MovesKept DEF Wait, AheadOf, PeerActive
<1>5. CASE Sleep(s)
  BY <1>5, BranchMoves, MovesKept DEF Sleep
<1> QED BY <1>2, <1>3, <1>4, <1>5

LEMMA UpdatePtsKept ==
    ASSUME IInv, NEW s \in Streams, UpdatePts(s)
    PROVE  IInv'
<1> USE DEF demuxVars
<1>0. /\ pc[s] = "update" /\ pkt[s] \in DOMAIN file /\ file[pkt[s]].pts \in Nat
      /\ handed[s] # <<>> /\ pkt[s] = handed[s][Len(handed[s])]
  BY FileFacts DEF UpdatePts, IInv, StreamInv, Carrying, JustHanded, Busy, Pc
<1>1. PICK there \in {"recv", "behind?"} :
         /\ pc' = [pc EXCEPT ![s] = there]
         /\ pkt' = IF there = "recv" THEN [pkt EXCEPT ![s] = 0] ELSE pkt
  BY DEF UpdatePts, AfterSend, Goto
<1>2. /\ state' = [state EXCEPT ![s].pts_ms = file[pkt[s]].pts]
      /\ UNCHANGED <<file, setup, pos, demuxer, chan, lock, stop, handed>>
  BY DEF UpdatePts
<1>3. /\ pc'[s] = there /\ pkt'[s] = (IF there = "recv" THEN 0 ELSE pkt[s])
      /\ state'[s].pts_ms = file[pkt[s]].pts
      /\ \A t \in Streams \ {s} : Untouched(t)
  BY <1>1, <1>2 DEF IInv, TypeOK, Untouched
<1>4. TypeOK'
  <2>1. pc' \in [Streams -> Pc]
    BY <1>1 DEF IInv, TypeOK, Pc
  <2>2. pkt' \in [Streams -> 0 .. Len(file)]
    BY <1>1, FileFacts DEF IInv, TypeOK
  <2>3. state' \in [Streams -> [pts_ms : Nat \cup {None}, ended : BOOLEAN]]
    BY <1>0, <1>2 DEF IInv, TypeOK
  <2> QED BY <1>2, <2>1, <2>2, <2>3 DEF IInv, TypeOK
<1>5. Locked'
  <2>1. pc[s] # "send" /\ pc'[s] # "send"
    BY <1>0, <1>3
  <2> QED BY <1>2, <1>3, <2>1 DEF IInv, Locked, Untouched
<1>6. Held(s) = {} /\ Held(s)' = {} /\ Read(s)' = Read(s)
  BY <1>0, <1>2, <1>3 DEF Held, Read
<1>7. Carrying(s)' /\ Finished(s)' /\ JustHanded(s)'
  BY <1>0, <1>2, <1>3 DEF Carrying, Busy, Pc, Finished, Gone, JustHanded
<1>8. Flowing(s)'
  BY <1>0, <1>2, <1>6 DEF IInv, StreamInv, Flowing, Gone
<1>9. Ordered(s)'
  BY <1>2, <1>6 DEF IInv, StreamInv, Ordered
<1>10. Shown(s)'
  BY <1>0, <1>2, <1>3 DEF Shown
<1> QED BY <1>2, <1>3, <1>4, <1>5, <1>7, <1>8, <1>9, <1>10, TaskKept DEF StreamInv

LEMMA StopKept ==
    ASSUME IInv, NEW s \in Streams, Stop(s)
    PROVE  IInv'
<1> USE DEF Stop, demuxVars
<1>1. TypeOK' /\ Locked'
  BY DEF IInv, TypeOK, Locked
<1>2. /\ stop'[s] = TRUE
      /\ chan'[s] = chan[s] /\ pc'[s] = pc[s] /\ pkt'[s] = pkt[s]
      /\ state'[s] = state[s] /\ handed'[s] = handed[s]
      /\ \A t \in Streams \ {s} : Untouched(t)
  BY DEF IInv, TypeOK, Untouched
<1>3. Held(s)' = Held(s) /\ Read(s)' = Read(s)
  BY <1>2 DEF Held, Read
<1>4. StreamInv(s)'
  BY <1>2, <1>3
    DEF IInv, StreamInv, Carrying, Flowing, Finished, JustHanded, Ordered, Shown, Gone
<1> QED BY <1>1, <1>2, <1>4, TaskKept

-----------------------------------------------------------------------------
(* The steps of the demuxer.                                               *)

LEMMA DemuxPacketKept ==
    ASSUME IInv, DemuxPacket
    PROVE  IInv'
<1>0. PICK u \in Streams : u = file[pos].stream
  BY FileFacts DEF IInv, TypeOK, DemuxPacket
<1>1. /\ demuxer = "reading" /\ pos \in 1 .. Len(file) /\ Len(file) \in Nat
      /\ pos' = pos + 1
      /\ UNCHANGED <<file, setup, demuxer, pc, pkt, state, lock, stop, handed>>
      /\ \/ Gone(u) /\ chan' = chan
         \/ ~Gone(u) /\ chan' = [chan EXCEPT ![u] = Append(@, pos)]
  BY <1>0, FileFacts DEF IInv, TypeOK, DemuxPacket
<1>2. chan[u] \in Seq(1 .. Len(file)) /\ Append(chan[u], pos) \in Seq(1 .. Len(file))
  BY <1>1 DEF IInv, TypeOK
<1>3. TypeOK'
  <2>1. chan' \in [Streams -> Seq(1 .. Len(file))]
    BY <1>1, <1>2 DEF IInv, TypeOK
  <2>2. pos' \in 1 .. Len(file) + 1
    BY <1>1
  <2> QED BY <1>1, <2>1, <2>2 DEF IInv, TypeOK
<1>4. DoneAtEnd' /\ Locked'
  BY <1>1 DEF IInv, DoneAtEnd, Locked
<1>5. /\ \A t \in Streams : Held(t)' = Held(t)
      /\ \A t \in Streams \ {u} : Read(t)' = Read(t)
      /\ Read(u)' = Read(u) \cup {pos}
  <2>1. 1 .. pos' - 1 = (1 .. pos - 1) \cup {pos}
    BY <1>1
  <2>2. \A t : Read(t)' = {i \in (1 .. pos - 1) \cup {pos} : file[i].stream = t}
    BY <1>1, <2>1 DEF Read
  <2>3. \A t \in Streams : Held(t)' = Held(t)
    BY <1>1 DEF Held
  <2>4. ASSUME NEW t \in Streams \ {u} PROVE Read(t)' = Read(t)
    <3>1. file[pos].stream # t
      BY <1>0, <2>4
    <3>2. Read(t)' = {i \in (1 .. pos - 1) \cup {pos} : file[i].stream = t}
      BY <2>2
    <3> QED BY <3>1, <3>2 DEF Read
  <2>5. Read(u)' = Read(u) \cup {pos}
    BY <1>0, <2>2 DEF Read
  <2> QED BY <2>3, <2>4, <2>5
<1>6. ASSUME NEW t \in Streams PROVE StreamInv(t)'
  <2>0. StreamInv(t)
    BY DEF IInv
  <2>1. Carrying(t)' /\ JustHanded(t)' /\ Shown(t)'
    BY <1>1, <2>0 DEF StreamInv, Carrying, JustHanded, Shown
  <2>2. CASE t # u \/ Gone(u)
    <3>1. chan'[t] = chan[t]
      BY <1>1, <2>2 DEF IInv, TypeOK
    <3>2. Flowing(t)' /\ Finished(t)'
      BY <1>1, <1>5, <2>0, <2>2, <3>1 DEF StreamInv, Flowing, Finished, Gone
    <3>3. Ordered(t)'
      BY <1>1, <1>5, <2>0, <3>1 DEF StreamInv, Ordered
    <3> QED BY <2>1, <3>2, <3>3 DEF StreamInv
  <2>3. CASE t = u /\ ~Gone(u)
    <3>1. chan'[t] = Append(chan[t], pos)
      BY <1>1, <2>3 DEF IInv, TypeOK
    <3>2. Range(Append(chan[t], pos)) = Range(chan[t]) \cup {pos}
      BY <1>1, <1>2, <2>3, AppendFacts
    <3>3. \A x \in Range(handed[t]) \cup Held(t) \cup Range(chan[t]) : x < pos
      BY <1>1, <2>0, <2>3 DEF StreamInv, Flowing, Read
    <3>4. Increasing(Append(chan[t], pos))
      BY <1>1, <1>2, <2>0, <2>3, <3>3, AppendIncreasing DEF StreamInv, Ordered
    <3>5. Flowing(t)' /\ Finished(t)'
      <4>1. Read(t) = Range(handed[t]) \cup Held(t) \cup Range(chan[t])
        BY <2>0, <2>3 DEF StreamInv, Flowing
      <4>2. Read(t)' = Range(handed[t])' \cup Held(t)' \cup Range(chan[t])'
        <5>1. Range(chan[t])' = Range(chan[t]) \cup {pos}
          BY <3>1, <3>2
        <5>2. Range(handed[t])' = Range(handed[t])
          BY <1>1
        <5> QED BY <1>5, <2>3, <4>1, <5>1, <5>2
      <4> QED BY <1>1, <2>3, <4>2 DEF Flowing, Finished, Gone
    <3>6. Ordered(t)'
      BY <1>1, <1>5, <2>0, <3>1, <3>2, <3>3, <3>4 DEF StreamInv, Ordered
    <3> QED BY <2>1, <3>5, <3>6 DEF StreamInv
  <2> QED BY <2>2, <2>3
<1> QED BY <1>3, <1>4, <1>6 DEF IInv

LEMMA DemuxEndKept ==
    ASSUME IInv, DemuxEnd
    PROVE  IInv'
<1> USE DEF DemuxEnd
<1>1. TypeOK' /\ Locked'
  BY DEF IInv, TypeOK, Locked
<1>2. DoneAtEnd'
  <2>1. Len(file) \in Nat /\ pos \in 1 .. Len(file) + 1 /\ pos > Len(file)
    BY FileFacts DEF IInv, TypeOK
  <2>2. pos = Len(file) + 1
    BY <2>1
  <2> QED BY <2>2 DEF DoneAtEnd
<1>3. ASSUME NEW t \in Streams PROVE StreamInv(t)'
  <2>1. Held(t)' = Held(t) /\ Read(t)' = Read(t)
    BY DEF Held, Read
  <2> QED BY <2>1
    DEF IInv, StreamInv, Carrying, Flowing, Finished, JustHanded, Ordered, Shown, Gone
<1> QED BY <1>1, <1>2, <1>3 DEF IInv

LEMMA StepIInv == IInv /\ [Next]_vars => IInv'
<1> SUFFICES ASSUME IInv, [Next]_vars PROVE IInv'
  OBVIOUS
<1>1. CASE Demux
  BY <1>1, DemuxPacketKept, DemuxEndKept DEF Demux
<1>2. ASSUME NEW s \in Streams, Task(s) PROVE IInv'
  <2>1. CASE Stopped(s)
    BY <2>1, EndKept DEF Stopped
  <2>2. CASE ChannelClosed(s)
    BY <2>2, EndKept DEF ChannelClosed
  <2> QED BY <1>2, <2>1, <2>2, ReceiveKept, AcquireKept, SendFrameKept, SendPanicsKept,
             UpdatePtsKept, LookingKept DEF Task
<1>3. ASSUME NEW s \in Streams, Stop(s) PROVE IInv'
  BY <1>3, StopKept
<1>4. CASE UNCHANGED vars
  <2>1. TypeOK' /\ DoneAtEnd' /\ Locked'
    BY <1>4 DEF vars, IInv, TypeOK, DoneAtEnd, Locked
  <2>2. \A t \in Streams : Untouched(t)
    BY <1>4 DEF vars, Untouched
  <2>3. UNCHANGED demuxVars
    BY <1>4 DEF vars, demuxVars
  <2> QED BY <2>1, <2>2, <2>3, UntouchedKept DEF IInv
<1> QED BY <1>1, <1>2, <1>3, <1>4 DEF Next

-----------------------------------------------------------------------------
(* The theorems.                                                           *)

\* Every reachable state satisfies the inductive invariant.
THEOREM Invariance == Spec => []IInv
<1> QED BY InitIInv, StepIInv, PTL DEF Spec

(* Every variable stays in its type, for any file, capacity, tolerance and *)
(* set-up (demuxer.rs:186, base_stream.rs:148).                            *)
THEOREM TypeCorrect == Spec => []TypeOK
<1>1. IInv => TypeOK
  BY DEF IInv
<1> QED BY <1>1, Invariance, PTL

(* Each packet read from the file is handed to send_frame, or still on its  *)
(* way there, whatever channels fill up (demuxer.rs:199,                    *)
(* audio_stream.rs:48).                                                     *)
THEOREM NothingIsLost == Spec => []NothingLost
<1>1. IInv => NothingLost
  <2> SUFFICES ASSUME IInv, NEW s \in Streams, ~stop[s], pc[s] # "dead"
               PROVE  Read(s) = Range(handed[s]) \cup Held(s) \cup Range(chan[s])
    BY DEF NothingLost
  <2>1. CASE pc[s] = "ended"
    BY <2>1, EmptyFacts DEF IInv, StreamInv, Finished, Gone, Held
  <2>2. CASE pc[s] # "ended"
    BY <2>2 DEF IInv, StreamInv, Flowing, Gone
  <2> QED BY <2>1, <2>2
<1> QED BY <1>1, Invariance, PTL

\* Frames are handed over in the order of the file, none twice (base_stream.rs:163).
THEOREM HandedOverInOrder == Spec => []InOrder
<1>1. IInv => InOrder
  BY DEF IInv, StreamInv, Ordered, Increasing, InOrder
<1> QED BY <1>1, Invariance, PTL

(* The timestamp a stream shows its peer is that of its last frame, and    *)
(* only the holder of the lock is inside a send (base_stream.rs:165,       *)
(* audio_stream.rs:59).                                                    *)
THEOREM SyncStatesCurrent == Spec => []SyncStateCurrent
<1>1. IInv => SyncStateCurrent
  BY DEF IInv, StreamInv, Shown, Locked, SyncStateCurrent
<1> QED BY <1>1, Invariance, PTL

-----------------------------------------------------------------------------
(* The refinement of Playback.                                             *)

\* Steps that neither send nor end nor stop a stream are not seen.
LEMMA Quiet ==
    ASSUME UNCHANGED <<file, setup, stop, handed>>,
           \A t \in Streams : Gone(t)' = Gone(t)
    PROVE  UNCHANGED PB!vars
<1>1. [s \in Streams |-> Gone(s)]' = [s \in Streams |-> Gone(s)]
  OBVIOUS
<1> QED BY <1>1 DEF PB!vars

\* The packet in a task's hands is the next that Playback would deliver.
LEMMA HeldIsNext ==
    ASSUME IInv, NEW s \in Streams, pc[s] = "send"
    PROVE  PB!IsNext(s, pkt[s])
<1>1. /\ pkt[s] \in 1 .. Len(file) /\ DOMAIN file = 1 .. Len(file) /\ Len(file) \in Nat
      /\ pos \in 1 .. Len(file) + 1
  BY FileFacts DEF IInv, TypeOK, StreamInv, Carrying, Busy, Pc
<1>2. Held(s) = {pkt[s]} /\ Read(s) = Range(handed[s]) \cup {pkt[s]} \cup Range(chan[s])
  BY DEF IInv, StreamInv, Flowing, Held, Gone
<1>3. /\ \A x \in Range(handed[s]) : x < pkt[s]
      /\ \A y \in Range(chan[s]) : pkt[s] < y
  BY <1>2 DEF IInv, StreamInv, Ordered
<1>4. pkt[s] < pos /\ file[pkt[s]].stream = s
  <2>1. pkt[s] \in Read(s)
    BY <1>2
  <2> QED BY <1>1, <2>1 DEF Read
<1>5. pkt[s] \notin Range(handed[s])
  BY <1>1, <1>3
<1>6. ASSUME NEW j \in 1 .. pkt[s] - 1, file[j].stream = s PROVE j \in Range(handed[s])
  <2>1. j \in Read(s)
    BY <1>1, <1>4, <1>6 DEF Read
  <2>2. j # pkt[s] /\ j \notin Range(chan[s])
    BY <1>1, <1>3, <1>6
  <2> QED BY <1>2, <2>1, <2>2
<1>7. \A j \in 1 .. pkt[s] - 1 : file[j].stream = s => j \in Range(handed[s])
  BY <1>6
<1>8. pkt[s] \in DOMAIN file
  BY <1>1
<1>9. \A t : PB!Range(handed[t]) = Range(handed[t])
  BY DEF PB!Range, Range
<1> QED BY <1>4, <1>5, <1>7, <1>8, <1>9 DEF PB!IsNext

LEMMA GoneUpdates ==
    ASSUME IInv, NEW s \in Streams, NEW there \in {"ended", "dead"}, Goto(s, there)
    PROVE  /\ [t \in Streams |-> Gone(t)]' = [[t \in Streams |-> Gone(t)] EXCEPT ![s] = TRUE]
<1> DEFINE o == [t \in Streams |-> Gone(t)]
<1>1. ASSUME NEW t \in Streams PROVE Gone(t)' = IF t = s THEN TRUE ELSE Gone(t)
  BY DEF IInv, TypeOK, Goto, Gone
<1> QED BY <1>1

LEMMA StepRefines == IInv /\ [Next]_vars => [PB!Next]_PB!vars
<1> SUFFICES ASSUME IInv, [Next]_vars PROVE [PB!Next]_PB!vars
  OBVIOUS
<1>1. CASE Demux
  <2>1. UNCHANGED <<file, setup, stop, handed>> /\ \A t \in Streams : Gone(t)' = Gone(t)
    BY <1>1 DEF Demux, DemuxPacket, DemuxEnd, Gone
  <2> QED BY <2>1, Quiet
<1>2. ASSUME NEW s \in Streams, Task(s) PROVE [PB!Next]_PB!vars
  <2>1. CASE Stopped(s)
    <3>1. Goto(s, "ended") /\ UNCHANGED <<file, setup, stop, handed>>
          /\ ~Gone(s) /\ stop[s]
      BY <2>1 DEF Stopped, End, Gone, demuxVars
    <3>2. PB!Finish(s)
      BY <3>1, GoneUpdates DEF PB!Finish
    <3> QED BY <3>2 DEF PB!Next
  <2>2. CASE ChannelClosed(s)
    <3>1. /\ Goto(s, "ended") /\ UNCHANGED <<file, setup, stop, handed>>
          /\ ~Gone(s) /\ pc[s] = "recv" /\ chan[s] = <<>> /\ demuxer = "done"
      BY <2>2 DEF ChannelClosed, End, Gone, demuxVars
    <3>2. Read(s) = Range(handed[s]) /\ pos = Len(file) + 1
      BY <3>1, EmptyFacts DEF IInv, StreamInv, Flowing, Held, DoneAtEnd
    <3>3. PB!AllHanded(s)
      <4>1. DOMAIN file = 1 .. pos - 1
        BY <3>2, FileFacts DEF IInv
      <4>2. Read(s) = {i \in DOMAIN file : file[i].stream = s}
        BY <4>1 DEF Read
      <4>3. PB!Range(handed[s]) = Range(handed[s])
        BY DEF PB!Range, Range
      <4> QED BY <3>2, <4>2, <4>3 DEF PB!AllHanded
    <3>4. PB!Finish(s)
      BY <3>1, <3>3, GoneUpdates DEF PB!Finish
    <3> QED BY <3>4 DEF PB!Next
  <2>3. CASE SendFrame(s)
    <3>1. /\ pc[s] = "send" /\ ~Gone(s) /\ ~file[pkt[s]].malformed
          /\ handed' = [handed EXCEPT ![s] = Append(@, pkt[s])]
          /\ UNCHANGED <<file, setup, stop>>
          /\ pc' = [pc EXCEPT ![s] = "update"]
      BY <2>3 DEF SendFrame, Goto, Gone, demuxVars
    <3>2. [t \in Streams |-> Gone(t)]' = [t \in Streams |-> Gone(t)]
      BY <3>1 DEF IInv, TypeOK, Gone
    <3>3. PB!IsNext(s, pkt[s]) /\ pkt[s] \in DOMAIN file
      BY <3>1, HeldIsNext DEF PB!IsNext
    <3>4. PB!Deliver(s)
      BY <3>1, <3>2, <3>3 DEF PB!Deliver
    <3> QED BY <3>4 DEF PB!Next
  <2>4. CASE SendPanics(s)
    <3>1. /\ pc[s] = "send" /\ ~Gone(s) /\ file[pkt[s]].malformed
          /\ Goto(s, "dead") /\ UNCHANGED <<file, setup, stop, handed>>
      BY <2>4 DEF SendPanics, Gone, demuxVars
    <3>2. PB!Dies(s)
      BY <3>1, HeldIsNext DEF PB!Dies, PB!IsNext
    <3>3. PB!Finish(s)
      BY <3>1, <3>2, GoneUpdates DEF PB!Finish
    <3> QED BY <3>3 DEF PB!Next
  <2>5. CASE Receive(s) \/ Acquire(s) \/ UpdatePts(s)
    <3>1. UNCHANGED <<file, setup, stop, handed>> /\ \A t \in Streams : Gone(t)' = Gone(t)
      BY <2>5 DEF IInv, TypeOK, Receive, Acquire, UpdatePts, AfterSend, Goto, Gone, demuxVars
    <3> QED BY <3>1, Quiet
  <2>6. CASE Behind(s) \/ Ahead(s) \/ Wait(s) \/ Sleep(s)
    <3>1. UNCHANGED <<file, setup, stop, handed>> /\ \A t \in Streams : Gone(t)' = Gone(t)
      BY <2>6 DEF IInv, TypeOK, Behind, Ahead, Wait, Sleep, Branch, Goto, Gone,
                  taskFrame, demuxVars
    <3> QED BY <3>1, Quiet
  <2> QED BY <1>2, <2>1, <2>2, <2>3, <2>4, <2>5, <2>6 DEF Task
<1>3. ASSUME NEW s \in Streams, Stop(s) PROVE [PB!Next]_PB!vars
  <2>1. [t \in Streams |-> Gone(t)]' = [t \in Streams |-> Gone(t)]
    BY <1>3 DEF Stop, Gone
  <2>2. PB!Stop(s)
    BY <1>3, <2>1 DEF Stop, PB!Stop, demuxVars
  <2> QED BY <2>2 DEF PB!Next
<1>4. CASE UNCHANGED vars
  BY <1>4, Quiet DEF vars, Gone
<1> QED BY <1>1, <1>2, <1>3, <1>4 DEF Next

LEMMA InitRefines == Init => PB!Init
<1> SUFFICES ASSUME Init PROVE PB!Init
  OBVIOUS
<1>1. [s \in Streams |-> Gone(s)] = [s \in Streams |-> s \notin setup.played]
  <2>1. ASSUME NEW s \in Streams PROVE Gone(s) = (s \notin setup.played)
    BY DEF Init, Gone
  <2> QED BY <2>1
<1> QED BY <1>1 DEF Init, PB!Init

(* The demuxer, the channels, the lock and the synchronisation implement   *)
(* Playback: each stream hands over what the file has for it, packet by    *)
(* packet in order, and ends only when it has handed all over, was stopped *)
(* or died (base_stream.rs:148, audio_stream.rs:41, demuxer.rs:186).       *)
THEOREM ImplementsPlayback == Spec => PlaybackSpec
<1> QED BY InitRefines, StepRefines, Invariance, PTL DEF Spec, PlaybackSpec, PB!Spec
=============================================================================
