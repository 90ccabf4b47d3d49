------------------------- MODULE WebRtcWrapper_proofs -------------------------
(***************************************************************************)
(* What is proved of WebRtcWrapper for any widths, frame times and number   *)
(* of calls: each track's sequence numbers and timestamps are continuous,  *)
(* and none goes by the configuration of a closed connection.              *)
(***************************************************************************)
EXTENDS WebRtcWrapper, DaveHandler_proofs, Arithmetic, FiniteSetTheorems, TLAPS

-----------------------------------------------------------------------------
(* Timestamps, which follow a frame time up to half a tick.                *)

\* x is within n of a multiple of m.
Near(x, n, m) == \E e, k \in Int : x = e + m * k /\ -n <= e /\ e <= n

LEMMA NearMod ==
    ASSUME NEW m \in Nat \ {0}, NEW n \in Nat, NEW x \in Int, Near(x, n, m)
    PROVE  x % m <= n \/ m - (x % m) <= n
<1>1. PICK e \in Int, k \in Int : x = e + m * k /\ -n <= e /\ e <= n
  BY DEF Near
<1>2. e \div m \in Int /\ (e % m) \in 0 .. m - 1 /\ e = m * (e \div m) + (e % m)
  BY DivMod
<1> DEFINE q == e \div m
           r == e % m
<1>3. q \in Int /\ r \in 0 .. m - 1 /\ e = m * q + r
  BY <1>2
<1> HIDE DEF q, r
<1>4. x = m * (q + k) + r
  BY <1>1, <1>3
<1>5. x % m = r
  BY <1>3, <1>4, Remainder
<1>6. CASE q >= 0
  <2>1. m * q >= 0
    BY <1>3, <1>6
  <2>2. r <= e
    BY <1>3, <2>1
  <2> QED BY <1>1, <1>3, <1>5, <2>2
<1>7. CASE q <= -1
  <2>1. m * q <= -m
    BY <1>3, <1>7
  <2>2. m - r <= -e
    BY <1>3, <2>1
  <2> QED BY <1>1, <1>3, <1>5, <2>2
<1> QED BY <1>3, <1>6, <1>7

\* A frame moves the timestamp by its time, up to half a tick.
LEMMA TicksFacts ==
    ASSUME NEW ft \in Nat
    PROVE  /\ Ticks(ft) \in Nat
           /\ -2 <= 4 * Ticks(ft) - ft /\ 4 * Ticks(ft) - ft <= 2
BY DEF Ticks

LEMMA NearStep ==
    ASSUME NEW m \in Nat \ {0}, NEW s \in Int, NEW b \in Int, NEW md \in Int, NEW n \in Nat,
           NEW ft \in Nat, Near(4 * (s - b) - md, n, 4 * m)
    PROVE  Near(4 * (((s + Ticks(ft)) % m) - b) - (md + ft), n + 2, 4 * m)
<1>1. PICK e \in Int, k \in Int : 4 * (s - b) - md = e + (4 * m) * k /\ -n <= e /\ e <= n
  BY DEF Near
<1>2. PICK t \in Nat : t = Ticks(ft) /\ -2 <= 4 * t - ft /\ 4 * t - ft <= 2
  BY TicksFacts
<1>a. s + t \in Int
  OBVIOUS
<1> DEFINE r == (s + t) % m
<1>3. PICK q \in Int : r \in Int /\ s + t = m * q + r
  BY <1>a, Quotient, Zenon
<1> HIDE DEF r
<1>4. 4 * (r - b) - (md + ft) = (e + (4 * t - ft)) + (4 * m) * (k - q)
  BY <1>1, <1>3
<1>5. e + (4 * t - ft) \in Int /\ k - q \in Int
  OBVIOUS
<1>6. -(n + 2) <= e + (4 * t - ft) /\ e + (4 * t - ft) <= n + 2
  BY <1>1, <1>2
<1>7. Near(4 * (r - b) - (md + ft), n + 2, 4 * m)
  BY <1>4, <1>5, <1>6 DEF Near
<1> QED BY <1>2, <1>7 DEF r

LEMMA NearFirst ==
    ASSUME NEW m \in Nat \ {0}, NEW s \in Int, NEW md \in Int, NEW ft \in Nat
    PROVE  Near(4 * (((s + Ticks(ft)) % m) - s) - ((md + ft) - md), 2, 4 * m)
<1>1. PICK b \in Int, d \in Int, n \in Nat : b = s /\ d = 0 /\ n = 0
  OBVIOUS
<1>2. 4 * (s - b) - d = 0 + (4 * m) * 0 /\ 0 \in Int /\ -n <= 0 /\ 0 <= n
  BY <1>1
<1>3. Near(4 * (s - b) - d, n, 4 * m)
  BY <1>2 DEF Near
<1>4. Near(4 * (((s + Ticks(ft)) % m) - b) - (d + ft), n + 2, 4 * m)
  BY <1>3, NearStep
<1>5. d + ft = (md + ft) - md /\ n + 2 = 2
  BY <1>1
<1> QED BY <1>1, <1>4, <1>5

-----------------------------------------------------------------------------
(* Distances between packets.                                              *)

Alike(p, q) == p.track = q.track /\ p.config = q.config

Between(ps, i, j) == {k \in i + 1 .. j : Alike(ps[i], ps[k])}

Dist(ps, i, j) == Cardinality(Between(ps, i, j))

LEMMA DistanceIsDist == \A i, j : Distance(i, j) = Dist(packets, i, j)
BY DEF Distance, Dist, Between, SameTrack, Alike

LEMMA DistFacts ==
    ASSUME NEW ps \in Seq(Packet), NEW i \in 1 .. Len(ps), NEW j \in 1 .. Len(ps)
    PROVE  Dist(ps, i, j) \in Nat /\ Dist(ps, i, i) = 0 /\ IsFiniteSet(Between(ps, i, j))
<1>1. i + 1 \in Int /\ j \in Int
  OBVIOUS
<1>2. IsFiniteSet(i + 1 .. j)
  BY <1>1, FS_Interval
<1>3. Between(ps, i, j) \in SUBSET (i + 1 .. j)
  BY DEF Between
<1>4. IsFiniteSet(Between(ps, i, j))
  BY <1>2, <1>3, FS_Subset
<1>5. Between(ps, i, i) = {}
  BY DEF Between
<1> QED BY <1>4, <1>5, FS_CardinalityType, FS_EmptySet DEF Dist

LEMMA DistAppend ==
    ASSUME NEW ps \in Seq(Packet), NEW p \in Packet, NEW i \in 1 .. Len(ps)
    PROVE  LET qs == Append(ps, p) IN
           /\ \A j \in 1 .. Len(ps) : Dist(qs, i, j) = Dist(ps, i, j)
           /\ Dist(qs, i, Len(ps) + 1) =
                  IF Alike(ps[i], p) THEN Dist(ps, i, Len(ps)) + 1 ELSE Dist(ps, i, Len(ps))
<1> DEFINE qs == Append(ps, p)
           n == Len(ps)
<1>1. /\ qs \in Seq(Packet) /\ Len(qs) = n + 1 /\ n \in Nat
      /\ \A k \in 1 .. n : qs[k] = ps[k]
      /\ qs[n + 1] = p
  OBVIOUS
<1> HIDE DEF qs, n
<1>a. i \in 1 .. n /\ n = Len(ps)
  BY DEF n
<1>2. ASSUME NEW j \in 1 .. n PROVE Between(qs, i, j) = Between(ps, i, j)
  <2>1. \A k \in i + 1 .. j : k \in 1 .. n
    BY <1>1, <1>a
  <2>2. qs[i] = ps[i] /\ \A k \in i + 1 .. j : qs[k] = ps[k]
    BY <1>1, <1>a, <2>1
  <2> QED BY <2>2 DEF Between
<1>3. \A j \in 1 .. n : Dist(qs, i, j) = Dist(ps, i, j)
  BY <1>2 DEF Dist
<1>4. n \in 1 .. n
  BY <1>1, <1>a
<1>5. IsFiniteSet(Between(ps, i, n)) /\ n + 1 \notin Between(ps, i, n)
  <2>1. n + 1 \notin i + 1 .. n
    BY <1>1
  <2> QED BY <1>4, <1>a, <2>1, DistFacts DEF Between
<1>6. i + 1 .. n + 1 = (i + 1 .. n) \cup {n + 1}
  BY <1>1, <1>a
<1>7. qs[i] = ps[i] /\ qs[n + 1] = p
  BY <1>1, <1>a
<1>8. CASE Alike(ps[i], p)
  <2>1. Between(qs, i, n + 1) = Between(qs, i, n) \cup {n + 1}
    BY <1>6, <1>7, <1>8 DEF Between
  <2>2. Between(qs, i, n + 1) = Between(ps, i, n) \cup {n + 1}
    BY <1>2, <1>4, <2>1
  <2>3. Dist(qs, i, n + 1) = Dist(ps, i, n) + 1
    BY <1>5, <2>2, FS_AddElement DEF Dist
  <2> QED BY <1>3, <1>8, <2>3 DEF qs, n
<1>9. CASE ~Alike(ps[i], p)
  <2>1. Between(qs, i, n + 1) = Between(qs, i, n)
    BY <1>6, <1>7, <1>9 DEF Between
  <2>2. Dist(qs, i, n + 1) = Dist(ps, i, n)
    BY <1>2, <1>4, <2>1 DEF Dist
  <2> QED BY <1>3, <1>9, <2>2 DEF qs, n
<1> QED BY <1>8, <1>9

-----------------------------------------------------------------------------
(* The inductive invariant.                                                *)

\* Configurations are numbered in order, and no packet is ahead of them.
ConfigPast == \A i \in DOMAIN packets : packets[i].config <= config

\* A track that has a state got it after the last close.
Reopened ==
    closed # None =>
        closed <= config /\ \A t \in Tracks : rtp[t] # None => closed < config

\* The packets of track t under the present configuration.
Current(t, i) == packets[i].track = t /\ packets[i].config = config

Behind(i) == Dist(packets, i, Len(packets)) + 1

\* A track's next number and timestamp, as seen from each of its packets.
NextSeq ==
    \A t \in Tracks : rtp[t] # None =>
        \A i \in DOMAIN packets : Current(t, i) =>
            Cong(rtp[t].seq - packets[i].seq, Behind(i), SeqMod)

NextTimestamp ==
    \A t \in Tracks : rtp[t] # None /\ <<t, config>> \notin lost =>
        \A i \in DOMAIN packets : Current(t, i) =>
            Near(4 * (rtp[t].timestamp - packets[i].timestamp) - (media[t] - packets[i].media),
                 2 * Behind(i), 4 * TimeMod)

\* The same of the packets there are.
PacketSeqs ==
    \A j \in DOMAIN packets : \A i \in 1 .. j - 1 :
        Alike(packets[i], packets[j]) =>
            Cong(packets[j].seq - packets[i].seq, Dist(packets, i, j), SeqMod)

PacketTimestamps ==
    \A j \in DOMAIN packets : \A i \in 1 .. j - 1 :
        Alike(packets[i], packets[j]) /\ <<packets[i].track, packets[i].config>> \notin lost =>
            Near(4 * (packets[j].timestamp - packets[i].timestamp)
                     - (packets[j].media - packets[i].media),
                 2 * Dist(packets, i, j), 4 * TimeMod)

IInv ==
    /\ TypeOK
    /\ ConfigPast
    /\ Reopened
    /\ ReconfiguredAfterClose
    /\ NextSeq
    /\ NextTimestamp
    /\ PacketSeqs
    /\ PacketTimestamps

LEMMA RtpFacts ==
    ASSUME TypeOK, NEW t \in Tracks, rtp[t] # None
    PROVE  /\ rtp[t] \in RtpState
           /\ rtp[t].seq \in 0 .. SeqMod - 1 /\ rtp[t].timestamp \in 0 .. TimeMod - 1
BY DEF TypeOK, RtpState

LEMMA PacketFields ==
    ASSUME NEW ps \in Seq(Packet), NEW i \in DOMAIN ps
    PROVE  /\ ps[i] \in Packet /\ ps[i].config \in Nat /\ ps[i].seq \in Int
           /\ ps[i].timestamp \in Int /\ ps[i].media \in Int
<1>1. ps[i] \in Packet
  OBVIOUS
<1> QED BY <1>1, WidthAssumption DEF Packet

LEMMA StepsFacts == ASSUME NEW d \in Handler PROVE Steps(d) \subseteq Handler
BY GroupMessageFacts, DaveInitFacts DEF Steps

LEMMA NewHandlerFacts == NewHandler \in Handler
BY VersionsAssumption DEF NewHandler, Handler

LEMMA InitIInv == Init => IInv
<1> SUFFICES ASSUME Init PROVE IInv
  OBVIOUS
<1>1. packets = <<>> /\ packets \in Seq(Packet) /\ DOMAIN packets = {}
  BY DEF Init
<1>2. TypeOK
  BY <1>1, NewHandlerFacts DEF Init, TypeOK
<1>3. ConfigPast /\ Reopened /\ ReconfiguredAfterClose
  BY <1>1 DEF Init, ConfigPast, Reopened, ReconfiguredAfterClose
<1>4. NextSeq /\ NextTimestamp /\ PacketSeqs /\ PacketTimestamps
  BY <1>1 DEF NextSeq, NextTimestamp, PacketSeqs, PacketTimestamps
<1> QED BY <1>2, <1>3, <1>4 DEF IInv

\* Steps that leave the tracks and their packets alone.
LEMMA QuietStep ==
    ASSUME IInv, UNCHANGED <<rtp, media, config, closed, lost, packets>>,
           {peer_connection', tracks', video_codec'} \subseteq BOOLEAN,
           {dave', negotiated'} \subseteq Handler, calls' \in Nat
    PROVE  IInv'
<1>1. TypeOK'
  BY DEF IInv, TypeOK
<1>2. ConfigPast' /\ Reopened' /\ ReconfiguredAfterClose'
  BY DEF IInv, ConfigPast, Reopened, ReconfiguredAfterClose
<1>3. NextSeq' /\ NextTimestamp'
  BY DEF IInv, NextSeq, NextTimestamp, Current, Behind
<1>4. PacketSeqs' /\ PacketTimestamps'
  BY DEF IInv, PacketSeqs, PacketTimestamps
<1> QED BY <1>1, <1>2, <1>3, <1>4 DEF IInv

LEMMA SetPacketizerStep == ASSUME IInv, SetPacketizer PROVE IInv'
<1> USE DEF SetPacketizer, Call
<1>1. TypeOK'
  <2>1. rtp' \in [Tracks -> RtpState \cup {None}]
    BY StartsAssumption
  <2>2. media' \in [Tracks -> Nat] /\ config' \in Nat /\ calls' \in Nat
    BY DEF IInv, TypeOK
  <2> QED BY <2>1, <2>2 DEF IInv, TypeOK
<1>2. ASSUME NEW i \in DOMAIN packets
      PROVE  packets[i].config \in Nat /\ packets[i].config # config'
  <2>1. packets[i].config \in Nat
    BY PacketFields DEF IInv, TypeOK
  <2>2. packets[i].config <= config /\ config \in Nat /\ config' = config + 1
    BY DEF IInv, ConfigPast, TypeOK
  <2> QED BY <2>1, <2>2
<1>3. ConfigPast' /\ ReconfiguredAfterClose'
  BY <1>2 DEF IInv, TypeOK, ConfigPast, ReconfiguredAfterClose
<1>4. Reopened'
  BY DEF IInv, TypeOK, Reopened
<1>5. NextSeq' /\ NextTimestamp'
  BY <1>2 DEF NextSeq, NextTimestamp, Current
<1>6. PacketSeqs' /\ PacketTimestamps'
  BY DEF IInv, PacketSeqs, PacketTimestamps
<1> QED BY <1>1, <1>3, <1>4, <1>5, <1>6 DEF IInv

LEMMA CloseStep == ASSUME IInv, Close PROVE IInv'
<1> USE DEF Close, Call
<1>1. TypeOK'
  <2>1. rtp' \in [Tracks -> RtpState \cup {None}] /\ calls' \in Nat
    BY DEF IInv, TypeOK
  <2> QED BY <2>1 DEF IInv, TypeOK
<1>2. \A t \in Tracks : rtp'[t] = None
  OBVIOUS
<1>3. ConfigPast' /\ ReconfiguredAfterClose' /\ Reopened'
  BY <1>2 DEF IInv, TypeOK, ConfigPast, ReconfiguredAfterClose, Reopened
<1>4. NextSeq' /\ NextTimestamp'
  BY <1>2 DEF NextSeq, NextTimestamp
<1>5. PacketSeqs' /\ PacketTimestamps'
  BY DEF IInv, PacketSeqs, PacketTimestamps
<1> QED BY <1>1, <1>3, <1>4, <1>5 DEF IInv

(* The packet of a frame, and what the track's state is behind it.         *)
LEMMA PacketFacts ==
    ASSUME IInv, NEW t \in Tracks, NEW ft \in FrameTimes, NEW p,
           rtp[t] # None,
           p.track = t, p.config = config, p.seq = rtp[t].seq,
           p.timestamp = rtp[t].timestamp, p.media = media[t], p.closed = closed,
           p \in Packet,
           packets' = Append(packets, p), rtp' = [rtp EXCEPT ![t] = Packetized(@, ft)],
           media' = [media EXCEPT ![t] = @ + ft],
           UNCHANGED <<config, closed, lost>>
    PROVE  /\ packets' \in Seq(Packet) /\ ConfigPast' /\ Reopened' /\ ReconfiguredAfterClose'
           /\ NextSeq' /\ NextTimestamp' /\ PacketSeqs' /\ PacketTimestamps'
           /\ rtp' \in [Tracks -> RtpState \cup {None}]
<1> DEFINE n == Len(packets)
<1>1. /\ packets \in Seq(Packet) /\ packets' \in Seq(Packet)
      /\ n \in Nat /\ Len(packets') = n + 1
      /\ DOMAIN packets = 1 .. n /\ DOMAIN packets' = 1 .. n + 1
      /\ \A k \in 1 .. n : packets'[k] = packets[k]
      /\ packets'[n + 1] = p
  BY DEF IInv, TypeOK
<1> HIDE DEF n
<1>2. /\ rtp[t].seq \in 0 .. SeqMod - 1 /\ rtp[t].timestamp \in 0 .. TimeMod - 1
      /\ ft \in Nat /\ media \in [Tracks -> Nat] /\ rtp \in [Tracks -> RtpState \cup {None}]
      /\ SeqMod \in Nat \ {0} /\ TimeMod \in Nat \ {0} /\ config \in Nat
  BY RtpFacts, FrameTimesAssumption, WidthAssumption DEF IInv, TypeOK
<1>3. /\ rtp'[t] = Packetized(rtp[t], ft) /\ media'[t] = media[t] + ft
      /\ \A s \in Tracks \ {t} : rtp'[s] = rtp[s] /\ media'[s] = media[s]
  BY <1>2
<1>4. /\ Packetized(rtp[t], ft) \in RtpState
      /\ Packetized(rtp[t], ft).seq = (rtp[t].seq + 1) % SeqMod
      /\ Packetized(rtp[t], ft).timestamp = (rtp[t].timestamp + Ticks(ft)) % TimeMod
  <2>a. Ticks(ft) \in Nat
    BY <1>2, TicksFacts
  <2>1. /\ rtp[t].seq + 1 \in Int /\ rtp[t].timestamp + Ticks(ft) \in Int
    BY <1>2, <2>a
  <2>2. /\ (rtp[t].seq + 1) % SeqMod \in 0 .. SeqMod - 1
        /\ (rtp[t].timestamp + Ticks(ft)) % TimeMod \in 0 .. TimeMod - 1
    BY <1>2, <2>1, ModRange, Zenon
  <2> QED BY <2>2 DEF Packetized, RtpState
<1>5. rtp' \in [Tracks -> RtpState \cup {None}]
  BY <1>2, <1>4
<1>6. ASSUME NEW k \in 1 .. n + 1, k # n + 1 PROVE k \in 1 .. n
  BY <1>1, <1>6
<1>7. packets' \in Seq(Packet) /\ ConfigPast'
  BY <1>1, <1>2, <1>6 DEF IInv, TypeOK, ConfigPast
<1>8. Reopened' /\ ReconfiguredAfterClose'
  <2>1. Reopened'
    BY <1>3 DEF IInv, Reopened
  <2>2. closed # None => config > closed
    BY <1>2 DEF IInv, Reopened, TypeOK
  <2> QED BY <1>1, <1>6, <2>1, <2>2 DEF IInv, ReconfiguredAfterClose
\* Distances in the longer sequence.
<1>9. ASSUME NEW i \in 1 .. n
      PROVE  /\ \A j \in 1 .. n : Dist(packets', i, j) = Dist(packets, i, j)
             /\ Dist(packets', i, n + 1) =
                    IF Alike(packets[i], p) THEN Dist(packets, i, n) + 1 ELSE Dist(packets, i, n)
             /\ Dist(packets, i, n) \in Nat
  BY <1>1, <1>9, DistAppend, DistFacts DEF n
<1>10. Dist(packets', n + 1, n + 1) = 0
  <2>1. n + 1 \in 1 .. Len(packets')
    BY <1>1
  <2> QED BY <1>1, <2>1, DistFacts
<1>11. /\ \A i \in 1 .. n : Behind(i) = Dist(packets, i, n) + 1
       /\ \A i \in 1 .. n + 1 : Behind(i)' = Dist(packets', i, n + 1) + 1
  BY <1>1 DEF Behind, n
<1>12. ASSUME NEW i \in 1 .. n
       PROVE  /\ packets[i].seq \in Int /\ packets[i].timestamp \in Int
              /\ packets[i].media \in Int
  BY <1>1, <1>12, PacketFields
<1>13. ASSUME NEW i \in 1 .. n
       PROVE  Current(t, i) <=> Alike(packets[i], p)
  BY DEF Current, Alike
<1>14. /\ rtp[t].seq \in Int /\ rtp[t].timestamp \in Int /\ media[t] \in Int
       /\ 4 * TimeMod \in Nat \ {0}
  BY <1>2
\* The state of a track behind a packet of its own.
<1>15. ASSUME NEW i \in 1 .. n + 1, Current(t, i)'
       PROVE  Cong(rtp'[t].seq - packets'[i].seq, Behind(i)', SeqMod)
  <2>1. CASE i = n + 1
    <3>1. Cong(((rtp[t].seq + 1) % SeqMod) - rtp[t].seq, 1, SeqMod)
      BY <1>2, <1>14, CongFirst
    <3>2. packets'[i].seq = rtp[t].seq /\ Behind(i)' = 1
      BY <1>1, <1>10, <1>11, <2>1
    <3> QED BY <1>3, <1>4, <3>1, <3>2
  <2>2. CASE i # n + 1
    <3>1. i \in 1 .. n /\ packets'[i] = packets[i]
      BY <1>1, <1>6, <2>2
    <3>2. Current(t, i)
      BY <1>15, <3>1 DEF Current
    <3>3. Cong(rtp[t].seq - packets[i].seq, Dist(packets, i, n) + 1, SeqMod)
      BY <1>1, <1>11, <3>1, <3>2 DEF IInv, NextSeq
    <3>4. Dist(packets, i, n) + 1 \in Int /\ packets[i].seq \in Int
      BY <1>9, <1>12, <3>1
    <3>5. Cong(((rtp[t].seq + 1) % SeqMod) - packets[i].seq, Dist(packets, i, n) + 1 + 1, SeqMod)
      BY <1>2, <1>14, <3>3, <3>4, CongStep
    <3>6. Behind(i)' = Dist(packets, i, n) + 1 + 1
      BY <1>9, <1>11, <1>13, <3>1, <3>2
    <3> QED BY <1>3, <1>4, <3>1, <3>5, <3>6
  <2> QED BY <2>1, <2>2
<1>16. ASSUME NEW i \in 1 .. n + 1, Current(t, i)', <<t, config>> \notin lost
       PROVE  Near(4 * (rtp'[t].timestamp - packets'[i].timestamp)
                       - (media'[t] - packets'[i].media),
                   2 * Behind(i)', 4 * TimeMod)
  <2> DEFINE ts == rtp[t].timestamp
             next == (ts + Ticks(ft)) % TimeMod
  <2>a. /\ ts \in Int /\ rtp'[t].timestamp = next /\ media'[t] = media[t] + ft
        /\ ft \in Nat
    BY <1>2, <1>3, <1>4, <1>14
  <2>1. CASE i = n + 1
    <3>1. Near(4 * (next - ts) - ((media[t] + ft) - media[t]), 2, 4 * TimeMod)
      BY <1>2, <1>14, <2>a, NearFirst
    <3>2. packets'[i].timestamp = ts /\ packets'[i].media = media[t] /\ 2 * Behind(i)' = 2
      BY <1>1, <1>10, <1>11, <2>1
    <3> QED BY <2>a, <3>1, <3>2
  <2>2. CASE i # n + 1
    <3>1. i \in 1 .. n /\ packets'[i] = packets[i]
      BY <1>1, <1>6, <2>2
    <3>2. Current(t, i)
      BY <1>16, <3>1 DEF Current
    <3> DEFINE b == packets[i].timestamp
               md == media[t] - packets[i].media
               d == 2 * (Dist(packets, i, n) + 1)
    <3>3. Near(4 * (ts - b) - md, d, 4 * TimeMod)
      BY <1>1, <1>11, <1>16, <3>1, <3>2 DEF IInv, NextTimestamp
    <3>a. Dist(packets, i, n) \in Nat /\ packets[i].media \in Int
      BY <1>9, <1>12, <3>1
    <3>4. b \in Int /\ md \in Int /\ d \in Nat
      <4>1. packets[i].timestamp \in Int /\ media[t] \in Int
        BY <1>12, <1>14, <3>1, Zenon
      <4>2. \A x, y \in Int : x - y \in Int
        OBVIOUS
      <4>3. \A x \in Nat : 2 * (x + 1) \in Nat
        OBVIOUS
      <4> QED BY <3>a, <4>1, <4>2, <4>3, Zenon
    <3>5. Behind(i)' = Dist(packets, i, n) + 1 + 1
      BY <1>9, <1>11, <1>13, <3>1, <3>2
    <3>6. 2 * Behind(i)' = d + 2
      BY <3>5, <3>a
    <3>b. (media[t] + ft) - packets[i].media = md + ft
      BY <1>14, <2>a, <3>a
    <3> HIDE DEF ts, b, md, d
    <3>7. Near(4 * (((ts + Ticks(ft)) % TimeMod) - b) - (md + ft), d + 2, 4 * TimeMod)
      BY <1>2, <2>a, <3>3, <3>4, NearStep
    <3> QED BY <2>a, <3>1, <3>6, <3>7, <3>b DEF b
  <2> QED BY <2>1, <2>2
\* The state of the other track: its packets are where they were.
<1>17. ASSUME NEW s \in Tracks \ {t}, NEW i \in 1 .. n + 1, Current(s, i)'
       PROVE  /\ i \in 1 .. n /\ packets'[i] = packets[i] /\ Current(s, i)
              /\ Behind(i)' = Behind(i)
  <2>1. i # n + 1
    BY <1>1, <1>17 DEF Current
  <2>2. i \in 1 .. n /\ packets'[i] = packets[i]
    BY <1>1, <1>6, <2>1
  <2>3. Current(s, i) /\ ~Alike(packets[i], p)
    BY <1>17, <2>2 DEF Current, Alike
  <2> QED BY <1>9, <1>11, <2>2, <2>3
<1>18. NextSeq'
  <2> SUFFICES ASSUME NEW s \in Tracks, rtp'[s] # None, NEW i \in 1 .. n + 1, Current(s, i)'
               PROVE  Cong(rtp'[s].seq - packets'[i].seq, Behind(i)', SeqMod)
    BY <1>1 DEF NextSeq
  <2>1. CASE s = t
    BY <1>15, <2>1
  <2>2. CASE s # t
    BY <1>1, <1>3, <1>17, <2>2 DEF IInv, NextSeq
  <2> QED BY <2>1, <2>2
<1>19. NextTimestamp'
  <2> SUFFICES ASSUME NEW s \in Tracks, rtp'[s] # None, <<s, config>> \notin lost,
                      NEW i \in 1 .. n + 1, Current(s, i)'
               PROVE  Near(4 * (rtp'[s].timestamp - packets'[i].timestamp)
                               - (media'[s] - packets'[i].media),
                           2 * Behind(i)', 4 * TimeMod)
    BY <1>1 DEF NextTimestamp
  <2>1. CASE s = t
    BY <1>16, <2>1
  <2>2. CASE s # t
    BY <1>1, <1>3, <1>17, <2>2 DEF IInv, NextTimestamp
  <2> QED BY <2>1, <2>2
\* The new packet, behind the others of its track.
<1>20. ASSUME NEW i \in 1 .. n, Alike(packets[i], p)
       PROVE  Current(t, i) /\ Behind(i) = Dist(packets', i, n + 1)
  BY <1>9, <1>11, <1>13, <1>20
<1>21. ASSUME NEW j \in 1 .. n + 1, NEW i \in 1 .. j - 1
       PROVE  i \in 1 .. n /\ packets'[i] = packets[i]
  BY <1>1
<1>22. PacketSeqs'
  <2> SUFFICES ASSUME NEW j \in 1 .. n + 1, NEW i \in 1 .. j - 1,
                      Alike(packets'[i], packets'[j])
               PROVE  Cong(packets'[j].seq - packets'[i].seq, Dist(packets', i, j), SeqMod)
    BY <1>1 DEF PacketSeqs
  <2>1. CASE j = n + 1
    BY <1>1, <1>20, <1>21, <2>1 DEF IInv, NextSeq
  <2>2. CASE j # n + 1
    BY <1>1, <1>6, <1>9, <1>21, <2>2 DEF IInv, PacketSeqs
  <2> QED BY <2>1, <2>2
<1>23. PacketTimestamps'
  <2> SUFFICES ASSUME NEW j \in 1 .. n + 1, NEW i \in 1 .. j - 1,
                      Alike(packets'[i], packets'[j]),
                      <<packets'[i].track, packets'[i].config>> \notin lost
               PROVE  Near(4 * (packets'[j].timestamp - packets'[i].timestamp)
                               - (packets'[j].media - packets'[i].media),
                           2 * Dist(packets', i, j), 4 * TimeMod)
    BY <1>1 DEF PacketTimestamps
  <2>1. CASE j = n + 1
    BY <1>1, <1>20, <1>21, <2>1 DEF IInv, NextTimestamp, Current
  <2>2. CASE j # n + 1
    BY <1>1, <1>6, <1>9, <1>21, <2>2 DEF IInv, PacketTimestamps
  <2> QED BY <2>1, <2>2
<1> QED BY <1>5, <1>7, <1>8, <1>18, <1>19, <1>22, <1>23

\* A frame that is lost leaves its track's numbers, but not its time.
LEMMA LostFrame ==
    ASSUME IInv, NEW t \in Tracks, NEW ft \in FrameTimes,
           media' = [media EXCEPT ![t] = @ + ft], lost' = lost \cup {<<t, config>>},
           UNCHANGED <<rtp, packets, config, closed>>
    PROVE  /\ ConfigPast' /\ Reopened' /\ ReconfiguredAfterClose'
           /\ NextSeq' /\ NextTimestamp' /\ PacketSeqs' /\ PacketTimestamps'
<1>1. ConfigPast' /\ Reopened' /\ ReconfiguredAfterClose'
  BY DEF IInv, ConfigPast, Reopened, ReconfiguredAfterClose
<1>2. NextSeq' /\ PacketSeqs' /\ PacketTimestamps'
  BY DEF IInv, NextSeq, Current, Behind, PacketSeqs, PacketTimestamps
<1>3. NextTimestamp'
  <2> SUFFICES ASSUME NEW s \in Tracks, rtp[s] # None, <<s, config>> \notin lost',
                      NEW i \in DOMAIN packets, Current(s, i)
               PROVE  Near(4 * (rtp[s].timestamp - packets[i].timestamp)
                               - (media'[s] - packets[i].media),
                           2 * Behind(i), 4 * TimeMod)
    BY DEF NextTimestamp, Current, Behind
  <2>1. s # t /\ <<s, config>> \notin lost
    OBVIOUS
  <2>2. media'[s] = media[s]
    BY <2>1 DEF IInv, TypeOK
  <2> QED BY <2>1, <2>2 DEF IInv, NextTimestamp
<1> QED BY <1>1, <1>2, <1>3

LEMMA SendFrameStep ==
    ASSUME IInv, NEW t \in Tracks, NEW ft \in FrameTimes, rtp[t] # None, SendFrame(t, ft)
    PROVE  IInv'
<1> USE DEF SendFrame, Call
<1>1. /\ media' = [media EXCEPT ![t] = @ + ft] /\ media' \in [Tracks -> Nat]
      /\ calls' \in Nat /\ config \in Nat
      /\ UNCHANGED <<peer_connection, tracks, video_codec, dave, negotiated, config, closed>>
  BY FrameTimesAssumption DEF IInv, TypeOK
<1>2. PICK e \in Encrypt(dave) :
          IF e = "err"
          THEN /\ lost' = lost \cup {<<t, config>>}
               /\ UNCHANGED <<rtp, packets>>
          ELSE /\ rtp' = [rtp EXCEPT ![t] = Packetized(@, ft)]
               /\ packets' = Append(packets,
                      [track |-> t, config |-> config, seq |-> rtp[t].seq,
                       timestamp |-> rtp[t].timestamp, media |-> media[t],
                       encrypted |-> e = "encrypted", agreed |-> IsReady(negotiated),
                       closed |-> closed])
               /\ lost' = lost
  BY DEF EncryptAndSend
<1>3. CASE e = "err"
  <2>1. lost' = lost \cup {<<t, config>>} /\ UNCHANGED <<rtp, packets>>
    BY <1>2, <1>3
  <2>2. TypeOK'
    BY <1>1, <2>1 DEF IInv, TypeOK
  <2> QED BY <1>1, <2>1, <2>2, LostFrame DEF IInv
<1>4. CASE e # "err"
  <2> DEFINE p == [track |-> t, config |-> config, seq |-> rtp[t].seq,
                   timestamp |-> rtp[t].timestamp, media |-> media[t],
                   encrypted |-> e = "encrypted", agreed |-> IsReady(negotiated),
                   closed |-> closed]
  <2>1. p \in Packet
    <3>1. /\ rtp[t].seq \in 0 .. SeqMod - 1 /\ rtp[t].timestamp \in 0 .. TimeMod - 1
          /\ media[t] \in Nat /\ closed \in Nat \cup {None}
      BY RtpFacts DEF IInv, TypeOK
    <3>2. (e = "encrypted") \in BOOLEAN /\ IsReady(negotiated) \in BOOLEAN
      BY DEF IInv, TypeOK, Handler, Session, IsReady, HasSession
    <3> QED BY <1>1, <3>1, <3>2, Zenon DEF Packet
  <2>2. /\ p.track = t /\ p.config = config /\ p.seq = rtp[t].seq
        /\ p.timestamp = rtp[t].timestamp /\ p.media = media[t] /\ p.closed = closed
    OBVIOUS
  <2>3. /\ packets' = Append(packets, p) /\ rtp' = [rtp EXCEPT ![t] = Packetized(@, ft)]
        /\ lost' = lost
    BY <1>2, <1>4
  <2> HIDE DEF p
  <2>4. /\ packets' \in Seq(Packet) /\ ConfigPast' /\ Reopened' /\ ReconfiguredAfterClose'
        /\ NextSeq' /\ NextTimestamp' /\ PacketSeqs' /\ PacketTimestamps'
        /\ rtp' \in [Tracks -> RtpState \cup {None}]
    BY <1>1, <2>1, <2>2, <2>3, PacketFacts
  <2>5. TypeOK'
    BY <1>1, <2>3, <2>4 DEF IInv, TypeOK
  <2> QED BY <2>4, <2>5 DEF IInv
<1> QED BY <1>3, <1>4

LEMMA StepIInv == IInv /\ [Next]_vars => IInv'
<1> SUFFICES ASSUME IInv, [Next]_vars PROVE IInv'
  OBVIOUS
<1>1. CASE InitPeer
  <2>1. /\ UNCHANGED <<rtp, video_codec, dave, negotiated, media, config, closed, lost, packets>>
        /\ {peer_connection', tracks'} \subseteq BOOLEAN /\ calls' = calls + 1
    BY <1>1 DEF InitPeer, Call, IInv, TypeOK
  <2> QED BY <2>1, QuietStep DEF IInv, TypeOK
<1>2. CASE SetPacketizer
  BY <1>2, SetPacketizerStep
<1>3. ASSUME NEW ft \in FrameTimes, SendAudioFrame(ft) \/ SendVideoFrame(ft) PROVE IInv'
  <2>1. PICK t \in Tracks : rtp[t] # None /\ SendFrame(t, ft)
    BY <1>3 DEF SendAudioFrame, SendVideoFrame, Tracks
  <2> QED BY <2>1, SendFrameStep
<1>4. ASSUME NEW t \in Tracks, SendFails(t) PROVE IInv'
  <2>1. /\ UNCHANGED <<peer_connection, tracks, rtp, video_codec, dave, negotiated, media,
                       config, closed, lost, packets>>
        /\ calls' = calls + 1
    BY <1>4 DEF SendFails, Call
  <2> QED BY <2>1, QuietStep DEF IInv, TypeOK
<1>5. CASE Close
  BY <1>5, CloseStep
<1>6. CASE CallerDrives \/ ConnectionNegotiates
  <2>1. {dave', negotiated'} \subseteq Handler
    BY <1>6, StepsFacts DEF CallerDrives, ConnectionNegotiates, IInv, TypeOK
  <2> QED
    BY <1>6, <2>1, QuietStep DEF CallerDrives, ConnectionNegotiates, Call, IInv, TypeOK
<1>7. CASE UNCHANGED vars
  BY <1>7, QuietStep DEF vars, IInv, TypeOK
<1> QED BY <1>1, <1>2, <1>3, <1>4, <1>5, <1>6, <1>7 DEF Next

(* Every reachable state satisfies the inductive invariant; the theorems   *)
(* below read the properties off it.                                       *)
THEOREM Invariance == Spec => []IInv
<1>1. Init => IInv
  BY InitIInv
<1>2. IInv /\ [Next]_vars => IInv'
  BY StepIInv
<1> QED BY <1>1, <1>2, PTL DEF Spec

(* The numbers and timestamps of the tracks, and of every packet handed to  *)
(* webrtc, stay within their widths (webrtc.rs:58, 78, 96).                 *)
THEOREM TypeCorrect == Spec => []TypeOK
<1>1. IInv => TypeOK
  BY DEF IInv
<1> QED BY <1>1, Invariance, PTL

(* No packet goes by the configuration of a connection that was closed     *)
(* (webrtc.rs:259, 367).                                                   *)
THEOREM NothingOfAClosedConnection == Spec => []ReconfiguredAfterClose
<1>1. IInv => ReconfiguredAfterClose
  BY DEF IInv
<1> QED BY <1>1, Invariance, PTL

LEMMA PairFacts ==
    ASSUME IInv, NEW j \in DOMAIN packets, NEW i \in 1 .. j - 1
    PROVE  /\ packets[i].seq \in Int /\ packets[j].seq \in Int
           /\ packets[i].timestamp \in Int /\ packets[j].timestamp \in Int
           /\ packets[i].media \in Int /\ packets[j].media \in Int
           /\ Dist(packets, i, j) \in Nat /\ Distance(i, j) = Dist(packets, i, j)
           /\ SameTrack(i, j) <=> Alike(packets[i], packets[j])
<1>1. packets \in Seq(Packet) /\ i \in 1 .. Len(packets) /\ j \in 1 .. Len(packets)
  BY DEF IInv, TypeOK
<1>2. i \in DOMAIN packets
  BY <1>1
<1> QED BY <1>1, <1>2, PacketFields, DistFacts, DistanceIsDist DEF SameTrack, Alike

(* The sequence numbers of a track go up by one per packet, across every    *)
(* wrap of the 16 bits (webrtc.rs:78), whatever is lost before it is a      *)
(* packet.                                                                  *)
THEOREM SeqNumbersContinue == Spec => []SeqContinuous
<1>1. IInv => SeqContinuous
  <2> SUFFICES ASSUME IInv, NEW j \in DOMAIN packets, NEW i \in 1 .. j - 1, SameTrack(i, j)
               PROVE  (packets[j].seq - packets[i].seq) % SeqMod = Distance(i, j) % SeqMod
    BY DEF SeqContinuous
  <2>1. /\ packets[j].seq - packets[i].seq \in Int /\ Distance(i, j) \in Int
        /\ SeqMod \in Nat \ {0}
    BY PairFacts, WidthAssumption
  <2>2. Cong(packets[j].seq - packets[i].seq, Distance(i, j), SeqMod)
    BY PairFacts DEF IInv, PacketSeqs
  <2> QED BY <2>1, <2>2, CongMod
<1> QED BY <1>1, Invariance, PTL

(* The timestamps of a track advance with its media, off by at most half a *)
(* tick a packet, across every wrap of the 32 bits (webrtc.rs:96).          *)
THEOREM TimestampsContinue == Spec => []TimestampFollowsMedia
<1>1. IInv => TimestampFollowsMedia
  <2> SUFFICES ASSUME IInv, NEW j \in DOMAIN packets, NEW i \in 1 .. j - 1, SameTrack(i, j),
                      <<packets[i].track, packets[i].config>> \notin lost
               PROVE  LET ticks == packets[j].timestamp - packets[i].timestamp
                          drift == (4 * ticks - (packets[j].media - packets[i].media))
                                       % (4 * TimeMod)
                          bound == 2 * Distance(i, j)
                      IN  drift <= bound \/ 4 * TimeMod - drift <= bound
    BY DEF TimestampFollowsMedia
  <2> DEFINE x == 4 * (packets[j].timestamp - packets[i].timestamp)
                      - (packets[j].media - packets[i].media)
             n == 2 * Distance(i, j)
             m == 4 * TimeMod
  <2>1. x \in Int /\ n \in Nat /\ m \in Nat \ {0}
    <3>1. /\ packets[i].timestamp \in Int /\ packets[j].timestamp \in Int
          /\ packets[i].media \in Int /\ packets[j].media \in Int /\ Distance(i, j) \in Nat
      BY PairFacts
    <3> QED BY <3>1, WidthAssumption
  <2>2. Near(x, n, m)
    BY PairFacts DEF IInv, PacketTimestamps
  <2> HIDE DEF x, n, m
  <2>3. x % m <= n \/ m - (x % m) <= n
    BY <2>1, <2>2, NearMod
  <2> QED BY <2>3 DEF x, n, m
<1> QED BY <1>1, Invariance, PTL
=============================================================================
