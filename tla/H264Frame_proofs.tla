-------------------------- MODULE H264Frame_proofs --------------------------
(***************************************************************************)
(* What is proved of H264Frame for every frame and every width of a word.   *)
(***************************************************************************)
EXTENDS H264Coding_proofs

-----------------------------------------------------------------------------
(* The types of the rewriter.                                              *)

SpsTyped ==
    /\ reader.buffer \in Bytes /\ reader \in Readers(reader.buffer)
    /\ writer \in Writers
    /\ list \in 0 .. 12
    /\ pc = "high" => list = 0
    /\ pc = "lists" => list < (IF chroma_format_idc # 3 THEN 8 ELSE 12)
    /\ hrd \in BOOLEAN
    /\ chroma_format_idc \in UeVals /\ max_num_ref_frames \in UeVals

\* What the reader and the writer are after a part that ended with the cursor c.
LEMMA TakeType ==
    ASSUME NEW buf \in Bytes, NEW c \in Cursors(buf), NEW next, Take(c, next)
    PROVE  /\ reader' \in Readers(buf) /\ reader'.buffer = buf /\ writer' \in Writers
           /\ pc' \in {next, "panicked"}
BY DEF Take, Cursors, Readers

LEMMA CursorType == SpsTyped => Cursor \in Cursors(reader.buffer)
<1>1. <<>> \in Seq(Int)
  OBVIOUS
<1> QED BY <1>1 DEF SpsTyped, Cursor, Cursors

LEMMA UeValsNat == UeVals \subseteq Nat /\ 0 \in UeVals
<1>1. 0 \in Values(ue)
  BY SmallValues, DescsHere
<1> QED BY <1>1, DescsHere DEF UeVals

\* A part keeps the types if what it ends with has them.
LEMMA PartTyped ==
    ASSUME SpsTyped, NEW c \in Cursors(reader.buffer), NEW next, next \notin {"high", "lists"},
           Take(c, next), UNCHANGED <<chroma_format_idc, list>>,
           hrd' \in BOOLEAN, max_num_ref_frames' \in UeVals
    PROVE  SpsTyped'
<1>1. reader.buffer \in Bytes
  BY DEF SpsTyped
<1>2. /\ reader' \in Readers(reader.buffer) /\ reader'.buffer = reader.buffer /\ writer' \in Writers
      /\ pc' \in {next, "panicked"}
  BY <1>1, TakeType
<1> QED BY <1>1, <1>2 DEF SpsTyped

LEMMA HighTyped == SpsTyped /\ CopyHighProfile => SpsTyped'
<1> SUFFICES ASSUME SpsTyped, CopyHighProfile PROVE SpsTyped'
  OBVIOUS
<1> DEFINE buf == reader.buffer
           chroma == Copy(Cursor, <<ue>>)
           plane == IF LastOf(chroma) = 3 THEN Copy(chroma, <<u(1)>>) ELSE chroma
           c == Copy(plane, <<ue, ue, u(1), u(1)>>)
           next == IF Present(c) THEN "lists" ELSE "frame_num"
<1>1. buf \in Bytes /\ Cursor \in Cursors(buf)
  BY CursorType DEF SpsTyped
<1>2. <<ue>> \in Seq(Descs) /\ <<u(1)>> \in Seq(Descs) /\ <<ue, ue, u(1), u(1)>> \in Seq(Descs)
  BY DescsHere
<1>3. chroma \in Cursors(buf) /\ LastOf(chroma) \in UeVals
  BY <1>1, <1>2, CopyType, DescsHere
<1>4. plane \in Cursors(buf)
  <2> HIDE DEF chroma
  <2> QED BY <1>1, <1>2, <1>3, CopyType
<1>5. c \in Cursors(buf)
  <2> HIDE DEF plane
  <2> QED BY <1>1, <1>2, <1>4, CopyType
<1>6. /\ chroma_format_idc' = LastOf(chroma) /\ Take(c, next)
      /\ pc = "high" /\ UNCHANGED <<list, max_num_ref_frames, hrd>>
  BY DEF CopyHighProfile
<1> HIDE DEF c, chroma, next
<1>7. /\ reader' \in Readers(buf) /\ reader'.buffer = buf /\ writer' \in Writers
      /\ pc' \in {next, "panicked"}
  BY <1>1, <1>5, <1>6, TakeType
<1>8. pc' # "high"
  BY <1>7 DEF next
<1> QED BY <1>1, <1>3, <1>6, <1>7, <1>8 DEF SpsTyped

LEMMA ListTyped == SpsTyped /\ CopyScalingList => SpsTyped'
<1> SUFFICES ASSUME SpsTyped, CopyScalingList PROVE SpsTyped'
  OBVIOUS
<1> DEFINE buf == reader.buffer
           flag == Copy(Cursor, <<u(1)>>)
           c == CopyIf(flag, Repeat(IF list < 6 THEN 16 ELSE 64, se))
           count == IF chroma_format_idc # 3 THEN 8 ELSE 12
           next == IF list + 1 = count THEN "frame_num" ELSE "lists"
<1>1. buf \in Bytes /\ Cursor \in Cursors(buf)
  BY CursorType DEF SpsTyped
<1>2. <<u(1)>> \in Seq(Descs) /\ Repeat(IF list < 6 THEN 16 ELSE 64, se) \in Seq(Descs)
  <2>1. <<u(1)>> \in Seq(Descs)
    BY DescsHere
  <2>2. (IF list < 6 THEN 16 ELSE 64) \in Nat
    OBVIOUS
  <2> QED BY ONLY <2>1, <2>2, DescsHere, RepeatType, Zenon
<1>3. flag \in Cursors(buf)
  BY <1>1, <1>2, CopyType
<1>4. c \in Cursors(buf)
  <2> HIDE DEF flag
  <2> QED BY <1>1, <1>2, <1>3, CopyType
<1>5. /\ Take(c, next) /\ pc = "lists" /\ list' = list + 1
      /\ UNCHANGED <<chroma_format_idc, max_num_ref_frames, hrd>>
  BY DEF CopyScalingList
<1> HIDE DEF c, next
<1>6. /\ reader' \in Readers(buf) /\ reader'.buffer = buf /\ writer' \in Writers
      /\ pc' \in {next, "panicked"}
  BY <1>1, <1>4, <1>5, TakeType
<1>7. pc' # "high"
  BY <1>6 DEF next
<1>8. list' \in 0 .. 12 /\ (pc' = "lists" => list' < count)
  BY <1>5, <1>6 DEF SpsTyped, next
<1> QED BY <1>1, <1>5, <1>6, <1>7, <1>8 DEF SpsTyped

LEMMA PicOrderCntTyped == SpsTyped /\ CopyPicOrderCnt => SpsTyped'
<1> SUFFICES ASSUME SpsTyped, CopyPicOrderCnt PROVE SpsTyped'
  OBVIOUS
<1> DEFINE buf == reader.buffer
           c == Copy(Cursor, <<ue, ue>>)
           cycle == Copy(c, <<u(1), se, se, ue>>)
           end == CASE LastOf(c) = 0 -> Copy(c, <<ue>>)
                    [] LastOf(c) = 1 -> Copy(cycle, Repeat(LastOf(cycle), se))
                    [] OTHER        -> c
<1>1. buf \in Bytes /\ Cursor \in Cursors(buf)
  BY CursorType DEF SpsTyped
<1>2. <<ue>> \in Seq(Descs) /\ <<ue, ue>> \in Seq(Descs) /\ <<u(1), se, se, ue>> \in Seq(Descs)
  BY DescsHere
<1>3. c \in Cursors(buf)
  BY <1>1, <1>2, CopyType
<1>4. cycle \in Cursors(buf) /\ LastOf(cycle) \in UeVals
  <2> HIDE DEF c
  <2>1. cycle \in Cursors(buf) /\ LastOf(cycle) \in Values(<<u(1), se, se, ue>>[Len(<<u(1), se, se, ue>>)])
    BY <1>1, <1>2, <1>3, CopyType
  <2>2. <<u(1), se, se, ue>>[Len(<<u(1), se, se, ue>>)] = ue
    OBVIOUS
  <2> QED BY <2>1, <2>2, DescsHere
<1>5. Repeat(LastOf(cycle), se) \in Seq(Descs)
  BY <1>4, RepeatType, UeValsNat, DescsHere
<1>6. end \in Cursors(buf)
  <2> HIDE DEF cycle, c
  <2>1. Copy(c, <<ue>>) \in Cursors(buf) /\ Copy(cycle, Repeat(LastOf(cycle), se)) \in Cursors(buf)
    BY <1>1, <1>2, <1>3, <1>4, <1>5, CopyType
  <2> QED BY <1>3, <2>1
<1>7. Take(end, "picture") /\ UNCHANGED <<chroma_format_idc, list, max_num_ref_frames, hrd>>
  BY DEF CopyPicOrderCnt
<1> HIDE DEF end
<1> QED BY <1>6, <1>7, PartTyped DEF SpsTyped

LEMMA RestrictionPutType ==
    ASSUME NEW buf \in Bytes, NEW c \in Cursors(buf), max_num_ref_frames \in UeVals
    PROVE  PutRestriction(c) \in Cursors(buf)
<1>1. /\ u(1) \in Descs /\ ue \in Descs /\ 1 \in Values(u(1)) /\ 2 \in Values(ue)
      /\ 1 \in Values(ue) /\ 16 \in Values(ue) /\ 0 \in Values(ue)
      /\ max_num_ref_frames \in Values(ue)
  BY DescsHere, SmallValues
<1>2. PICK c1 \in Cursors(buf) : c1 = Put(c, u(1), 1)
  BY <1>1, PutType, Zenon
<1>3. PICK c2 \in Cursors(buf) : c2 = Put(c1, ue, 2)
  BY <1>1, PutType, Zenon
<1>4. PICK c3 \in Cursors(buf) : c3 = Put(c2, ue, 1)
  BY <1>1, PutType, Zenon
<1>5. PICK c4 \in Cursors(buf) : c4 = Put(c3, ue, 16)
  BY <1>1, PutType, Zenon
<1>6. PICK c5 \in Cursors(buf) : c5 = Put(c4, ue, 16)
  BY <1>1, PutType, Zenon
<1>7. PICK c6 \in Cursors(buf) : c6 = Put(c5, ue, 0)
  BY <1>1, PutType, Zenon
<1>8. Put(c6, ue, max_num_ref_frames) \in Cursors(buf)
  BY <1>1, PutType, Zenon
<1> QED BY ONLY <1>2, <1>3, <1>4, <1>5, <1>6, <1>7, <1>8, Zenon DEF PutRestriction

LEMMA PictureTyped == SpsTyped /\ CopyPicture => SpsTyped'
<1> SUFFICES ASSUME SpsTyped, CopyPicture PROVE SpsTyped'
  OBVIOUS
<1> DEFINE buf == reader.buffer
           refs == Copy(Cursor, <<ue>>)
           size == Copy(refs, <<u(1), ue, ue, u(1)>>)
           field == IF Present(size) THEN size ELSE Copy(size, <<u(1)>>)
           crop == Copy(field, <<u(1), u(1)>>)
           c == CopyIf(crop, Repeat(4, ue))
<1>1. buf \in Bytes /\ Cursor \in Cursors(buf)
  BY CursorType DEF SpsTyped
<1>2. /\ <<ue>> \in Seq(Descs) /\ <<u(1), ue, ue, u(1)>> \in Seq(Descs) /\ <<u(1)>> \in Seq(Descs)
      /\ <<u(1), u(1)>> \in Seq(Descs)
  BY DescsHere
<1>3. Repeat(4, ue) \in Seq(Descs)
  <2>1. 4 \in Nat
    OBVIOUS
  <2> QED BY ONLY <2>1, DescsHere, RepeatType, Zenon
<1>4. refs \in Cursors(buf) /\ LastOf(refs) \in UeVals
  BY <1>1, <1>2, CopyType, DescsHere
<1>5. size \in Cursors(buf)
  <2> HIDE DEF refs
  <2> QED BY <1>1, <1>2, <1>4, CopyType
<1>6. field \in Cursors(buf)
  <2> HIDE DEF size
  <2> QED BY <1>1, <1>2, <1>5, CopyType
<1>7. crop \in Cursors(buf)
  <2> HIDE DEF field
  <2> QED BY <1>1, <1>2, <1>6, CopyType
<1>8. c \in Cursors(buf)
  <2> HIDE DEF crop
  <2> QED BY <1>1, <1>3, <1>7, CopyType
<1>9. /\ max_num_ref_frames' = LastOf(refs) /\ Take(c, "vui?")
      /\ UNCHANGED <<chroma_format_idc, list, hrd>>
  BY DEF CopyPicture
<1> HIDE DEF c, refs
<1> QED BY <1>4, <1>8, <1>9, PartTyped DEF SpsTyped

LEMMA VuiFlagTyped == SpsTyped /\ CopyVuiFlag => SpsTyped'
<1> SUFFICES ASSUME SpsTyped, CopyVuiFlag PROVE SpsTyped'
  OBVIOUS
<1> DEFINE buf == reader.buffer
           flag == Put(Skip(Cursor, <<u(1)>>), u(1), 1)
           minimal == Put(Put(Put(Put(flag, u(2), 0), u(1), 0), u(5), 0), u(1), 1)
<1>1. buf \in Bytes /\ Cursor \in Cursors(buf) /\ max_num_ref_frames \in UeVals
  BY CursorType DEF SpsTyped
<1>2. <<u(1)>> \in Seq(Descs)
  BY DescsHere
<1>3. /\ u(1) \in Descs /\ u(2) \in Descs /\ u(5) \in Descs
      /\ 1 \in Values(u(1)) /\ 0 \in Values(u(1)) /\ 0 \in Values(u(2)) /\ 0 \in Values(u(5))
  BY DescsHere, SmallValues
<1>4. flag \in Cursors(buf)
  BY <1>1, <1>2, <1>3, CopyType, PutType
<1>5. minimal \in Cursors(buf)
  <2> HIDE DEF flag
  <2>1. PICK c1 \in Cursors(buf) : c1 = Put(flag, u(2), 0)
    BY <1>1, <1>3, <1>4, PutType, Zenon
  <2>2. PICK c2 \in Cursors(buf) : c2 = Put(c1, u(1), 0)
    BY <1>1, <1>3, PutType, Zenon
  <2>3. PICK c3 \in Cursors(buf) : c3 = Put(c2, u(5), 0)
    BY <1>1, <1>3, PutType, Zenon
  <2>4. Put(c3, u(1), 1) \in Cursors(buf)
    BY <1>1, <1>3, PutType, Zenon
  <2> QED BY ONLY <2>1, <2>2, <2>3, <2>4, Zenon
<1>6. /\ IF Present(flag) THEN Take(flag, "vui") ELSE Take(PutRestriction(minimal), "stop")
      /\ UNCHANGED <<chroma_format_idc, list, max_num_ref_frames, hrd>>
  BY DEF CopyVuiFlag
<1> HIDE DEF flag, minimal
<1>7. PutRestriction(minimal) \in Cursors(buf)
  BY <1>1, <1>5, RestrictionPutType
<1> QED BY <1>4, <1>6, <1>7, PartTyped DEF SpsTyped

LEMMA VuiTyped == SpsTyped /\ CopyVui => SpsTyped'
<1> SUFFICES ASSUME SpsTyped, CopyVui PROVE SpsTyped'
  OBVIOUS
<1> DEFINE buf == reader.buffer
           flag == Copy(Cursor, <<u(1)>>)
           aspect == CopyIf(flag, <<u(8)>>)
           sar == IF LastOf(aspect) = 255 THEN Copy(aspect, <<u(16), u(16)>>) ELSE aspect
           overscan == CopyIf(Copy(sar, <<u(1)>>), <<u(1)>>)
           signal == SkipIf(Put(Skip(overscan, <<u(1)>>), u(1), 0), <<u(3), u(1), u(1)>>)
           colour == SkipIf(signal, <<u(8), u(8), u(8)>>)
           chroma == CopyIf(Copy(colour, <<u(1)>>), <<ue, ue>>)
           timing == CopyIf(Copy(chroma, <<u(1)>>), <<u(32), u(32), u(1)>>)
<1>1. buf \in Bytes /\ Cursor \in Cursors(buf)
  BY CursorType DEF SpsTyped
<1>2. /\ <<u(1)>> \in Seq(Descs) /\ <<u(8)>> \in Seq(Descs) /\ <<u(16), u(16)>> \in Seq(Descs)
      /\ <<u(3), u(1), u(1)>> \in Seq(Descs) /\ <<u(8), u(8), u(8)>> \in Seq(Descs)
      /\ <<ue, ue>> \in Seq(Descs) /\ <<u(32), u(32), u(1)>> \in Seq(Descs)
  BY DescsHere
<1>3. aspect \in Cursors(buf)
  <2>1. flag \in Cursors(buf)
    BY <1>1, <1>2, CopyType
  <2> HIDE DEF flag
  <2> QED BY <1>1, <1>2, <2>1, CopyType
<1>4. sar \in Cursors(buf)
  <2> HIDE DEF aspect
  <2>1. Copy(aspect, <<u(16), u(16)>>) \in Cursors(buf)
    BY <1>1, <1>2, <1>3, CopyType
  <2> QED BY <1>3, <2>1, Zenon
<1>5. overscan \in Cursors(buf)
  <2> HIDE DEF sar
  <2>1. Copy(sar, <<u(1)>>) \in Cursors(buf)
    BY <1>1, <1>2, <1>4, CopyType
  <2> QED BY <1>1, <1>2, <2>1, CopyType
<1>6. signal \in Cursors(buf)
  <2> HIDE DEF overscan
  <2>1. PICK c1 \in Cursors(buf) : c1 = Skip(overscan, <<u(1)>>)
    BY <1>1, <1>2, <1>5, CopyType, Zenon
  <2>2. u(1) \in Descs /\ 0 \in Values(u(1))
    BY DescsHere, SmallValues
  <2>3. PICK c2 \in Cursors(buf) : c2 = Put(c1, u(1), 0)
    BY <1>1, <2>2, PutType, Zenon
  <2>4. SkipIf(c2, <<u(3), u(1), u(1)>>) \in Cursors(buf)
    BY <1>1, <1>2, CopyType
  <2> QED BY ONLY <2>1, <2>3, <2>4, Zenon
<1>7. colour \in Cursors(buf)
  <2> HIDE DEF signal
  <2> QED BY <1>1, <1>2, <1>6, CopyType
<1>8. chroma \in Cursors(buf)
  <2> HIDE DEF colour
  <2>1. Copy(colour, <<u(1)>>) \in Cursors(buf)
    BY <1>1, <1>2, <1>7, CopyType
  <2> QED BY <1>1, <1>2, <2>1, CopyType
<1>9. timing \in Cursors(buf)
  <2> HIDE DEF chroma
  <2>1. Copy(chroma, <<u(1)>>) \in Cursors(buf)
    BY <1>1, <1>2, <1>8, CopyType
  <2> QED BY <1>1, <1>2, <2>1, CopyType
<1>10. Take(timing, "nal_hrd") /\ UNCHANGED <<chroma_format_idc, list, max_num_ref_frames, hrd>>
  BY DEF CopyVui
<1> HIDE DEF timing
<1> QED BY <1>9, <1>10, PartTyped DEF SpsTyped

LEMMA HrdParametersType ==
    ASSUME NEW buf \in Bytes, NEW c \in Cursors(buf)
    PROVE  CopyHrdParameters(c) \in Cursors(buf)
<1> DEFINE cpb == Copy(c, <<ue>>)
           scales == Copy(cpb, <<u(4), u(4)>>)
           each == FlattenSeq(Repeat(LastOf(cpb) + 1, <<ue, ue, u(1)>>))
           cpbs == Copy(scales, each)
<1>1. /\ <<ue>> \in Seq(Descs) /\ <<u(4), u(4)>> \in Seq(Descs) /\ <<ue, ue, u(1)>> \in Seq(Descs)
  BY DescsHere
<1>2. Repeat(4, u(5)) \in Seq(Descs)
  <2>1. 4 \in Nat /\ 5 \in 0 .. 32
    OBVIOUS
  <2> QED BY ONLY <2>1, DescsHere, RepeatType, Zenon
<1>3. cpb \in Cursors(buf) /\ LastOf(cpb) \in UeVals
  BY <1>1, CopyType, DescsHere
<1>4. each \in Seq(Descs)
  <2>1. LastOf(cpb) + 1 \in Nat
    <3>1. PICK n \in Nat : n = LastOf(cpb)
      BY ONLY <1>3, UeValsNat, Zenon
    <3>2. n + 1 \in Nat
      OBVIOUS
    <3> QED BY ONLY <3>1, <3>2, Zenon
  <2>2. PICK ss \in Seq(Seq(Descs)) : ss = Repeat(LastOf(cpb) + 1, <<ue, ue, u(1)>>)
    BY ONLY <1>1, <2>1, RepeatType, Zenon
  <2>3. PICK t : t \in [0 .. Len(ss) -> Seq(Descs)] /\ t[0] = FlattenSeq(ss)
    BY FlattenTails, Zenon DEF FlatTails
  <2>4. 0 \in 0 .. Len(ss)
    OBVIOUS
  <2>5. t[0] \in Seq(Descs)
    BY ONLY <2>3, <2>4, SMT
  <2> QED BY ONLY <2>2, <2>3, <2>5, Zenon
<1>5. scales \in Cursors(buf)
  <2> HIDE DEF cpb
  <2> QED BY <1>1, <1>3, CopyType
<1>6. cpbs \in Cursors(buf)
  <2> HIDE DEF scales, each
  <2> QED BY <1>4, <1>5, CopyType
<1>7. Copy(cpbs, Repeat(4, u(5))) \in Cursors(buf)
  <2> HIDE DEF cpbs
  <2> QED BY <1>2, <1>6, CopyType
<1> QED BY <1>7, Zenon DEF CopyHrdParameters

LEMMA HrdTyped ==
    ASSUME NEW part, NEW next, next \notin {"high", "lists"}
    PROVE  SpsTyped /\ CopyHrd(part, next) => SpsTyped'
<1> SUFFICES ASSUME SpsTyped, CopyHrd(part, next) PROVE SpsTyped'
  OBVIOUS
<1> DEFINE buf == reader.buffer
           flag == Copy(Cursor, <<u(1)>>)
           c == IF Present(flag) THEN CopyHrdParameters(flag) ELSE flag
<1>1. buf \in Bytes /\ Cursor \in Cursors(buf)
  BY CursorType DEF SpsTyped
<1>2. <<u(1)>> \in Seq(Descs)
  BY DescsHere
<1>3. flag \in Cursors(buf)
  BY <1>1, <1>2, CopyType
<1>4. c \in Cursors(buf)
  <2> HIDE DEF flag
  <2> QED BY <1>1, <1>3, HrdParametersType
<1>5. /\ Take(c, next) /\ hrd' = (hrd \/ Present(flag))
      /\ UNCHANGED <<chroma_format_idc, list, max_num_ref_frames>>
  BY DEF CopyHrd
<1>6. hrd' \in BOOLEAN
  BY <1>5 DEF SpsTyped, Present
<1> HIDE DEF c
<1> QED BY <1>4, <1>5, <1>6, PartTyped DEF SpsTyped

LEMMA RestrictionTyped == SpsTyped /\ CopyRestriction => SpsTyped'
<1> SUFFICES ASSUME SpsTyped, CopyRestriction PROVE SpsTyped'
  OBVIOUS
<1> DEFINE buf == reader.buffer
           low_delay == IF hrd THEN Copy(Cursor, <<u(1)>>) ELSE Cursor
           flag == Put(Skip(Copy(low_delay, <<u(1)>>), <<u(1)>>), u(1), 1)
           limits == Copy(flag, <<u(1), ue, ue, ue, ue>>)
           reorder == Put(Skip(limits, <<ue>>), ue, 0)
           c == IF Present(flag) THEN Put(Skip(reorder, <<ue>>), ue, max_num_ref_frames)
                ELSE PutRestriction(flag)
<1>1. buf \in Bytes /\ Cursor \in Cursors(buf) /\ max_num_ref_frames \in UeVals
  BY CursorType DEF SpsTyped
<1>2. /\ <<u(1)>> \in Seq(Descs) /\ <<ue>> \in Seq(Descs) /\ <<u(1), ue, ue, ue, ue>> \in Seq(Descs)
      /\ u(1) \in Descs /\ ue \in Descs /\ 1 \in Values(u(1)) /\ 0 \in Values(ue)
      /\ max_num_ref_frames \in Values(ue)
  BY <1>1, DescsHere, SmallValues
<1>3. low_delay \in Cursors(buf)
  BY <1>1, <1>2, CopyType
<1>4. flag \in Cursors(buf)
  <2> HIDE DEF low_delay
  <2>1. PICK c1 \in Cursors(buf) : c1 = Copy(low_delay, <<u(1)>>)
    BY <1>1, <1>2, <1>3, CopyType, Zenon
  <2>2. PICK c2 \in Cursors(buf) : c2 = Skip(c1, <<u(1)>>)
    BY <1>1, <1>2, CopyType, Zenon
  <2>3. Put(c2, u(1), 1) \in Cursors(buf)
    BY <1>1, <1>2, PutType, Zenon
  <2> QED BY ONLY <2>1, <2>2, <2>3, Zenon
<1>5. limits \in Cursors(buf)
  <2> HIDE DEF flag
  <2> QED BY <1>1, <1>2, <1>4, CopyType
<1>6. reorder \in Cursors(buf)
  <2> HIDE DEF limits
  <2>1. PICK c1 \in Cursors(buf) : c1 = Skip(limits, <<ue>>)
    BY <1>1, <1>2, <1>5, CopyType, Zenon
  <2>2. Put(c1, ue, 0) \in Cursors(buf)
    BY <1>1, <1>2, PutType, Zenon
  <2> QED BY ONLY <2>1, <2>2, Zenon
<1>7. c \in Cursors(buf)
  <2> HIDE DEF flag, reorder
  <2>1. PICK c1 \in Cursors(buf) : c1 = Skip(reorder, <<ue>>)
    BY <1>1, <1>2, <1>6, CopyType, Zenon
  <2>2. Put(c1, ue, max_num_ref_frames) \in Cursors(buf)
    BY <1>1, <1>2, PutType, Zenon
  <2>3. PutRestriction(flag) \in Cursors(buf)
    BY <1>1, <1>4, RestrictionPutType
  <2> QED BY ONLY <2>1, <2>2, <2>3, Zenon
<1>8. Take(c, "stop") /\ UNCHANGED <<chroma_format_idc, list, max_num_ref_frames, hrd>>
  BY DEF CopyRestriction
<1> HIDE DEF c
<1> QED BY <1>7, <1>8, PartTyped DEF SpsTyped

LEMMA FinishTyped == SpsTyped /\ Finish => SpsTyped'
<1> SUFFICES ASSUME SpsTyped, Finish PROVE SpsTyped'
  OBVIOUS
<1>1. writer \in Writers /\ 1 \in Nat /\ 1 \in 0 .. 34
  BY DEF SpsTyped
<1>2. PICK w \in Writers : w = WriteBits(writer, 1, 1)
  BY ONLY <1>1, WriteBitsType, Zenon
<1>3. w.arr \in Bytes /\ NoEmulation(w.arr) /\ w.pending_byte \in Byte
  BY DEF Writers
<1>4. FlushFinal(w) \in Writers
  BY <1>3, FlushType DEF FlushFinal
<1>5. writer' = FlushFinal(w)
  BY ONLY <1>2, Finish, Zenon DEF Finish
<1>6. pc' = "rewritten" /\ UNCHANGED <<reader, chroma_format_idc, list, max_num_ref_frames, hrd>>
  BY DEF Finish
<1> QED BY <1>4, <1>5, <1>6 DEF SpsTyped

-----------------------------------------------------------------------------
(* The units of a frame.                                                   *)

CodeAt(buf, i) == i \in 1 .. Len(buf) - 2 /\ buf[i] = 0 /\ buf[i + 1] = 0 /\ buf[i + 2] = 1

LEMMA CodePlaces ==
    ASSUME NEW buf \in Bytes, NEW i \in 1 .. Len(buf) - 2
    PROVE  SubSeq(buf, i, i + 2) = <<0, 0, 1>> <=> CodeAt(buf, i)
<1>1. buf \in Seq(0 .. 255) /\ Len(buf) \in Nat
  BY DEF Bytes, Byte
<1>2. PICK s : s = SubSeq(buf, i, i + 2)
  OBVIOUS
<1>3. Len(s) = 3 /\ s \in Seq(0 .. 255) /\ s[1] = buf[i] /\ s[2] = buf[i + 1] /\ s[3] = buf[i + 2]
  <2>1. PICK n \in Nat : n = Len(buf) /\ i \in Nat /\ 1 <= i /\ i + 2 <= n
    BY <1>1
  <2>2. Len(s) = 3 /\ \A j \in 1 .. 3 : s[j] = buf[i + j - 1]
    BY <1>1, <1>2
  <2>3. i + 1 - 1 = i /\ i + 2 - 1 = i + 1 /\ i + 3 - 1 = i + 2
    OBVIOUS
  <2>4. s[1] = buf[i + 1 - 1] /\ s[2] = buf[i + 2 - 1] /\ s[3] = buf[i + 3 - 1]
    BY ONLY <2>2, SMT
  <2>5. s \in Seq(0 .. 255)
    <3>1. \A j \in 1 .. n : buf[j] \in 0 .. 255
      BY <1>1, <2>1
    <3>2. \A j \in 1 .. 3 : i + j - 1 \in 1 .. n
      BY <2>1
    <3>3. \A j \in 1 .. 3 : s[j] \in 0 .. 255
      BY ONLY <2>2, <3>1, <3>2, Zenon
    <3>4. s = [j \in 1 .. 3 |-> buf[i + j - 1]]
      BY <1>1, <1>2, <2>1
    <3>5. s \in [1 .. 3 -> 0 .. 255]
      BY ONLY <2>2, <3>3, <3>4, Zenon
    <3>6. \A m \in Nat : \A q \in [1 .. m -> 0 .. 255] : q \in Seq(0 .. 255)
      OBVIOUS
    <3>7. 3 \in Nat
      OBVIOUS
    <3> QED BY ONLY <3>5, <3>6, <3>7, Zenon
  <2> QED BY ONLY <2>2, <2>3, <2>4, <2>5, Zenon
<1>4. s = <<0, 0, 1>> <=> s[1] = 0 /\ s[2] = 0 /\ s[3] = 1
  BY <1>3
<1> QED BY <1>2, <1>3, <1>4 DEF CodeAt

\* find_start_code returns the first place of a code.
LEMMA FirstCode ==
    ASSUME NEW buf \in Bytes
    PROVE  \/ find_start_code(buf) = 0 /\ \A i \in Int : ~CodeAt(buf, i)
           \/ /\ find_start_code(buf) \in 1 .. Len(buf) - 2
              /\ CodeAt(buf, find_start_code(buf))
              /\ \A i \in Int : CodeAt(buf, i) => find_start_code(buf) <= i
<1> DEFINE found == {i \in 1 .. Len(buf) - 2 : SubSeq(buf, i, i + 2) = <<0, 0, 1>>}
<1>1. found = {i \in 1 .. Len(buf) - 2 : CodeAt(buf, i)}
  BY CodePlaces
<1>2. find_start_code(buf) = IF found = {} THEN 0 ELSE Min(found)
  BY Zenon DEF find_start_code
<1>3. found \in SUBSET Nat /\ \A i \in Int : CodeAt(buf, i) => i \in found
  <2>1. \A i \in Int : CodeAt(buf, i) => i \in 1 .. Len(buf) - 2
    BY DEF CodeAt
  <2>2. found \in SUBSET Nat
    BY DEF Bytes
  <2> QED BY ONLY <1>1, <2>1, <2>2, Zenon
<1> HIDE DEF found
<1>4. CASE found = {}
  BY <1>2, <1>3, <1>4
<1>5. CASE found # {}
  <2>1. \E x \in found : \A y \in found : x <= y
    BY <1>3, <1>5, LeastElement
  <2>2. Min(found) \in found /\ \A y \in found : Min(found) <= y
    BY <2>1 DEF Min
  <2> QED BY <1>1, <1>2, <1>3, <1>5, <2>2
<1> QED BY <1>4, <1>5

LEMMA SplitType ==
    ASSUME NEW buf \in Bytes
    PROVE  SplitRound(buf).nalu \in Bytes /\ SplitRound(buf).rest \in Bytes
<1>1. PICK p \in 0 .. Len(buf) : p = find_start_code(buf)
  BY FirstCode DEF Bytes
<1>2. <<>> \in Bytes
  BY DEF Bytes
<1>3. CASE p = 0
  <2>1. SplitRound(buf) = [nalu |-> buf, rest |-> <<>>]
    BY ONLY <1>1, <1>3, Zenon DEF SplitRound
  <2> QED BY <1>2, <2>1
<1>4. CASE p # 0
  <2>1. PICK n \in Int : n = (IF p > 1 /\ buf[p - 1] = 0 THEN p - 2 ELSE p - 1) /\ n <= Len(buf)
    BY <1>1 DEF Bytes
  <2>2. SubSeq(buf, 1, n) \in Bytes /\ SubSeq(buf, p + 3, Len(buf)) \in Bytes
    BY <1>1, <2>1 DEF Bytes
  <2>3. SplitRound(buf) = [nalu |-> SubSeq(buf, 1, n), rest |-> SubSeq(buf, p + 3, Len(buf))]
    BY ONLY <1>1, <1>4, <2>1, Zenon DEF SplitRound
  <2> QED BY <2>2, <2>3
<1> QED BY <1>3, <1>4

\* The tails of a frame, from each unit's code on: t[i] is what follows unit i.
Tails(t, f) ==
    /\ t \in [0 .. Len(f) -> Bytes]
    /\ t[0] = FrameBytes(f)
    /\ t[Len(f)] = <<>>
    /\ \A i \in 1 .. Len(f) : t[i - 1] = (f[i].code \o f[i].unit) \o t[i]

LEMMA StartCodeType ==
    ASSUME NEW n \in Nat
    PROVE  /\ StartCode(n) \in Bytes /\ Len(StartCode(n)) = n + 1
           /\ StartCode(n)[n + 1] = 1 /\ \A i \in 1 .. n : StartCode(n)[i] = 0
<1>1. 0 \in Byte /\ 1 \in Byte
  BY DEF Byte
<1>2. PICK z \in Seq(Byte) : z = Repeat(n, 0) /\ Len(z) = n /\ \A i \in 1 .. n : z[i] = 0
  BY <1>1, RepeatType, Zenon
<1>3. PICK s \in Seq(Byte) : s = Append(z, 1) /\ Len(s) = n + 1 /\ s[n + 1] = 1
                             /\ \A i \in 1 .. n : s[i] = z[i]
  <2>1. Append(z, 1) \in Seq(Byte)
    BY <1>1
  <2>2. PICK s \in Seq(Byte) : s = Append(z, 1)
    BY ONLY <2>1, Zenon
  <2>3. Len(s) = n + 1 /\ s[n + 1] = 1 /\ \A i \in 1 .. n : s[i] = z[i]
    BY <1>2, <2>2
  <2> QED BY <2>2, <2>3, Zenon
<1>4. s = StartCode(n)
  BY ONLY <1>2, <1>3, Zenon DEF StartCode
<1>5. \A i \in 1 .. n : s[i] = 0
  BY <1>2, <1>3
<1> QED BY ONLY <1>3, <1>4, <1>5, Zenon DEF Bytes

\* A frame's units and the codes in front of them.
LEMMA FrameParts ==
    ASSUME NEW f \in Frames
    PROVE  /\ Len(f) \in Nat /\ DOMAIN f = 1 .. Len(f)
           /\ \A i \in 1 .. Len(f) :
                /\ f[i].unit \in Bytes /\ WellFormed(f[i].unit)
                /\ \E n \in 2 .. 5 : f[i].code = StartCode(n) /\ (i = 1 => n <= 3)
                /\ f[i].code \in Bytes
                /\ f[i].unit[1] % 32 = SpsType <=> f[i].sps # <<>>
                /\ f[i].sps # <<>> => f[i].unit = SpsUnit(f[i].sps[1])
<1>1. f \in Seq(Range(f))
  BY FramesAssumption
<1>2. Len(f) \in Nat /\ DOMAIN f = 1 .. Len(f)
  BY <1>1
<1>3. ASSUME NEW i \in 1 .. Len(f) PROVE \E n \in 2 .. 5 : f[i].code = StartCode(n) /\ (i = 1 => n <= 3)
  <2>1. f[i].code \in (IF i = 1 THEN {StartCode(2), StartCode(3)} ELSE {StartCode(n) : n \in 2 .. 5})
    BY <1>2, FramesAssumption
  <2>2. CASE i = 1
    <3>1. f[i].code = StartCode(2) \/ f[i].code = StartCode(3)
      BY <2>1, <2>2
    <3>2. 2 \in 2 .. 5 /\ 3 \in 2 .. 5 /\ 2 <= 3 /\ 3 <= 3
      OBVIOUS
    <3> QED BY ONLY <3>1, <3>2, Zenon
  <2>3. CASE i # 1
    BY <2>1, <2>3, Zenon
  <2> QED BY <2>2, <2>3
<1>4. ASSUME NEW i \in 1 .. Len(f) PROVE f[i].code \in Bytes
  <2>1. PICK n \in 2 .. 5 : f[i].code = StartCode(n)
    BY <1>3
  <2>2. n \in Nat
    OBVIOUS
  <2> QED BY ONLY <2>1, <2>2, StartCodeType, Zenon
<1>5. ASSUME NEW i \in 1 .. Len(f)
      PROVE  /\ f[i].unit \in Bytes /\ WellFormed(f[i].unit)
             /\ f[i].unit[1] % 32 = SpsType <=> f[i].sps # <<>>
             /\ f[i].sps # <<>> => f[i].unit = SpsUnit(f[i].sps[1])
  BY <1>2, FramesAssumption, Zenon DEF Bytes
<1> QED BY <1>2, <1>3, <1>4, <1>5, Zenon

LEMMA FrameTails ==
    ASSUME NEW f \in Frames
    PROVE  \E t : Tails(t, f)
<1>1. Len(f) \in Nat /\ DOMAIN f = 1 .. Len(f)
  BY FrameParts
<1>2. \A i \in 1 .. Len(f) : f[i].code \o f[i].unit \in Bytes
  <2> SUFFICES ASSUME NEW i \in 1 .. Len(f) PROVE f[i].code \o f[i].unit \in Bytes
    OBVIOUS
  <2>1. PICK x \in Seq(Byte), y \in Seq(Byte) : x = f[i].code /\ y = f[i].unit
    BY FrameParts, Zenon DEF Bytes
  <2>2. x \o y \in Seq(Byte)
    BY ConcatType
  <2> QED BY ONLY <2>1, <2>2, Zenon DEF Bytes
<1>3. PICK ss : ss = [i \in DOMAIN f |-> f[i].code \o f[i].unit]
  BY Zenon
<1>4. ss \in Seq(Seq(Byte)) /\ Len(ss) = Len(f) /\ \A i \in 1 .. Len(f) : ss[i] = f[i].code \o f[i].unit
  <2>1. PICK n \in Nat : n = Len(f)
    BY <1>1
  <2>2. ss = [i \in 1 .. n |-> f[i].code \o f[i].unit] /\ \A i \in 1 .. n : f[i].code \o f[i].unit \in Seq(Byte)
    BY ONLY <1>1, <1>2, <1>3, <2>1, Zenon DEF Bytes
  <2>3. \A i \in 1 .. n : ss[i] \in Seq(Byte) /\ ss[i] = f[i].code \o f[i].unit
    BY ONLY <2>2, Zenon
  <2>4. ss \in [1 .. n -> Seq(Byte)]
    BY ONLY <2>2, <2>3, Zenon
  <2>5. ss \in Seq(Seq(Byte)) /\ Len(ss) = n
    BY ONLY <2>4, n \in Nat, SMT
  <2> QED BY ONLY <2>1, <2>3, <2>5, Zenon
<1>5. PICK t : /\ t \in [0 .. Len(ss) -> Seq(Byte)]
               /\ t[0] = FlattenSeq(ss)
               /\ t[Len(ss)] = <<>>
               /\ \A i \in 1 .. Len(ss) : t[i - 1] = ss[i] \o t[i]
  BY <1>4, FlattenTails, Zenon DEF FlatTails
<1>6. \A i \in 1 .. Len(f) : t[i - 1] = (f[i].code \o f[i].unit) \o t[i]
  BY ONLY <1>4, <1>5, Zenon
<1>7. FrameBytes(f) = FlattenSeq(ss)
  BY ONLY <1>3, Zenon DEF FrameBytes
<1>8. Tails(t, f)
  BY ONLY <1>4, <1>5, <1>6, <1>7, Zenon DEF Tails, Bytes
<1> QED BY <1>8, Zenon

LEMMA SplitLast ==
    ASSUME NEW x \in Bytes, NoEmulation(x)
    PROVE  SplitRound(x) = [nalu |-> x, rest |-> <<>>]
<1>1. \A i \in Int : ~CodeAt(x, i)
  <2> SUFFICES ASSUME NEW i \in Int, CodeAt(x, i) PROVE FALSE
    OBVIOUS
  <2>1. i \in 1 .. Len(x) - 2 /\ x[i] = 0 /\ x[i + 1] = 0 /\ x[i + 2] = 1
    BY DEF CodeAt
  <2>2. 1 <= 2
    OBVIOUS
  <2>3. x[i + 2] <= 2
    BY ONLY <2>1, <2>2, Zenon
  <2> QED BY ONLY <2>1, <2>3, NoEmulation(x), Zenon DEF NoEmulation
<1>2. PICK p : p = find_start_code(x)
  OBVIOUS
<1>3. p = 0
  <2>1. p = 0 \/ (p \in 1 .. Len(x) - 2 /\ CodeAt(x, p))
    BY ONLY <1>2, x \in Bytes, FirstCode, Zenon
  <2>2. p \in 1 .. Len(x) - 2 => p \in Int
    OBVIOUS
  <2> QED BY ONLY <1>1, <2>1, <2>2, Zenon
<1> QED BY ONLY <1>2, <1>3, Zenon DEF SplitRound

\* Where the bytes of x \o (StartCode(n) \o rest) are.
CodeBehind(b, x, m, n, rest) ==
    /\ b \in Bytes /\ m \in Nat /\ Len(b) = m + n + 1 + Len(rest)
    /\ \A i \in 1 .. m : b[i] = x[i]
    /\ \A i \in m + 1 .. m + n : b[i] = 0
    /\ b[m + n + 1] = 1
    /\ \A i \in 1 .. Len(rest) : b[m + n + 1 + i] = rest[i]

LEMMA UnitThenCode ==
    ASSUME NEW x \in Bytes, NEW n \in Nat, NEW rest \in Bytes,
           NEW b, b = x \o (StartCode(n) \o rest), NEW m, m = Len(x)
    PROVE  CodeBehind(b, x, m, n, rest)
<1>1. PICK s \in Seq(Byte) : /\ s = StartCode(n) /\ Len(s) = n + 1 /\ s[n + 1] = 1
                             /\ \A i \in 1 .. n : s[i] = 0
  BY StartCodeType, Zenon DEF Bytes
<1>2. x \in Seq(Byte) /\ rest \in Seq(Byte) /\ m \in Nat
  BY DEF Bytes
<1>3. PICK q : q = s \o rest
  OBVIOUS
<1>4. /\ q \in Seq(Byte) /\ Len(q) = n + 1 + Len(rest)
      /\ \A i \in 1 .. n + 1 : q[i] = s[i]
      /\ \A i \in 1 .. Len(rest) : q[n + 1 + i] = rest[i]
      /\ Len(rest) \in Nat
  <2>1. IsConcat(Byte, q, s, rest)
    BY ONLY <1>2, <1>3, s \in Seq(Byte), ConcatAt, Zenon
  <2> QED BY ONLY <1>1, <2>1, Zenon DEF IsConcat
<1>5. b = x \o q
  BY <1>1, <1>3
<1>6. /\ b \in Seq(Byte) /\ Len(b) = m + Len(q)
      /\ \A i \in 1 .. m : b[i] = x[i]
      /\ \A i \in 1 .. Len(q) : b[m + i] = q[i]
      /\ Len(q) \in Nat
  <2>1. m = Len(x)
    OBVIOUS
  <2>2. IsConcat(Byte, b, x, q)
    BY ONLY <1>2, <1>4, <1>5, ConcatAt, Zenon
  <2> QED BY ONLY <2>1, <2>2, Zenon DEF IsConcat
<1>7. ASSUME NEW i \in m + 1 .. m + n PROVE b[i] = 0
  <2>1. PICK j \in 1 .. n : j = i - m /\ m + j = i /\ j \in 1 .. Len(q) /\ j \in 1 .. n + 1
    <3>1. i - m \in 1 .. n /\ m + (i - m) = i /\ i - m \in 1 .. Len(q) /\ i - m \in 1 .. n + 1
      BY <1>2, <1>4
    <3> QED BY ONLY <3>1, Zenon
  <2>2. b[m + j] = q[j] /\ q[j] = s[j] /\ s[j] = 0
    BY ONLY <1>1, <1>4, <1>6, <2>1, Zenon
  <2> QED BY ONLY <2>1, <2>2, Zenon
<1>8. b[m + n + 1] = 1
  <2>1. n + 1 \in 1 .. Len(q) /\ m + (n + 1) = m + n + 1 /\ n + 1 \in 1 .. n + 1
    BY <1>2, <1>4
  <2>2. b[m + (n + 1)] = q[n + 1] /\ q[n + 1] = s[n + 1]
    BY ONLY <1>4, <1>6, <2>1, Zenon
  <2> QED BY ONLY <1>1, <2>1, <2>2, Zenon
<1>9. ASSUME NEW i \in 1 .. Len(rest) PROVE b[m + n + 1 + i] = rest[i]
  <2>1. n + 1 + i \in 1 .. Len(q) /\ m + (n + 1 + i) = m + n + 1 + i
    BY <1>2, <1>4
  <2>2. b[m + (n + 1 + i)] = q[n + 1 + i] /\ q[n + 1 + i] = rest[i]
    BY ONLY <1>4, <1>6, <2>1, Zenon
  <2> QED BY ONLY <2>1, <2>2, Zenon
<1>10. Len(b) = m + n + 1 + Len(rest)
  BY <1>2, <1>4, <1>6
<1>11. b \in Bytes
  BY <1>6 DEF Bytes
<1>12. m \in Nat /\ \A i \in 1 .. m : b[i] = x[i]
  BY ONLY <1>2, <1>6, Zenon
<1> QED BY ONLY <1>7, <1>8, <1>9, <1>10, <1>11, <1>12, Zenon DEF CodeBehind

\* The unit in front of a code, with the zeros that are not the code's.
LEMMA SplitUnitThenCode ==
    ASSUME NEW x \in Bytes, NoEmulation(x), x # <<>> => x[Len(x)] # 0,
           NEW n \in Nat, n >= 2, NEW rest \in Bytes
    PROVE  SplitRound(x \o (StartCode(n) \o rest)) = [nalu |-> x \o Repeat(n - 3, 0), rest |-> rest]
<1>1. PICK b, m : b = x \o (StartCode(n) \o rest) /\ m = Len(x)
  OBVIOUS
<1>2. /\ b \in Bytes /\ m \in Nat /\ Len(b) = m + n + 1 + Len(rest)
      /\ \A i \in 1 .. m : b[i] = x[i]
      /\ \A i \in m + 1 .. m + n : b[i] = 0
      /\ b[m + n + 1] = 1
      /\ \A i \in 1 .. Len(rest) : b[m + n + 1 + i] = rest[i]
  <2>1. CodeBehind(b, x, m, n, rest)
    BY ONLY <1>1, UnitThenCode, x \in Bytes, n \in Nat, rest \in Bytes, Zenon
  <2> QED BY ONLY <2>1, Zenon DEF CodeBehind
<1>3. PICK l \in Nat, k \in Nat : l = Len(rest) /\ k = Len(b) /\ k = m + n + 1 + l
  BY <1>2 DEF Bytes
<1>4. PICK p \in Nat : p = m + n - 1 /\ p >= 1
  BY <1>2
<1>5. CodeAt(b, p)
  <2>1. p \in 1 .. k - 2 /\ p \in m + 1 .. m + n /\ p + 1 \in m + 1 .. m + n /\ p + 2 = m + n + 1
    BY <1>2, <1>3, <1>4
  <2>2. b[p] = 0 /\ b[p + 1] = 0 /\ b[p + 2] = 1
    BY ONLY <1>2, <2>1, Zenon
  <2> QED BY ONLY <1>3, <2>1, <2>2, Zenon DEF CodeAt
<1>6. ASSUME NEW i \in Int, CodeAt(b, i), i < p PROVE FALSE
  <2>1. i \in 1 .. k - 2 /\ b[i] = 0 /\ b[i + 1] = 0 /\ b[i + 2] = 1
    BY ONLY <1>3, <1>6, Zenon DEF CodeAt
  <2>2. i + 2 <= m
    <3>1. SUFFICES ASSUME ~(i + 2 <= m) PROVE FALSE
      OBVIOUS
    <3>2. i + 2 \in m + 1 .. m + n
      BY <1>2, <1>4, <1>6, <3>1
    <3>3. b[i + 2] = 0
      BY ONLY <1>2, <3>2, Zenon
    <3>4. 0 # 1
      OBVIOUS
    <3> QED BY ONLY <2>1, <3>3, <3>4, Zenon
  <2>3. i \in 1 .. m /\ i + 1 \in 1 .. m /\ i + 2 \in 1 .. m /\ i \in 1 .. m - 2 /\ 1 <= 2
    BY <1>2, <2>1, <2>2
  <2>4. x[i] = 0 /\ x[i + 1] = 0 /\ x[i + 2] = 1
    BY ONLY <1>2, <2>1, <2>3, Zenon
  <2>5. x[i + 2] <= 2 /\ i \in 1 .. Len(x) - 2
    BY ONLY <1>1, <2>3, <2>4, Zenon
  <2> QED BY ONLY <2>4, <2>5, NoEmulation(x), Zenon DEF NoEmulation
<1>7. find_start_code(b) = p
  <2>1. PICK q : q = find_start_code(b)
    OBVIOUS
  <2>2. p \in Int
    OBVIOUS
  <2>3. q \in 1 .. Len(b) - 2 /\ CodeAt(b, q) /\ q <= p
    BY ONLY <1>2, <1>5, <2>1, <2>2, FirstCode, Zenon
  <2>4. ~(q < p) /\ q \in Int
    BY <1>6, <2>3
  <2>5. q = p
    BY <2>3, <2>4
  <2> QED BY ONLY <2>1, <2>5, Zenon
<1>8. SubSeq(b, p + 3, Len(b)) = rest
  <2>1. p + 3 = m + n + 2 /\ k - (p + 3) + 1 = l
    BY <1>2, <1>3, <1>4
  <2>2. PICK s : s = SubSeq(b, p + 3, k)
    OBVIOUS
  <2>3. b \in Seq(Byte) /\ rest \in Seq(Byte) /\ Len(rest) = l
    BY <1>2, <1>3 DEF Bytes
  <2>4. s \in Seq(Byte) /\ Len(s) = l /\ \A i \in 1 .. l : s[i] = b[p + 3 + i - 1]
    <3>1. p + 3 \in Nat /\ p + 3 >= 1 /\ k <= Len(b) /\ p + 3 <= k + 1
      BY <1>2, <1>3, <1>4
    <3>2. IsPart(Byte, s, b, p + 3, k)
      BY ONLY <2>2, <2>3, <3>1, k \in Nat, SubSeqAt, Zenon
    <3> QED BY ONLY <2>1, <3>2, Zenon DEF IsPart
  <2>5. ASSUME NEW i \in 1 .. l PROVE s[i] = rest[i]
    <3>1. p + 3 + i - 1 = m + n + 1 + i
      BY <1>2, <1>4
    <3> QED BY ONLY <1>2, <1>3, <2>4, <2>5, <3>1, Zenon
  <2>6. s = rest
    BY <2>3, <2>4, <2>5
  <2> QED BY ONLY <1>3, <2>2, <2>6, Zenon
<1>9. b \in Seq(Byte) /\ x \in Seq(Byte) /\ Len(x) = m /\ p # 0
  BY <1>1, <1>2, <1>4 DEF Bytes
<1>10. CASE n = 2
  <2>1. ~(p > 1 /\ b[p - 1] = 0)
    <3>1. SUFFICES ASSUME p > 1, b[p - 1] = 0 PROVE FALSE
      OBVIOUS
    <3>2. p - 1 = m /\ m \in 1 .. m /\ m >= 1
      BY <1>2, <1>4, <1>10, <3>1
    <3>3. x[m] = 0
      BY ONLY <1>2, <3>1, <3>2, Zenon
    <3>4. x # <<>>
      BY <1>9, <3>2
    <3> QED BY ONLY <1>9, <3>3, <3>4, x # <<>> => x[Len(x)] # 0, Zenon
  <2>2. SubSeq(b, 1, p - 1) = x
    <3>1. p - 1 = m /\ m <= k
      BY <1>2, <1>3, <1>4, <1>10
    <3>2. PICK s : s = SubSeq(b, 1, m)
      OBVIOUS
    <3>3. s \in Seq(Byte) /\ Len(s) = m /\ \A i \in 1 .. m : s[i] = b[i]
      BY <1>2, <1>3, <1>9, <3>1, <3>2
    <3>4. \A i \in 1 .. m : s[i] = x[i]
      BY ONLY <1>2, <3>3, Zenon
    <3>5. s = x
      BY ONLY <1>9, <3>3, <3>4, SMT
    <3> QED BY ONLY <3>1, <3>2, <3>5, Zenon
  <2>3. Repeat(n - 3, 0) = <<>>
    BY <1>10 DEF Repeat
  <2>4. x \o Repeat(n - 3, 0) = x
    BY ONLY <1>9, <2>3, ConcatEmpty, SMT
  <2>5. SplitRound(b) = [nalu |-> SubSeq(b, 1, p - 1), rest |-> SubSeq(b, p + 3, Len(b))]
    BY ONLY <1>7, <1>9, <2>1, Zenon DEF SplitRound
  <2> QED BY ONLY <1>1, <1>8, <2>2, <2>4, <2>5, Zenon
<1>11. CASE n > 2
  <2>1. p > 1 /\ b[p - 1] = 0
    <3>1. p > 1 /\ p - 1 \in m + 1 .. m + n
      BY <1>2, <1>4, <1>11
    <3> QED BY ONLY <1>2, <3>1, Zenon
  <2>2. PICK j \in Nat : j = n - 3 /\ p - 2 = m + j /\ m + j <= k /\ j <= n
    BY <1>2, <1>3, <1>4, <1>11
  <2>3. PICK z \in Seq(Byte) : z = Repeat(j, 0) /\ Len(z) = j /\ \A i \in 1 .. j : z[i] = 0
    <3>1. 0 \in Byte
      BY DEF Byte
    <3>2. /\ Repeat(j, 0) \in Seq(Byte) /\ Len(Repeat(j, 0)) = j
          /\ \A i \in 1 .. j : Repeat(j, 0)[i] = 0
      BY ONLY <3>1, j \in Nat, RepeatType, Zenon
    <3> QED BY ONLY <3>2, Zenon
  <2>4. SubSeq(b, 1, m + j) = x \o z
    <3>1. PICK s, y : s = SubSeq(b, 1, m + j) /\ y = x \o z
      OBVIOUS
    <3>2. s \in Seq(Byte) /\ Len(s) = m + j /\ \A i \in 1 .. m + j : s[i] = b[i]
      BY <1>2, <1>3, <1>9, <2>2, <3>1
    <3>3. /\ y \in Seq(Byte) /\ Len(y) = m + j /\ \A i \in 1 .. m : y[i] = x[i]
          /\ \A i \in 1 .. j : y[m + i] = z[i]
      <4>1. y \in Seq(Byte) /\ Len(y) = Len(x) + Len(z)
              /\ (\A i \in 1 .. Len(x) : y[i] = x[i]) /\ (\A i \in 1 .. Len(z) : y[Len(x) + i] = z[i])
        <5>1. IsConcat(Byte, y, x, z)
          BY ONLY <1>9, <3>1, z \in Seq(Byte), ConcatAt, Zenon
        <5> QED BY ONLY <5>1, Zenon DEF IsConcat
      <4> QED BY ONLY <1>9, <2>3, <4>1, Zenon
    <3>4. ASSUME NEW i \in 1 .. m + j PROVE s[i] = y[i]
      <4>1. CASE i <= m
        <5>1. i \in 1 .. m
          BY <1>2, <4>1
        <5> QED BY ONLY <1>2, <3>2, <3>3, <3>4, <5>1, Zenon
      <4>2. CASE i > m
        <5>1. i \in m + 1 .. m + n /\ i - m \in 1 .. j /\ m + (i - m) = i
          BY <1>2, <2>2, <4>2
        <5>2. y[m + (i - m)] = z[i - m] /\ z[i - m] = 0 /\ b[i] = 0
          BY ONLY <1>2, <2>3, <3>3, <5>1, Zenon
        <5> QED BY ONLY <3>2, <3>4, <5>1, <5>2, Zenon
      <4> QED BY <1>2, <4>1, <4>2
    <3>5. s = y
      BY ONLY <3>2, <3>3, <3>4, SMT
    <3> QED BY ONLY <3>1, <3>5, Zenon
  <2>5. SplitRound(b) = [nalu |-> SubSeq(b, 1, p - 2), rest |-> SubSeq(b, p + 3, Len(b))]
    BY ONLY <1>7, <1>9, <2>1, Zenon DEF SplitRound
  <2> QED BY ONLY <1>1, <1>8, <2>2, <2>3, <2>4, <2>5, Zenon
<1> QED BY <1>10, <1>11

LEMMA PrefixGrows ==
    ASSUME NEW S, NEW s \in Seq(S), NEW j \in 1 .. Len(s)
    PROVE  Append(SubSeq(s, 1, j - 1), s[j]) = SubSeq(s, 1, j)
OBVIOUS

LEMMA SuffixShrinks ==
    ASSUME NEW S, NEW s \in Seq(S), NEW j \in 1 .. Len(s)
    PROVE  /\ Head(SubSeq(s, j, Len(s))) = s[j] /\ SubSeq(s, j, Len(s)) # <<>>
           /\ Tail(SubSeq(s, j, Len(s))) = SubSeq(s, j + 1, Len(s))
OBVIOUS

LEMMA WholeSubSeq ==
    ASSUME NEW S, NEW s \in Seq(S)
    PROVE  SubSeq(s, 1, Len(s)) = s /\ SubSeq(s, 1, 0) = <<>> /\ SubSeq(s, Len(s) + 1, Len(s)) = <<>>
OBVIOUS

\* A unit as split_nalu finds it, with the zeros in front of the next one's code.
Found(f, i) ==
    f[i].unit \o (IF i = Len(f) THEN <<>> ELSE Repeat(Len(f[i + 1].code) - Len(START_CODE), 0))

FoundUnits(f) == [i \in 1 .. Len(f) |-> Found(f, i)]

LEMMA FoundType ==
    ASSUME NEW f \in Frames, NEW i \in 1 .. Len(f)
    PROVE  /\ Found(f, i) \in Bytes \ {<<>>} /\ UpToZeros(Found(f, i), f[i].unit)
           /\ nal_unit_type(Found(f, i)) = Sps <=> f[i].sps # <<>>
<1>1. PICK x \in Seq(Byte) : x = f[i].unit /\ x # <<>> /\ (x[1] % 32 = SpsType <=> f[i].sps # <<>>)
  BY FrameParts, Zenon DEF Bytes, WellFormed
<1>2. PICK z \in Seq(Byte) : /\ z = (IF i = Len(f) THEN <<>> ELSE Repeat(Len(f[i + 1].code) - Len(START_CODE), 0))
                             /\ z = Repeat(Len(z), 0)
  <2>1. 0 \in Byte /\ <<>> \in Seq(Byte)
    BY DEF Byte
  <2>2. ASSUME NEW m \in Int PROVE Repeat(m, 0) \in Seq(Byte) /\ Repeat(m, 0) = Repeat(Len(Repeat(m, 0)), 0)
    <3>1. CASE m \in Nat
      <4>1. Repeat(m, 0) \in Seq(Byte) /\ Len(Repeat(m, 0)) = m
        BY ONLY <2>1, <3>1, RepeatType, Zenon
      <4> QED BY ONLY <4>1, Zenon
    <3>2. CASE m \notin Nat
      <4>1. Repeat(m, 0) = <<>> /\ Repeat(0, 0) = <<>> /\ Len(<<>>) = 0
        BY <3>2 DEF Repeat
      <4> QED BY ONLY <2>1, <4>1, Zenon
    <3> QED BY <3>1, <3>2
  <2>3. CASE i = Len(f)
    <3>1. <<>> = Repeat(Len(<<>>), 0)
      BY DEF Repeat
    <3> QED BY ONLY <2>1, <2>3, <3>1, Zenon
  <2>4. CASE i # Len(f)
    <3>1. i + 1 \in 1 .. Len(f)
      BY <2>4, FrameParts
    <3>2. f[i + 1].code \in Seq(Byte)
      BY ONLY <3>1, FrameParts, f \in Frames, Zenon DEF Bytes
    <3>3. Len(f[i + 1].code) - Len(START_CODE) \in Int
      BY <3>2 DEF START_CODE
    <3> QED BY ONLY <2>2, <2>4, <3>3, Zenon
  <2> QED BY <2>3, <2>4
<1>3. PICK y : y = x \o z
  OBVIOUS
<1>4. IsConcat(Byte, y, x, z)
  BY ONLY <1>3, x \in Seq(Byte), z \in Seq(Byte), ConcatAt, Zenon
<1>5. Found(f, i) = y
  BY ONLY <1>1, <1>2, <1>3, Zenon DEF Found
<1>6. y \in Seq(Byte) /\ y # <<>> /\ y[1] = x[1]
  BY <1>1, <1>4 DEF IsConcat
<1>7. SubSeq(y, 1, Len(x)) = SubSeq(x, 1, Len(x)) /\ Len(x) <= Len(y)
  BY <1>3
<1>8. SubSeq(y, Len(x) + 1, Len(y)) = z /\ Len(z) \in 0 .. Len(z)
  BY <1>3
<1>9. TrailingZeros(z)
  BY ONLY <1>2, <1>8, Zenon DEF TrailingZeros
<1>10. UpToZeros(y, x)
  BY ONLY <1>7, <1>8, <1>9, Zenon DEF UpToZeros, IsPrefix
<1>11. nal_unit_type(y) = Sps <=> f[i].sps # <<>>
  BY <1>1, <1>6 DEF nal_unit_type, Sps, SpsType
<1> QED BY ONLY <1>1, <1>5, <1>6, <1>10, <1>11, Zenon DEF Bytes

LEMMA FoundUnitsType ==
    ASSUME NEW f \in Frames
    PROVE  /\ FoundUnits(f) \in Seq(Bytes \ {<<>>}) /\ Len(FoundUnits(f)) = Len(f)
           /\ \A i \in 1 .. Len(f) : FoundUnits(f)[i] = Found(f, i)
<1>1. Len(f) \in Nat
  BY FrameParts
<1>2. \A i \in 1 .. Len(f) : Found(f, i) \in Bytes \ {<<>>}
  BY FoundType
<1> QED BY <1>1, <1>2 DEF FoundUnits

\* How far split_nalu is.
Splitting(t) ==
    \/ nalus = <<>> /\ remaining = t[0]
    \/ \E j \in 1 .. Len(input) : /\ nalus = SubSeq(FoundUnits(input), 1, j - 1)
                                  /\ remaining = input[j].unit \o t[j]
    \/ nalus = FoundUnits(input) /\ remaining = <<>>

LEMMA SplitFirst ==
    ASSUME NEW f \in Frames, NEW t, Tails(t, f), t[0] # <<>>
    PROVE  1 \in 1 .. Len(f) /\ SplitRound(t[0]) = [nalu |-> <<>>, rest |-> f[1].unit \o t[1]]
<1>1. Len(f) \in Nat
  BY FrameParts
<1>2. Len(f) # 0
  BY DEF Tails
<1>3. 1 \in 1 .. Len(f) /\ 1 \in 0 .. Len(f) /\ 1 - 1 = 0
  BY <1>1, <1>2
<1>4. t[1 - 1] = (f[1].code \o f[1].unit) \o t[1]
  BY ONLY <1>3, Tails(t, f), Zenon DEF Tails
<1>5. PICK n \in 2 .. 5 : f[1].code = StartCode(n) /\ n <= 3
  BY ONLY <1>3, f \in Frames, FrameParts, Zenon
<1>6. PICK c \in Seq(Byte), x \in Seq(Byte), r \in Seq(Byte) :
        c = f[1].code /\ x = f[1].unit /\ r = t[1]
  <2>1. t[1] \in Bytes
    BY <1>3 DEF Tails
  <2>2. f[1].code \in Bytes /\ f[1].unit \in Bytes
    BY ONLY <1>3, FrameParts, f \in Frames, Zenon
  <2> QED BY ONLY <2>1, <2>2, Zenon DEF Bytes
<1>7. (c \o x) \o r = <<>> \o (c \o (x \o r)) /\ x \o r \in Seq(Byte) /\ <<>> \in Seq(Byte)
  OBVIOUS
<1>8. NoEmulation(<<>>)
  BY DEF NoEmulation
<1>9. n \in Nat /\ n >= 2
  OBVIOUS
<1>10. SplitRound(<<>> \o (StartCode(n) \o (x \o r))) = [nalu |-> <<>> \o Repeat(n - 3, 0), rest |-> x \o r]
  <2>1. <<>> # <<>> => <<>>[Len(<<>>)] # 0
    OBVIOUS
  <2>2. <<>> \in Bytes /\ x \o r \in Bytes
    BY <1>7 DEF Bytes
  <2> QED BY ONLY <1>8, <1>9, <2>1, <2>2, SplitUnitThenCode, Zenon
<1>11. <<>> \o Repeat(n - 3, 0) = <<>>
  <2>1. n - 3 <= 0 /\ n - 3 \in Int
    BY <1>5
  <2>2. Repeat(n - 3, 0) = <<>>
    BY <2>1 DEF Repeat
  <2>3. <<>> \o <<>> = <<>>
    OBVIOUS
  <2> QED BY ONLY <2>2, <2>3, Zenon
<1> QED BY ONLY <1>3, <1>4, <1>5, <1>6, <1>7, <1>10, <1>11, Zenon

LEMMA SplitNext ==
    ASSUME NEW f \in Frames, NEW t, Tails(t, f), NEW j \in 1 .. Len(f)
    PROVE  IF j = Len(f)
           THEN SplitRound(f[j].unit \o t[j]) = [nalu |-> Found(f, j), rest |-> <<>>]
           ELSE SplitRound(f[j].unit \o t[j])
                  = [nalu |-> Found(f, j), rest |-> f[j + 1].unit \o t[j + 1]]
<1>1. Len(f) \in Nat /\ j \in 0 .. Len(f)
  BY FrameParts
<1>2. PICK x \in Seq(Byte) : x = f[j].unit /\ x \in Bytes /\ WellFormed(x)
  BY FrameParts, Zenon DEF Bytes
<1>3. NoEmulation(x) /\ (x # <<>> => x[Len(x)] # 0)
  BY <1>2 DEF WellFormed
<1>4. CASE j = Len(f)
  <2>1. t[j] = <<>>
    BY <1>4 DEF Tails
  <2>2. x \o <<>> = x
    OBVIOUS
  <2>3. Found(f, j) = x
    BY ONLY <1>2, <1>4, <2>2, Zenon DEF Found
  <2>4. SplitRound(x) = [nalu |-> x, rest |-> <<>>]
    BY <1>2, <1>3, SplitLast
  <2> QED BY ONLY <1>2, <1>4, <2>1, <2>2, <2>3, <2>4, Zenon
<1>5. CASE j # Len(f)
  <2>1. j + 1 \in 1 .. Len(f) /\ j + 1 \in 0 .. Len(f) /\ (j + 1) - 1 = j
    BY <1>1, <1>5
  <2>2. t[(j + 1) - 1] = (f[j + 1].code \o f[j + 1].unit) \o t[j + 1]
    BY ONLY <2>1, Tails(t, f), Zenon DEF Tails
  <2>3. PICK n \in 2 .. 5 : f[j + 1].code = StartCode(n)
    BY ONLY <2>1, f \in Frames, FrameParts, Zenon
  <2>4. PICK c \in Seq(Byte), y \in Seq(Byte), r \in Seq(Byte) :
          c = f[j + 1].code /\ y = f[j + 1].unit /\ r = t[j + 1]
    <3>1. t[j + 1] \in Bytes
      BY <2>1 DEF Tails
    <3>2. f[j + 1].code \in Bytes /\ f[j + 1].unit \in Bytes
      BY ONLY <2>1, FrameParts, f \in Frames, Zenon
    <3> QED BY ONLY <3>1, <3>2, Zenon DEF Bytes
  <2>5. (c \o y) \o r = c \o (y \o r) /\ y \o r \in Seq(Byte)
    OBVIOUS
  <2>6. n \in Nat /\ n >= 2 /\ n + 1 - 4 = n - 3
    OBVIOUS
  <2>7. SplitRound(x \o (StartCode(n) \o (y \o r))) = [nalu |-> x \o Repeat(n - 3, 0), rest |-> y \o r]
    <3>1. y \o r \in Bytes
      BY <2>5 DEF Bytes
    <3> QED BY ONLY <1>2, <1>3, <2>6, <3>1, SplitUnitThenCode, Zenon
  <2>8. Len(f[j + 1].code) = n + 1 /\ Len(START_CODE) = 4
    <3>1. Len(StartCode(n)) = n + 1
      BY ONLY <2>6, StartCodeType, Zenon
    <3>2. Len(START_CODE) = 4
      BY DEF START_CODE
    <3> QED BY ONLY <2>3, <3>1, <3>2, Zenon
  <2>9. Found(f, j) = x \o Repeat(n - 3, 0)
    <3>1. PICK p, q : p = Len(f[j + 1].code) /\ q = Len(START_CODE)
      OBVIOUS
    <3>2. p - q = n - 3
      <4>1. p = n + 1 /\ q = 4
        BY ONLY <2>8, <3>1, Zenon
      <4> QED BY ONLY <2>6, <4>1, n \in Nat
    <3>3. Found(f, j) = f[j].unit \o Repeat(p - q, 0)
      BY ONLY <1>5, <3>1, Zenon DEF Found
    <3> QED BY ONLY <1>2, <3>2, <3>3, Zenon
  <2> QED BY ONLY <1>2, <1>5, <2>1, <2>2, <2>3, <2>4, <2>5, <2>7, <2>9, Zenon
<1> QED BY <1>4, <1>5

-----------------------------------------------------------------------------
(* The frame, whole.                                                       *)

(* Inductive: the units found so far are the first ones of the frame, the   *)
(* ones still to be sent the last ones, and a set is rewritten only while  *)
(* the first of these is one.                                              *)
FrameInv ==
    /\ SpsTyped
    /\ input \in Frames
    /\ out \in Bytes
    /\ pc \in SpsParts \cup {"split", "units", "rewritten", "sent", "panicked"}
    /\ pc = "split" => out = <<>> /\ \E t : Tails(t, input) /\ Splitting(t)
    /\ pc # "split" =>
        /\ remaining = <<>>
        /\ \E k \in 0 .. Len(input) :
            /\ nalus = SubSeq(FoundUnits(input), k + 1, Len(input))
            /\ out = <<>> => k = 0
            /\ pc \in SpsParts \cup {"rewritten", "panicked"} =>
                k < Len(input) /\ out # <<>> /\ input[k + 1].sps # <<>>

LEMMA BeginTyped ==
    ASSUME NEW unit \in Bytes, unit # <<>>, Begin(unit)
    PROVE  SpsTyped' /\ pc' \in {"high", "frame_num", "panicked"}
<1> DEFINE buf == Tail(unit)
           fields == <<u(8), u(8), u(8), ue>>
           start == [reader |-> NewReader(buf), writer |-> WriteBits(NewWriter, Head(unit), 8),
                     vals |-> <<>>]
           c == Copy(start, fields)
           next == IF c.vals[1] \in HIGH_PROFILES THEN "high" ELSE "frame_num"
<1>1. buf \in Bytes /\ Head(unit) \in Nat /\ 8 \in 0 .. 34 /\ <<>> \in Seq(Int)
  <2>1. unit \in Seq(Byte)
    BY DEF Bytes
  <2>2. buf \in Seq(Byte) /\ Head(unit) \in Byte /\ <<>> \in Seq(Int)
    BY <2>1
  <2>3. Byte \subseteq Nat /\ 8 \in 0 .. 34
    BY DEF Byte
  <2> QED BY ONLY <2>2, <2>3, Zenon DEF Bytes
<1>2. WriteBits(NewWriter, Head(unit), 8) \in Writers
  BY ONLY <1>1, Started, WriteBitsType, Zenon
<1>3. NewReader(buf) \in Readers(buf)
  BY ONLY <1>1, Started, Zenon
<1>4. start \in Cursors(buf)
  BY <1>1, <1>2, <1>3 DEF Cursors
<1>5. fields \in Seq(Descs)
  BY DescsHere
<1>6. c \in Cursors(buf)
  <2> HIDE DEF start, fields, buf
  <2> QED BY ONLY <1>1, <1>4, <1>5, CopyType, Zenon
<1>7. Take(c, next) /\ chroma_format_idc' = 0 /\ list' = 0 /\ max_num_ref_frames' = 0 /\ hrd' = FALSE
  BY Zenon DEF Begin
<1>8. next \in {"high", "frame_num"}
  OBVIOUS
<1> HIDE DEF c, next, buf
<1>9. /\ reader' \in Readers(buf) /\ reader'.buffer = buf /\ writer' \in Writers
      /\ pc' \in {next, "panicked"}
  BY ONLY <1>1, <1>6, <1>7, TakeType, Zenon
<1>10. 0 \in UeVals /\ 0 \in 0 .. 12 /\ FALSE \in BOOLEAN
  BY UeValsNat
<1>11. pc' \in {"high", "frame_num", "panicked"} /\ pc' # "lists"
  BY <1>8, <1>9
<1> QED BY ONLY <1>1, <1>7, <1>9, <1>10, <1>11, Zenon DEF SpsTyped

THEOREM FrameInit == Init => FrameInv
<1> SUFFICES ASSUME Init PROVE FrameInv
  OBVIOUS
<1>1. input \in Frames
  BY DEF Init
<1>2. PICK t : Tails(t, input)
  BY ONLY <1>1, FrameTails, Zenon
<1>3. remaining = t[0] /\ nalus = <<>> /\ out = <<>> /\ pc = "split"
  BY <1>2 DEF Init, Tails
<1>4. Splitting(t)
  BY <1>3 DEF Splitting
<1>5. SpsTyped
  <2>1. reader = NewReader(<<>>) /\ writer = NewWriter
    BY DEF Init
  <2>2. reader.buffer \in Bytes /\ reader \in Readers(reader.buffer) /\ writer \in Writers
    BY ONLY <2>1, Started, Zenon
  <2>3. chroma_format_idc = 0 /\ list = 0 /\ max_num_ref_frames = 0 /\ hrd = FALSE
    BY DEF Init
  <2>4. 0 \in UeVals /\ 0 \in 0 .. 12 /\ FALSE \in BOOLEAN /\ pc \notin {"high", "lists"}
    BY <1>3, UeValsNat
  <2> QED BY ONLY <2>2, <2>3, <2>4, Zenon DEF SpsTyped
<1> QED BY <1>1, <1>2, <1>3, <1>4, <1>5, Started, Zenon DEF FrameInv

\* The types stay when the rewriter does not move.
LEMMA StillTyped ==
    ASSUME SpsTyped, UNCHANGED spsVars, pc' \notin {"high", "lists"}
    PROVE  SpsTyped'
BY DEF SpsTyped, spsVars

LEMMA SplitUnitKeeps == FrameInv /\ SplitUnit => FrameInv'
<1> SUFFICES ASSUME FrameInv, SplitUnit PROVE FrameInv'
  OBVIOUS
<1> DEFINE s == SplitRound(remaining)
<1>1. /\ pc = "split" /\ pc' = "split" /\ remaining # <<>>
      /\ remaining' = s.rest /\ nalus' = (IF s.nalu = <<>> THEN nalus ELSE Append(nalus, s.nalu))
      /\ UNCHANGED <<input, out, spsVars>>
  BY DEF SplitUnit
<1>2. /\ SpsTyped /\ input \in Frames /\ out = <<>> /\ out \in Bytes
  BY <1>1 DEF FrameInv
<1>3. PICK t : Tails(t, input) /\ Splitting(t)
  BY <1>1 DEF FrameInv
<1>4. PICK n \in Nat : n = Len(input)
  BY <1>2, FrameParts
<1>5. PICK found \in Seq(Bytes \ {<<>>}) :
        /\ found = FoundUnits(input) /\ Len(found) = n
        /\ \A i \in 1 .. n : found[i] = Found(input, i) /\ found[i] # <<>>
  <2>1. \A i \in 1 .. Len(input) : Found(input, i) \in Bytes \ {<<>>}
    BY ONLY <1>2, FoundType, Zenon
  <2> QED BY ONLY <1>2, <1>4, <2>1, FoundUnitsType, Zenon
<1>6. ASSUME nalus = <<>>, remaining = t[0]
      PROVE  nalus' = SubSeq(found, 1, 1 - 1) /\ remaining' = input[1].unit \o t[1] /\ 1 \in 1 .. n
  <2>1. 1 \in 1 .. Len(input) /\ s = [nalu |-> <<>>, rest |-> input[1].unit \o t[1]]
    BY ONLY <1>1, <1>2, <1>3, <1>6, SplitFirst, Zenon
  <2>2. s.nalu = <<>> /\ s.rest = input[1].unit \o t[1]
    <3>1. PICK y : y = input[1].unit \o t[1]
      OBVIOUS
    <3>2. PICK z : z = s
      OBVIOUS
    <3>3. z = [nalu |-> <<>>, rest |-> y]
      BY ONLY <2>1, <3>1, <3>2, Zenon
    <3>4. z.nalu = <<>> /\ z.rest = y
      BY ONLY <3>3
    <3> QED BY ONLY <3>1, <3>2, <3>4, Zenon
  <2>3. SubSeq(found, 1, 0) = <<>> /\ 1 - 1 = 0
    BY <1>5
  <2> QED BY ONLY <1>1, <1>4, <1>6, <2>1, <2>2, <2>3, Zenon
<1>7. ASSUME NEW j \in 1 .. n, nalus = SubSeq(found, 1, j - 1),
             remaining = input[j].unit \o t[j]
      PROVE  /\ nalus' = SubSeq(found, 1, j)
             /\ remaining' = (IF j = n THEN <<>> ELSE input[j + 1].unit \o t[j + 1])
  <2>1. IF j = n THEN s = [nalu |-> Found(input, j), rest |-> <<>>]
        ELSE s = [nalu |-> Found(input, j), rest |-> input[j + 1].unit \o t[j + 1]]
    <3>1. j \in 1 .. Len(input)
      BY <1>4
    <3> QED BY ONLY <1>2, <1>3, <1>4, <1>7, <3>1, SplitNext, Zenon
  <2>2. s.nalu = Found(input, j) /\ s.rest = (IF j = n THEN <<>> ELSE input[j + 1].unit \o t[j + 1])
    <3>1. PICK x, y : x = Found(input, j) /\ y = (IF j = n THEN <<>> ELSE input[j + 1].unit \o t[j + 1])
      OBVIOUS
    <3>2. PICK z : z = s
      OBVIOUS
    <3>3. z = [nalu |-> x, rest |-> y]
      BY ONLY <2>1, <3>1, <3>2, Zenon
    <3>4. z.nalu = x /\ z.rest = y
      BY ONLY <3>3
    <3> QED BY ONLY <3>1, <3>2, <3>4, Zenon
  <2>3. s.nalu = found[j] /\ s.nalu # <<>>
    BY ONLY <1>5, <1>7, <2>2, Zenon
  <2>4. Append(SubSeq(found, 1, j - 1), found[j]) = SubSeq(found, 1, j)
    BY <1>5, PrefixGrows
  <2> QED BY ONLY <1>1, <1>7, <2>2, <2>3, <2>4, Zenon
<1>8. Splitting(t)'
  <2>1. CASE nalus = <<>> /\ remaining = t[0]
    <3>1. nalus' = SubSeq(found, 1, 1 - 1) /\ remaining' = input[1].unit \o t[1] /\ 1 \in 1 .. n
      BY <1>6, <2>1
    <3> QED BY ONLY <1>1, <1>4, <1>5, <3>1, Zenon DEF Splitting
  <2>2. CASE \E j \in 1 .. Len(input) : /\ nalus = SubSeq(FoundUnits(input), 1, j - 1)
                                        /\ remaining = input[j].unit \o t[j]
    <3>1. PICK j \in 1 .. n : /\ nalus = SubSeq(found, 1, j - 1)
                              /\ remaining = input[j].unit \o t[j]
      BY ONLY <1>4, <1>5, <2>2, Zenon
    <3>2. /\ nalus' = SubSeq(found, 1, j)
          /\ remaining' = (IF j = n THEN <<>> ELSE input[j + 1].unit \o t[j + 1])
      BY <1>7, <3>1
    <3>3. CASE j = n
      <4>1. SubSeq(found, 1, n) = found
        BY <1>5
      <4> QED BY ONLY <1>1, <1>5, <3>2, <3>3, <4>1, Zenon DEF Splitting
    <3>4. CASE j # n
      <4>1. j + 1 \in 1 .. n /\ (j + 1) - 1 = j
        BY <1>4, <3>4
      <4>2. nalus' = SubSeq(found, 1, (j + 1) - 1) /\ remaining' = input[j + 1].unit \o t[j + 1]
        BY ONLY <3>2, <3>4, <4>1, Zenon
      <4> QED BY ONLY <1>1, <1>4, <1>5, <4>1, <4>2, Zenon DEF Splitting
    <3> QED BY <3>3, <3>4
  <2> QED BY ONLY <1>1, <1>3, <2>1, <2>2, Zenon DEF Splitting
<1>9. Tails(t, input)'
  BY ONLY <1>1, <1>3, Zenon DEF Tails
<1>10. SpsTyped'
  <2>1. pc' \notin {"high", "lists"}
    BY <1>1
  <2> QED BY <1>1, <1>2, <2>1, StillTyped
<1> QED BY ONLY <1>1, <1>2, <1>8, <1>9, <1>10, Zenon DEF FrameInv

LEMMA SplitEndKeeps == FrameInv /\ SplitEnd => FrameInv'
<1> SUFFICES ASSUME FrameInv, SplitEnd PROVE FrameInv'
  OBVIOUS
<1>1. /\ pc = "split" /\ pc' = "units" /\ remaining = <<>>
      /\ UNCHANGED <<input, remaining, nalus, out, spsVars>>
  BY DEF SplitEnd, frameVars
<1>2. SpsTyped /\ input \in Frames /\ out = <<>> /\ out \in Bytes
  BY <1>1 DEF FrameInv
<1>3. PICK t : Tails(t, input) /\ Splitting(t)
  BY <1>1 DEF FrameInv
<1>4. PICK n \in Nat : n = Len(input)
  BY <1>2, FrameParts
<1>5. PICK found \in Seq(Bytes \ {<<>>}) : found = FoundUnits(input) /\ Len(found) = n
  BY ONLY <1>2, <1>4, FoundUnitsType, Zenon
<1>6. nalus = found
  <2>1. CASE nalus = <<>> /\ remaining = t[0]
    <3>1. n = 0
      <4> SUFFICES ASSUME n # 0 PROVE FALSE
        OBVIOUS
      <4>1. 1 \in 1 .. Len(input) /\ 1 - 1 = 0
        BY <1>4
      <4>2. t[0] = (input[1].code \o input[1].unit) \o t[1]
        BY ONLY <1>3, <4>1, Zenon DEF Tails
      <4>3. input[1].unit \in Bytes /\ input[1].code \in Bytes /\ t[1] \in Bytes /\ input[1].unit # <<>>
        <5>1. WellFormed(input[1].unit) /\ input[1].unit \in Bytes /\ input[1].code \in Bytes
          BY ONLY <1>2, <4>1, FrameParts, Zenon
        <5>2. t[1] \in Bytes
          BY <1>3, <1>4, <4>1 DEF Tails
        <5> QED BY <5>1, <5>2 DEF WellFormed
      <4>4. t[0] # <<>>
        BY <4>2, <4>3 DEF Bytes
      <4> QED BY <1>1, <2>1, <4>4
    <3>2. found = <<>>
      BY <1>5, <3>1
    <3> QED BY <2>1, <3>2
  <2>2. CASE \E j \in 1 .. Len(input) : /\ nalus = SubSeq(FoundUnits(input), 1, j - 1)
                                        /\ remaining = input[j].unit \o t[j]
    <3>1. PICK j \in 1 .. Len(input) : remaining = input[j].unit \o t[j]
      BY <2>2
    <3>2. WellFormed(input[j].unit) /\ input[j].unit \in Bytes
      BY ONLY <1>2, FrameParts, Zenon
    <3>3. t[j] \in Bytes
      BY <1>3, <1>4 DEF Tails
    <3>4. remaining # <<>>
      BY <3>1, <3>2, <3>3 DEF WellFormed, Bytes
    <3> QED BY <1>1, <3>4
  <2> QED BY ONLY <1>3, <1>5, <2>1, <2>2, Zenon DEF Splitting
<1>7. SubSeq(found, 0 + 1, n) = found /\ 0 \in 0 .. n
  BY <1>5
<1>8. SpsTyped'
  <2>1. pc' \notin {"high", "lists"}
    BY <1>1
  <2> QED BY <1>1, <1>2, <2>1, StillTyped
<1>9. pc' # "split" /\ pc' \notin SpsParts \cup {"rewritten", "panicked"}
  BY <1>1 DEF SpsParts
<1>10. \E k \in 0 .. Len(input') : /\ nalus' = SubSeq(FoundUnits(input'), k + 1, Len(input'))
                                   /\ out' = <<>> => k = 0
                                   /\ pc' \in SpsParts \cup {"rewritten", "panicked"} =>
                                        k < Len(input') /\ out' # <<>> /\ input'[k + 1].sps # <<>>
  BY ONLY <1>1, <1>4, <1>5, <1>6, <1>7, <1>9, Zenon
<1> QED BY ONLY <1>1, <1>2, <1>8, <1>9, <1>10, Zenon DEF FrameInv

LEMMA FrameOut ==
    ASSUME NEW a, NEW b, a \in Bytes, b \in Bytes, b # <<>>
    PROVE  /\ a \o START_CODE \o b \in Bytes /\ a \o START_CODE \o b # <<>>
           /\ a \o START_CODE \in Bytes /\ a \o START_CODE # <<>>
<1>1. START_CODE \in Seq(Byte) /\ START_CODE # <<>>
  BY DEF START_CODE, Byte
<1>2. PICK c \in Seq(Byte) : c = START_CODE /\ c # <<>>
  BY <1>1, Zenon
<1>3. a \in Seq(Byte) /\ b \in Seq(Byte)
  BY DEF Bytes
<1>4. a \o c \o b \in Seq(Byte) /\ a \o c \o b # <<>> /\ a \o c \in Seq(Byte) /\ a \o c # <<>>
  BY <1>2, <1>3
<1> QED BY ONLY <1>2, <1>4, Zenon DEF Bytes

\* What is known between two units.
LEMMA AtUnit ==
    ASSUME FrameInv, pc # "split"
    PROVE  \E k \in 0 .. Len(input) :
             /\ Len(input) \in Nat
             /\ nalus = SubSeq(FoundUnits(input), k + 1, Len(input))
             /\ out = <<>> => k = 0
             /\ nalus = <<>> <=> k = Len(input)
             /\ pc \in SpsParts \cup {"rewritten", "panicked"} =>
                 k < Len(input) /\ out # <<>> /\ input[k + 1].sps # <<>>
             /\ k < Len(input) =>
                 /\ k + 1 \in 1 .. Len(input)
                 /\ Head(nalus) = Found(input, k + 1) /\ Head(nalus) \in Bytes /\ Head(nalus) # <<>>
                 /\ Tail(nalus) = SubSeq(FoundUnits(input), (k + 1) + 1, Len(input))
                 /\ k + 1 \in 0 .. Len(input)
                 /\ nal_unit_type(Head(nalus)) = Sps <=> input[k + 1].sps # <<>>
<1>1. PICK k \in 0 .. Len(input) :
        /\ nalus = SubSeq(FoundUnits(input), k + 1, Len(input))
        /\ out = <<>> => k = 0
        /\ pc \in SpsParts \cup {"rewritten", "panicked"} =>
            k < Len(input) /\ out # <<>> /\ input[k + 1].sps # <<>>
  BY DEF FrameInv
<1>2. input \in Frames
  BY DEF FrameInv
<1>3. PICK n \in Nat : n = Len(input)
  BY <1>2, FrameParts
<1>4. PICK found \in Seq(Bytes \ {<<>>}) :
        /\ found = FoundUnits(input) /\ Len(found) = n
        /\ \A i \in 1 .. n : found[i] = Found(input, i)
  BY ONLY <1>2, <1>3, FoundUnitsType, Zenon
<1>5. k \in 0 .. n /\ nalus = SubSeq(found, k + 1, n)
  BY ONLY <1>1, <1>3, <1>4, Zenon
<1>6. CASE k = n
  <2>1. nalus = <<>> /\ ~(k < n)
    BY <1>4, <1>5, <1>6
  <2> QED BY ONLY <1>1, <1>3, <1>6, <2>1, Zenon
<1>7. CASE k # n
  <2>1. k + 1 \in 1 .. n /\ k + 1 \in 0 .. n
    BY <1>5, <1>7
  <2>2. Head(nalus) = found[k + 1] /\ nalus # <<>> /\ Tail(nalus) = SubSeq(found, (k + 1) + 1, n)
    BY ONLY <1>4, <1>5, <2>1, SuffixShrinks, Zenon
  <2>3. Head(nalus) = Found(input, k + 1)
    BY ONLY <1>4, <2>1, <2>2, Zenon
  <2>4. /\ Found(input, k + 1) \in Bytes \ {<<>>}
        /\ nal_unit_type(Found(input, k + 1)) = Sps <=> input[k + 1].sps # <<>>
    BY ONLY <1>2, <1>3, <2>1, FoundType, Zenon
  <2>5. Head(nalus) \in Bytes /\ Head(nalus) # <<>>
    BY ONLY <2>3, <2>4, Zenon
  <2> QED BY ONLY <1>1, <1>3, <1>4, <1>7, <2>1, <2>2, <2>3, <2>4, <2>5, Zenon
<1> QED BY <1>6, <1>7

LEMMA PassUnitKeeps == FrameInv /\ PassUnit => FrameInv'
<1> SUFFICES ASSUME FrameInv, PassUnit PROVE FrameInv'
  OBVIOUS
<1>1. /\ pc = "units" /\ pc' = "units" /\ nalus # <<>>
      /\ out' = out \o START_CODE \o Head(nalus) /\ nalus' = Tail(nalus)
      /\ UNCHANGED <<input, remaining, spsVars>>
  BY DEF PassUnit
<1>2. SpsTyped /\ input \in Frames /\ out \in Bytes /\ remaining = <<>>
  BY <1>1 DEF FrameInv
<1>3. PICK k \in 0 .. Len(input) :
        /\ k + 1 \in 0 .. Len(input)
        /\ Head(nalus) \in Bytes /\ Head(nalus) # <<>>
        /\ Tail(nalus) = SubSeq(FoundUnits(input), (k + 1) + 1, Len(input))
  <2>1. pc # "split"
    BY <1>1
  <2>2. PICK k \in 0 .. Len(input) :
          /\ Len(input) \in Nat
          /\ nalus = <<>> <=> k = Len(input)
          /\ k < Len(input) =>
              /\ Head(nalus) \in Bytes /\ Head(nalus) # <<>>
              /\ Tail(nalus) = SubSeq(FoundUnits(input), (k + 1) + 1, Len(input))
              /\ k + 1 \in 0 .. Len(input)
    BY ONLY FrameInv, <2>1, AtUnit, Zenon
  <2>3. k < Len(input)
    BY <1>1, <2>2
  <2> QED BY ONLY <2>2, <2>3, Zenon
<1>4. out' \in Bytes /\ out' # <<>>
  BY ONLY <1>1, <1>2, <1>3, FrameOut, Zenon
<1>5. pc' # "split" /\ pc' \notin SpsParts \cup {"rewritten", "panicked"} /\ pc' \notin {"high", "lists"}
  BY <1>1 DEF SpsParts
<1>6. SpsTyped'
  BY <1>1, <1>2, <1>5, StillTyped
<1>7. \E i \in 0 .. Len(input') : /\ nalus' = SubSeq(FoundUnits(input'), i + 1, Len(input'))
                                  /\ out' = <<>> => i = 0
                                  /\ pc' \in SpsParts \cup {"rewritten", "panicked"} =>
                                        i < Len(input') /\ out' # <<>> /\ input'[i + 1].sps # <<>>
  BY ONLY <1>1, <1>3, <1>4, <1>5, Zenon
<1> QED BY ONLY <1>1, <1>2, <1>4, <1>5, <1>6, <1>7, Zenon DEF FrameInv

LEMMA BeginSpsKeeps == FrameInv /\ BeginSps => FrameInv'
<1> SUFFICES ASSUME FrameInv, BeginSps PROVE FrameInv'
  OBVIOUS
<1>1. /\ pc = "units" /\ nalus # <<>> /\ nal_unit_type(Head(nalus)) = Sps /\ Begin(Head(nalus))
      /\ out' = out \o START_CODE /\ UNCHANGED <<input, remaining, nalus>>
  BY DEF BeginSps
<1>2. input \in Frames /\ out \in Bytes /\ remaining = <<>>
  BY <1>1 DEF FrameInv
<1>3. PICK k \in 0 .. Len(input) :
        /\ k < Len(input)
        /\ nalus = SubSeq(FoundUnits(input), k + 1, Len(input))
        /\ Head(nalus) \in Bytes /\ Head(nalus) # <<>>
        /\ input[k + 1].sps # <<>>
  <2>1. pc # "split"
    BY <1>1
  <2>2. PICK k \in 0 .. Len(input) :
          /\ Len(input) \in Nat
          /\ nalus = SubSeq(FoundUnits(input), k + 1, Len(input))
          /\ nalus = <<>> <=> k = Len(input)
          /\ k < Len(input) =>
              /\ Head(nalus) \in Bytes /\ Head(nalus) # <<>>
              /\ nal_unit_type(Head(nalus)) = Sps <=> input[k + 1].sps # <<>>
    BY ONLY FrameInv, <2>1, AtUnit, Zenon
  <2>3. k < Len(input)
    BY <1>1, <2>2
  <2> QED BY ONLY <1>1, <2>2, <2>3, Zenon
<1>4. out' \in Bytes /\ out' # <<>>
  BY ONLY <1>1, <1>2, <1>3, FrameOut, Zenon
<1>5. SpsTyped' /\ pc' \in {"high", "frame_num", "panicked"}
  BY ONLY <1>1, <1>3, BeginTyped, Zenon
<1>6. pc' # "split" /\ pc' \in SpsParts \cup {"split", "units", "rewritten", "sent", "panicked"}
  BY <1>5 DEF SpsParts
<1>7. \E i \in 0 .. Len(input') : /\ nalus' = SubSeq(FoundUnits(input'), i + 1, Len(input'))
                                  /\ out' = <<>> => i = 0
                                  /\ pc' \in SpsParts \cup {"rewritten", "panicked"} =>
                                        i < Len(input') /\ out' # <<>> /\ input'[i + 1].sps # <<>>
  BY ONLY <1>1, <1>3, <1>4, Zenon
<1> QED BY ONLY <1>1, <1>2, <1>4, <1>5, <1>6, <1>7, Zenon DEF FrameInv

\* The rewriter stays on its unit.
LEMMA RewriteSpsKeeps == FrameInv /\ RewriteSps /\ UNCHANGED frameVars => FrameInv'
<1> SUFFICES ASSUME FrameInv, RewriteSps, UNCHANGED frameVars PROVE FrameInv'
  OBVIOUS
<1>1. UNCHANGED <<input, remaining, nalus, out>>
  BY DEF frameVars
<1>2. pc \in SpsParts /\ pc' \in SpsParts \cup {"rewritten", "panicked"}
  BY DEF RewriteSps, CopyHighProfile, CopyScalingList, CopyPicOrderCnt, CopyPicture, CopyVuiFlag,
         CopyVui, CopyHrd, CopyRestriction, Finish, Take, SpsParts
<1>3. SpsTyped'
  <2>1. SpsTyped /\ "vcl_hrd" \notin {"high", "lists"} /\ "restriction" \notin {"high", "lists"}
    BY DEF FrameInv
  <2> QED BY <2>1, HighTyped, ListTyped, PicOrderCntTyped, PictureTyped, VuiFlagTyped, VuiTyped,
             HrdTyped, RestrictionTyped, FinishTyped DEF RewriteSps
<1>4. pc # "split" /\ pc' # "split"
  BY <1>2 DEF SpsParts
<1> QED BY ONLY FrameInv, <1>1, <1>2, <1>3, <1>4, Zenon DEF FrameInv

LEMMA EndSpsKeeps == FrameInv /\ EndSps => FrameInv'
<1> SUFFICES ASSUME FrameInv, EndSps PROVE FrameInv'
  OBVIOUS
<1>1. /\ pc = "rewritten" /\ pc' = "units" /\ out' = out \o writer.arr /\ nalus' = Tail(nalus)
      /\ UNCHANGED <<input, remaining, spsVars>>
  BY DEF EndSps
<1>2. SpsTyped /\ input \in Frames /\ out \in Bytes /\ remaining = <<>>
  BY <1>1 DEF FrameInv
<1>3. PICK k \in 0 .. Len(input) :
        /\ k + 1 \in 0 .. Len(input) /\ out # <<>>
        /\ Tail(nalus) = SubSeq(FoundUnits(input), (k + 1) + 1, Len(input))
  <2>1. pc # "split" /\ pc \in SpsParts \cup {"rewritten", "panicked"}
    BY <1>1
  <2> QED BY ONLY FrameInv, <2>1, AtUnit, Zenon
<1>4. out' \in Bytes /\ out' # <<>>
  <2>1. writer.arr \in Bytes
    BY <1>2 DEF SpsTyped, Writers
  <2> QED BY <1>1, <1>2, <1>3, <2>1 DEF Bytes
<1>5. pc' # "split" /\ pc' \notin SpsParts \cup {"rewritten", "panicked"} /\ pc' \notin {"high", "lists"}
  BY <1>1 DEF SpsParts
<1>6. SpsTyped'
  BY <1>1, <1>2, <1>5, StillTyped
<1>7. \E i \in 0 .. Len(input') : /\ nalus' = SubSeq(FoundUnits(input'), i + 1, Len(input'))
                                  /\ out' = <<>> => i = 0
                                  /\ pc' \in SpsParts \cup {"rewritten", "panicked"} =>
                                        i < Len(input') /\ out' # <<>> /\ input'[i + 1].sps # <<>>
  BY ONLY <1>1, <1>3, <1>4, <1>5, Zenon
<1> QED BY ONLY <1>1, <1>2, <1>4, <1>5, <1>6, <1>7, Zenon DEF FrameInv

LEMMA FrameStep == FrameInv /\ [Next]_vars => FrameInv'
<1> SUFFICES ASSUME FrameInv, [Next]_vars PROVE FrameInv'
  OBVIOUS
<1>1. CASE SplitUnit
  BY <1>1, SplitUnitKeeps
<1>2. CASE SplitEnd
  BY <1>2, SplitEndKeeps
<1>3. CASE PassUnit
  BY <1>3, PassUnitKeeps
<1>4. CASE BeginSps
  BY <1>4, BeginSpsKeeps
<1>5. CASE RewriteSps /\ UNCHANGED frameVars
  BY <1>5, RewriteSpsKeeps
<1>6. CASE EndSps
  BY <1>6, EndSpsKeeps
<1>7. CASE SendFrame
  <2>1. /\ pc = "units" /\ pc' = "sent" /\ UNCHANGED <<input, remaining, nalus, out, spsVars>>
    BY <1>7 DEF SendFrame, frameVars
  <2>2. /\ pc # "split" /\ pc' # "split" /\ pc' \notin SpsParts \cup {"rewritten", "panicked"}
        /\ pc' \notin {"high", "lists"}
    BY <2>1 DEF SpsParts
  <2>3. SpsTyped'
    BY <2>1, <2>2, StillTyped DEF FrameInv
  <2> QED BY ONLY FrameInv, <2>1, <2>2, <2>3, Zenon DEF FrameInv
<1>8. CASE UNCHANGED vars
  <2>1. UNCHANGED <<input, remaining, nalus, out, pc, reader, writer, chroma_format_idc, list,
                    max_num_ref_frames, hrd>>
    BY <1>8 DEF vars, frameVars, spsVars
  <2>2. SpsTyped' <=> SpsTyped
    BY ONLY <2>1, Zenon DEF SpsTyped
  <2>3. \A t : Splitting(t)' <=> Splitting(t)
    BY ONLY <2>1, Zenon DEF Splitting
  <2>4. \A t : Tails(t, input') <=> Tails(t, input)
    BY ONLY <2>1, Zenon
  <2> QED BY ONLY FrameInv, <2>1, <2>2, <2>3, <2>4, Zenon DEF FrameInv
<1> QED BY <1>1, <1>2, <1>3, <1>4, <1>5, <1>6, <1>7, <1>8 DEF Next

(* The parts of the state keep their types, whatever the bytes of a set:    *)
(* neither the reader nor the writer leaves its buffer, nor a byte its      *)
(* range (annexb_rw.rs, sps_vui.rs, webrtc.rs:384).                        *)
THEOREM FrameInvariant == Spec => []FrameInv
<1>1. Init => FrameInv
  BY FrameInit
<1>2. FrameInv /\ [Next]_vars => FrameInv'
  BY FrameStep
<1> QED BY <1>1, <1>2, PTL DEF Spec

(* Every part of the state keeps its type: neither the reader nor the       *)
(* writer leaves its buffer or goes past a byte's bits, and no unit that    *)
(* split_nalu keeps is empty (annexb_rw.rs, annexb.rs:178, sps_vui.rs).     *)
THEOREM TypesHold == Spec => []TypeOK
<1>1. FrameInv => TypeOK
  <2> SUFFICES ASSUME FrameInv PROVE TypeOK
    OBVIOUS
  <2>1. /\ SpsTyped /\ out \in Bytes /\ input \in Frames
        /\ pc \in SpsParts \cup {"split", "units", "rewritten", "sent", "panicked"}
    BY DEF FrameInv
  <2>2. /\ reader.buffer \in Bytes
        /\ reader.byte_offset \in 0 .. Len(reader.buffer)
        /\ reader.bit_offset \in 0 .. 7
        /\ writer.arr \in Bytes /\ writer.pending_byte \in Byte /\ writer.bit_offset \in 0 .. 7
        /\ list \in 0 .. 12 /\ hrd \in BOOLEAN
    BY <2>1 DEF SpsTyped, Readers, Writers
  <2>3. chroma_format_idc \in Nat /\ max_num_ref_frames \in Nat
    BY <2>1, UeValsNat DEF SpsTyped
  <2>4. PICK n \in Nat : n = Len(input)
    BY <2>1, FrameParts
  <2>5. PICK found \in Seq(Bytes \ {<<>>}) :
          /\ found = FoundUnits(input) /\ Len(found) = n
          /\ \A i \in 1 .. n : found[i] = Found(input, i)
    BY ONLY <2>1, <2>4, FoundUnitsType, Zenon
  <2>6. \A i \in 1 .. n, j \in 0 .. n : SubSeq(found, i, j) \in Seq(Bytes \ {<<>>})
    BY <2>5
  <2>7. <<>> \in Seq(Bytes \ {<<>>}) /\ <<>> \in Bytes
    BY DEF Bytes
  <2>8. remaining \in Bytes /\ nalus \in Seq(Bytes \ {<<>>})
    <3>1. CASE pc = "split"
      <4>1. PICK t : Tails(t, input) /\ Splitting(t)
        BY <3>1 DEF FrameInv
      <4>2. \A i \in 0 .. n : t[i] \in Bytes
        BY ONLY <2>4, <4>1, Zenon DEF Tails
      <4>3. CASE nalus = <<>> /\ remaining = t[0]
        BY <2>4, <2>7, <4>2, <4>3
      <4>4. CASE \E j \in 1 .. Len(input) : /\ nalus = SubSeq(FoundUnits(input), 1, j - 1)
                                            /\ remaining = input[j].unit \o t[j]
        <5>1. PICK j \in 1 .. n : /\ nalus = SubSeq(found, 1, j - 1)
                                  /\ remaining = input[j].unit \o t[j]
          BY ONLY <2>4, <2>5, <4>4, Zenon
        <5>2. t[j] \in Bytes /\ input[j].unit \in Bytes
          <6>1. j \in 0 .. n
            BY <2>4
          <6> QED BY ONLY <2>1, <2>4, <4>2, <6>1, FrameParts, Zenon
        <5>3. remaining \in Bytes
          BY <5>1, <5>2 DEF Bytes
        <5>4. 1 \in 1 .. n /\ j - 1 \in 0 .. n
          BY <2>4
        <5> QED BY ONLY <2>6, <5>1, <5>3, <5>4, Zenon
      <4>5. CASE nalus = FoundUnits(input) /\ remaining = <<>>
        BY ONLY <2>5, <2>7, <4>5, Zenon
      <4> QED BY ONLY <4>1, <4>3, <4>4, <4>5, Zenon DEF Splitting
    <3>2. CASE pc # "split"
      <4>1. PICK k \in 0 .. n : remaining = <<>> /\ nalus = SubSeq(found, k + 1, n)
        BY ONLY FrameInv, <2>4, <2>5, <3>2, Zenon DEF FrameInv
      <4>2. SubSeq(found, k + 1, n) \in Seq(Bytes \ {<<>>})
        <5>1. CASE k = n
          BY <2>5, <5>1
        <5>2. CASE k # n
          <6>1. k + 1 \in 1 .. n /\ n \in 0 .. n
            BY <2>4, <5>2
          <6> QED BY ONLY <2>6, <6>1, Zenon
        <5> QED BY <5>1, <5>2
      <4> QED BY ONLY <2>7, <4>1, <4>2, Zenon
    <3> QED BY <3>1, <3>2
  <2> QED BY ONLY <2>1, <2>2, <2>3, <2>8, Zenon DEF TypeOK
<1> QED BY <1>1, FrameInvariant, PTL

(* The rewriter writes no start code and no zeros of one into a set,        *)
(* whatever set it was given (annexb_rw.rs:151-171).                       *)
THEOREM WriterEscapesHolds == Spec => []WriterEscapes
<1>1. FrameInv => WriterEscapes
  BY DEF FrameInv, SpsTyped, Writers, WriterEscapes
<1> QED BY <1>1, FrameInvariant, PTL

(* split_nalu finds the units that were put into the frame, all of them and *)
(* no others, whatever bytes they hold (annexb.rs:178-231).                *)
THEOREM UnitsFoundHolds == Spec => []UnitsFound
<1>1. FrameInv => UnitsFound
  <2> SUFFICES ASSUME FrameInv, pc = "units", out = <<>>
               PROVE  /\ Len(nalus) = Len(input)
                      /\ \A i \in DOMAIN nalus : UpToZeros(nalus[i], input[i].unit)
    BY DEF UnitsFound
  <2>1. input \in Frames /\ pc # "split"
    BY DEF FrameInv
  <2>2. PICK n \in Nat : n = Len(input)
    BY <2>1, FrameParts
  <2>3. PICK found \in Seq(Bytes \ {<<>>}) :
          /\ found = FoundUnits(input) /\ Len(found) = n
          /\ \A i \in 1 .. n : found[i] = Found(input, i)
    BY ONLY <2>1, <2>2, FoundUnitsType, Zenon
  <2>4. nalus = SubSeq(found, 0 + 1, n)
    <3>1. PICK k \in 0 .. n : nalus = SubSeq(found, k + 1, n) /\ k = 0
      BY ONLY FrameInv, out = <<>>, <2>1, <2>2, <2>3, Zenon DEF FrameInv
    <3> QED BY <3>1
  <2>5. nalus = found /\ DOMAIN found = 1 .. n
    BY <2>3, <2>4
  <2>6. \A i \in 1 .. n : UpToZeros(Found(input, i), input[i].unit)
    BY ONLY <2>1, <2>2, FoundType, Zenon
  <2> QED BY ONLY <2>2, <2>3, <2>5, <2>6, Zenon
<1> QED BY <1>1, FrameInvariant, PTL

-----------------------------------------------------------------------------
(* The fields of a set in the order and the groups the rewriter reads them. *)

Stepped(s) == IF s.interlaced THEN <<Flag(TRUE)>> ELSE <<>>

Plane(s) == IF s.chroma = 3 THEN <<Flag(FALSE)>> ELSE <<>>

LowDelay(v) == IF HasHrd(v) THEN <<Flag(TRUE)>> ELSE <<>>

FromRestriction(v) == LowDelay(v) \o (<<Flag(v.pic_struct)>> \o Opt(v.restriction))

FromVclHrd(v) == Opt(v.vcl_hrd) \o FromRestriction(v)

FromNalHrd(v) == Opt(v.nal_hrd) \o FromVclHrd(v)

FromSignal(v) == Opt(v.signal) \o (Opt(v.chroma_loc) \o (Opt(v.timing) \o FromNalHrd(v)))

FromVui(v) == Opt(v.aspect) \o (Opt(v.overscan) \o FromSignal(v))

\* The VUI of a set and the one it gets.
OldVui(s) == <<Flag(s.vui # <<>>)>> \o (IF s.vui = <<>> THEN <<>> ELSE FromVui(s.vui[1]))

NewVui(s) == Unordered(IF s.vui = <<>> THEN EmptyVui ELSE s.vui[1], s.refs)

PutVui(s) == <<Flag(TRUE)>> \o FromVui(NewVui(s))

Size(s) == <<Flag(FALSE), F(ue, s.width), F(ue, 3), Flag(~s.interlaced)>>

FromSize(s, t) == Size(s) \o (Stepped(s) \o (<<Flag(TRUE), Flag(s.crop # <<>>)>> \o (s.crop \o t)))

FromPicture(s, t) == <<F(ue, s.refs)>> \o FromSize(s, t)

FromFrameNum(s, t) == <<F(ue, 0)>> \o (s.poc \o FromPicture(s, t))

ListGroups(s) == [i \in DOMAIN s.lists |-> ListFields(s.lists[i])]

\* The fields of the lists from each on.
ListTails(s) == CHOOSE l : FlatTails(l, Fields, ListGroups(s))

FromLists(s, k, t) == ListTails(s)[k] \o FromFrameNum(s, t)

BitDepths(s) == <<F(ue, 0), F(ue, 2), Flag(FALSE), Flag(s.lists # <<>>)>>

FromHigh(s, t) == <<F(ue, s.chroma)>> \o (Plane(s) \o (BitDepths(s) \o FromLists(s, 0, t)))

Levels(s) == <<F(u(8), s.profile), F(u(8), 0), F(u(8), s.level), F(ue, 0)>>

FromLevels(s, t) ==
    Levels(s) \o (IF s.profile \in HIGH_PROFILES THEN FromHigh(s, t) ELSE FromFrameNum(s, t))

-----------------------------------------------------------------------------
(* All of these are fields.                                                *)

LEMMA UeField ==
    ASSUME NEW n \in 0 .. 16
    PROVE  F(ue, n) \in Fields /\ F(ue, n).f = ue /\ F(ue, n).v = n
<1>1. n + 1 < 2^WordBits
  <2>1. WordBits \in 8 .. 32
    BY WordBitsAssumption
  <2>2. 8 \in Nat /\ WordBits \in Nat /\ 8 <= WordBits /\ WordBits <= 34
    BY ONLY <2>1
  <2>3. 2^8 <= 2^WordBits /\ 2^8 = 256
    BY ONLY <2>2, PowerMonotone, PowerTable, SMT DEF IsPower
  <2>4. 2^WordBits \in Nat
    <3>1. WordBits \in 0 .. 34
      BY ONLY <2>1
    <3> QED BY ONLY <3>1, PowerPositive, Zenon
  <2> QED BY ONLY <2>3, <2>4, n \in 0 .. 16
<1>2. FitsUe(n)
  BY ONLY <1>1, n \in 0 .. 16 DEF FitsUe, Largest
<1> QED BY ONLY <1>2, n \in 0 .. 16, SMT DEF F, Fields, Fits, ue, u, se

LEMMA ByteField ==
    ASSUME NEW n \in Byte
    PROVE  F(u(8), n) \in Fields /\ F(u(8), n).f = u(8) /\ F(u(8), n).v = n
<1>1. 2^8 = 256
  BY ONLY PowerTable, SMT DEF IsPower
<1>2. 8 \in 1 .. 32 /\ n \in Nat /\ n <= Largest /\ (8 < 31 => n < 2^8)
  BY ONLY <1>1, n \in Byte DEF Byte, Largest
<1>3. F(u(8), n).f = u(8) /\ F(u(8), n).v = n /\ u(8).code = "u" /\ u(8).n = 8
  BY ONLY DEF F, u
<1>4. F(u(8), n) \in [f : {u(k) : k \in 1 .. 32} \cup {ue, se}, v : Int]
  BY ONLY <1>2 DEF F
<1>5. Fits(F(u(8), n))
  BY ONLY <1>2, <1>3 DEF Fits
<1> QED BY ONLY <1>3, <1>4, <1>5 DEF Fields

LEMMA OptGroup == \A g \in Group : Opt(g) \in Group
<1>1. <<>> \in Group
  BY ONLY DEF Group
<1> QED BY ONLY <1>1, OptOf, Zenon

LEMMA FlagGroup == \A b \in BOOLEAN : <<Flag(b)>> \in Group
BY ONLY FlagField, SingleGroup, Zenon

LEMMA EmptyGroup == <<>> \in Group /\ \A g \in Group : g \o <<>> = g /\ <<>> \o g = g
<1>1. <<>> \in Group
  BY ONLY DEF Group
<1>2. ASSUME NEW g \in Group PROVE g \o <<>> = g /\ <<>> \o g = g
  BY ONLY g \in Group, ConcatEmpty, Zenon DEF Group
<1> QED BY ONLY <1>1, <1>2, Zenon

\* The parts of a VUI are fields.
VuiParts(v) ==
    /\ v.aspect \in Group /\ v.overscan \in Group /\ v.signal \in Group /\ v.chroma_loc \in Group
    /\ v.timing \in Group /\ v.nal_hrd \in Group /\ v.vcl_hrd \in Group
    /\ v.pic_struct \in BOOLEAN /\ v.restriction \in Group

LEMMA VuiHasParts == \A v \in Vuis : VuiParts(v)
BY DEF VuiParts, Vuis

VuiFroms(v) ==
    /\ LowDelay(v) \in Group /\ <<Flag(v.pic_struct)>> \in Group
    /\ <<Flag(v.pic_struct)>> \o Opt(v.restriction) \in Group
    /\ FromRestriction(v) \in Group /\ FromVclHrd(v) \in Group
    /\ FromNalHrd(v) \in Group /\ Opt(v.timing) \o FromNalHrd(v) \in Group
    /\ Opt(v.chroma_loc) \o (Opt(v.timing) \o FromNalHrd(v)) \in Group
    /\ FromSignal(v) \in Group /\ Opt(v.overscan) \o FromSignal(v) \in Group
    /\ FromVui(v) \in Group

LEMMA VuiFromGroups ==
    ASSUME NEW v, VuiParts(v)
    PROVE  VuiFroms(v)
<1>1. /\ Opt(v.aspect) \in Group /\ Opt(v.overscan) \in Group /\ Opt(v.signal) \in Group
      /\ Opt(v.chroma_loc) \in Group /\ Opt(v.timing) \in Group /\ Opt(v.nal_hrd) \in Group
      /\ Opt(v.vcl_hrd) \in Group /\ Opt(v.restriction) \in Group
  BY ONLY VuiParts(v), OptGroup, Zenon DEF VuiParts
<1>2. LowDelay(v) \in Group
  BY ONLY FlagGroup, EmptyGroup, Zenon DEF LowDelay
<1>3. <<Flag(v.pic_struct)>> \in Group
  BY ONLY VuiParts(v), FlagGroup, Zenon DEF VuiParts
<1>4. <<Flag(v.pic_struct)>> \o Opt(v.restriction) \in Group
  BY ONLY <1>1, <1>3, GroupParts, Zenon
<1>5. FromRestriction(v) \in Group
  BY ONLY <1>2, <1>4, GroupParts, Zenon DEF FromRestriction
<1>6. FromVclHrd(v) \in Group
  BY ONLY <1>1, <1>5, GroupParts, Zenon DEF FromVclHrd
<1>7. FromNalHrd(v) \in Group
  BY ONLY <1>1, <1>6, GroupParts, Zenon DEF FromNalHrd
<1>8. Opt(v.timing) \o FromNalHrd(v) \in Group
  BY ONLY <1>1, <1>7, GroupParts, Zenon
<1>9. Opt(v.chroma_loc) \o (Opt(v.timing) \o FromNalHrd(v)) \in Group
  BY ONLY <1>1, <1>8, GroupParts, Zenon
<1>10. FromSignal(v) \in Group
  BY ONLY <1>1, <1>9, GroupParts, Zenon DEF FromSignal
<1>11. Opt(v.overscan) \o FromSignal(v) \in Group
  BY ONLY <1>1, <1>10, GroupParts, Zenon
<1>12. FromVui(v) \in Group
  BY ONLY <1>1, <1>11, GroupParts, Zenon DEF FromVui
<1> QED BY ONLY <1>2, <1>3, <1>4, <1>5, <1>6, <1>7, <1>8, <1>9, <1>10, <1>11, <1>12, Zenon DEF VuiFroms

\* x is a \o b; what is behind it joins b.
IsJoined(z, x, a, b, c) == z \in Group /\ z = b \o c /\ x \o c = a \o z

LEMMA JoinBehind ==
    ASSUME NEW a \in Group, NEW b \in Group, NEW c \in Group, NEW x, x = a \o b
    PROVE  \E z : IsJoined(z, x, a, b, c)
<1>1. Regroups(a, b, c) /\ b \o c \in Group
  BY ONLY GroupRegroups, a \in Group, b \in Group, c \in Group, Zenon
<1>2. PICK z : z = b \o c
  BY Zenon
<1>3. IsJoined(z, x, a, b, c)
  BY ONLY <1>1, <1>2, x = a \o b, Zenon DEF IsJoined, Regroups
<1> QED BY ONLY <1>3, Zenon

\* The fields of a VUI are these, in this order.
LEMMA VuiFieldsFrom ==
    ASSUME NEW v, VuiParts(v)
    PROVE  VuiFields(v) = FromVui(v)
<1>1. PICK a1 \in Group, a2 \in Group, a3 \in Group, a4 \in Group, a5 \in Group :
          /\ a1 = Opt(v.aspect) /\ a2 = Opt(v.overscan) /\ a3 = Opt(v.signal)
          /\ a4 = Opt(v.chroma_loc) /\ a5 = Opt(v.timing)
  <2>1. /\ Opt(v.aspect) \in Group /\ Opt(v.overscan) \in Group /\ Opt(v.signal) \in Group
        /\ Opt(v.chroma_loc) \in Group /\ Opt(v.timing) \in Group
    BY ONLY VuiParts(v), OptGroup, Zenon DEF VuiParts
  <2> QED BY ONLY <2>1, Zenon
<1>2. PICK a6 \in Group, a7 \in Group, a8 \in Group, a9 \in Group, a10 \in Group :
          /\ a6 = Opt(v.nal_hrd) /\ a7 = Opt(v.vcl_hrd) /\ a8 = LowDelay(v)
          /\ a9 = <<Flag(v.pic_struct)>> /\ a10 = Opt(v.restriction)
  <2>1. /\ Opt(v.nal_hrd) \in Group /\ Opt(v.vcl_hrd) \in Group /\ Opt(v.restriction) \in Group
    BY ONLY VuiParts(v), OptGroup, Zenon DEF VuiParts
  <2>2. LowDelay(v) \in Group
    BY ONLY FlagGroup, EmptyGroup, Zenon DEF LowDelay
  <2>3. <<Flag(v.pic_struct)>> \in Group
    BY ONLY VuiParts(v), FlagGroup, Zenon DEF VuiParts
  <2> QED BY ONLY <2>1, <2>2, <2>3, Zenon
<1>3. PICK x2 \in Group, x3 \in Group, x4 \in Group, x5 \in Group :
          x2 = a1 \o a2 /\ x3 = x2 \o a3 /\ x4 = x3 \o a4 /\ x5 = x4 \o a5
  <2>1. PICK x2 \in Group : x2 = a1 \o a2
    BY ONLY GroupParts, a1 \in Group, a2 \in Group, Zenon
  <2>2. PICK x3 \in Group : x3 = x2 \o a3
    BY ONLY GroupParts, x2 \in Group, a3 \in Group, Zenon
  <2>3. PICK x4 \in Group : x4 = x3 \o a4
    BY ONLY GroupParts, x3 \in Group, a4 \in Group, Zenon
  <2>4. PICK x5 \in Group : x5 = x4 \o a5
    BY ONLY GroupParts, x4 \in Group, a5 \in Group, Zenon
  <2> QED BY ONLY <2>1, <2>2, <2>3, <2>4, Zenon
<1>4. PICK x6 \in Group, x7 \in Group, x8 \in Group, x9 \in Group :
          x6 = x5 \o a6 /\ x7 = x6 \o a7 /\ x8 = x7 \o a8 /\ x9 = x8 \o a9
  <2>1. PICK x6 \in Group : x6 = x5 \o a6
    BY ONLY GroupParts, x5 \in Group, a6 \in Group, Zenon
  <2>2. PICK x7 \in Group : x7 = x6 \o a7
    BY ONLY GroupParts, x6 \in Group, a7 \in Group, Zenon
  <2>3. PICK x8 \in Group : x8 = x7 \o a8
    BY ONLY GroupParts, x7 \in Group, a8 \in Group, Zenon
  <2>4. PICK x9 \in Group : x9 = x8 \o a9
    BY ONLY GroupParts, x8 \in Group, a9 \in Group, Zenon
  <2> QED BY ONLY <2>1, <2>2, <2>3, <2>4, Zenon
<1>5. VuiFields(v) = x9 \o a10
  BY ONLY <1>1, <1>2, <1>3, <1>4, Zenon DEF VuiFields, LowDelay
<1>6. PICK z9 : IsJoined(z9, x9, x8, a9, a10)
  BY ONLY <1>4, JoinBehind, x8 \in Group, a9 \in Group, a10 \in Group, Zenon
<1>6a. z9 \in Group /\ z9 = a9 \o a10 /\ x9 \o a10 = x8 \o z9
  BY ONLY <1>6, Zenon DEF IsJoined
<1>7. PICK z8 : IsJoined(z8, x8, x7, a8, z9)
  BY ONLY <1>4, JoinBehind, x7 \in Group, a8 \in Group, <1>6a, Zenon
<1>7a. z8 \in Group /\ z8 = a8 \o z9 /\ x8 \o z9 = x7 \o z8
  BY ONLY <1>7, Zenon DEF IsJoined
<1>8. PICK z7 : IsJoined(z7, x7, x6, a7, z8)
  BY ONLY <1>4, JoinBehind, x6 \in Group, a7 \in Group, <1>7a, Zenon
<1>8a. z7 \in Group /\ z7 = a7 \o z8 /\ x7 \o z8 = x6 \o z7
  BY ONLY <1>8, Zenon DEF IsJoined
<1>9. PICK z6 : IsJoined(z6, x6, x5, a6, z7)
  BY ONLY <1>4, JoinBehind, x5 \in Group, a6 \in Group, <1>8a, Zenon
<1>9a. z6 \in Group /\ z6 = a6 \o z7 /\ x6 \o z7 = x5 \o z6
  BY ONLY <1>9, Zenon DEF IsJoined
<1>10. PICK z5 : IsJoined(z5, x5, x4, a5, z6)
  BY ONLY <1>3, JoinBehind, x4 \in Group, a5 \in Group, <1>9a, Zenon
<1>10a. z5 \in Group /\ z5 = a5 \o z6 /\ x5 \o z6 = x4 \o z5
  BY ONLY <1>10, Zenon DEF IsJoined
<1>11. PICK z4 : IsJoined(z4, x4, x3, a4, z5)
  BY ONLY <1>3, JoinBehind, x3 \in Group, a4 \in Group, <1>10a, Zenon
<1>11a. z4 \in Group /\ z4 = a4 \o z5 /\ x4 \o z5 = x3 \o z4
  BY ONLY <1>11, Zenon DEF IsJoined
<1>12. PICK z3 : IsJoined(z3, x3, x2, a3, z4)
  BY ONLY <1>3, JoinBehind, x2 \in Group, a3 \in Group, <1>11a, Zenon
<1>12a. z3 \in Group /\ z3 = a3 \o z4 /\ x3 \o z4 = x2 \o z3
  BY ONLY <1>12, Zenon DEF IsJoined
<1>13. PICK z2 : IsJoined(z2, x2, a1, a2, z3)
  BY ONLY <1>3, JoinBehind, a1 \in Group, a2 \in Group, <1>12a, Zenon
<1>13a. z2 \in Group /\ z2 = a2 \o z3 /\ x2 \o z3 = a1 \o z2
  BY ONLY <1>13, Zenon DEF IsJoined
<1>14. z6 = FromNalHrd(v)
  BY ONLY <1>2, <1>6a, <1>7a, <1>8a, <1>9a, Zenon DEF FromNalHrd, FromVclHrd, FromRestriction
<1>15. a1 \o z2 = FromVui(v)
  BY ONLY <1>1, <1>10a, <1>11a, <1>12a, <1>13a, <1>14, Zenon DEF FromVui, FromSignal
<1>16. x9 \o a10 = x5 \o z6
  BY ONLY <1>6a, <1>7a, <1>8a, <1>9a, Zenon
<1>17. x5 \o z6 = a1 \o z2
  BY ONLY <1>10a, <1>11a, <1>12a, <1>13a, Zenon
<1> QED BY ONLY <1>5, <1>15, <1>16, <1>17, Zenon

-----------------------------------------------------------------------------
(* The rewriter between two parts.                                         *)

NewUnit(s) == SpsUnit(Patched(s))

\* In front of the reader are the fields src, and to be written are tgt.
Between(src, tgt, s) == ReadsTo(reader, src) /\ WritesTo(writer, tgt, NewUnit(s))

LEMMA CursorAt ==
    ASSUME SpsTyped, NEW src, NEW tgt, NEW s, Between(src, tgt, s)
    PROVE  At(Cursor, src, tgt, NewUnit(s))
<1>1. Cursor \in Cursors(reader.buffer)
  BY ONLY SpsTyped, CursorType, Zenon
<1>2. Cursor.reader = reader /\ Cursor.writer = writer
  BY ONLY DEF Cursor
<1> QED BY ONLY <1>1, <1>2, Between(src, tgt, s), Zenon DEF At, Between

LEMMA TakeBetween ==
    ASSUME NEW CONSTANT src, NEW CONSTANT tgt, NEW CONSTANT s, NEW c, NEW CONSTANT next,
           At(c, src, tgt, NewUnit(s)), Take(c, next)
    PROVE  pc' = next /\ Between(src, tgt, s)'
<1>1. ReadsTo(c.reader, src) /\ WritesTo(c.writer, tgt, NewUnit(s))
  BY ONLY At(c, src, tgt, NewUnit(s)), Zenon DEF At
<1>2. c.reader.ok
  BY ONLY <1>1, ReaderParts, Zenon
<1>3. reader' = c.reader /\ writer' = c.writer /\ pc' = next
  BY ONLY <1>2, Take(c, next), Zenon DEF Take
<1> QED BY ONLY <1>1, <1>3 DEF Between

(* Where the rewriter is in the set s: the fields still to be read are      *)
(* those of s from here on, and the fields still to be written those of    *)
(* the set it is to become.                                                *)
RewriteAt(s) ==
    \/ pc = "high" /\ ~hrd /\ Between(FromHigh(s, OldVui(s)), FromHigh(s, PutVui(s)), s)
    \/ /\ pc = "lists" /\ ~hrd /\ list < Len(s.lists) /\ chroma_format_idc = s.chroma
       /\ Between(FromLists(s, list, OldVui(s)), FromLists(s, list, PutVui(s)), s)
    \/ pc = "frame_num" /\ ~hrd /\ Between(FromFrameNum(s, OldVui(s)), FromFrameNum(s, PutVui(s)), s)
    \/ pc = "picture" /\ ~hrd /\ Between(FromPicture(s, OldVui(s)), FromPicture(s, PutVui(s)), s)
    \/ /\ pc = "vui?" /\ ~hrd /\ max_num_ref_frames = s.refs
       /\ Between(OldVui(s), PutVui(s), s)
    \/ /\ pc = "vui" /\ ~hrd /\ max_num_ref_frames = s.refs /\ s.vui # <<>>
       /\ Between(FromVui(s.vui[1]), FromVui(NewVui(s)), s)
    \/ /\ pc = "nal_hrd" /\ ~hrd /\ max_num_ref_frames = s.refs /\ s.vui # <<>>
       /\ Between(FromNalHrd(s.vui[1]), FromNalHrd(NewVui(s)), s)
    \/ /\ pc = "vcl_hrd" /\ max_num_ref_frames = s.refs /\ s.vui # <<>>
       /\ hrd = (s.vui[1].nal_hrd # <<>>)
       /\ Between(FromVclHrd(s.vui[1]), FromVclHrd(NewVui(s)), s)
    \/ /\ pc = "restriction" /\ max_num_ref_frames = s.refs /\ s.vui # <<>>
       /\ hrd = HasHrd(s.vui[1])
       /\ Between(FromRestriction(s.vui[1]), FromRestriction(NewVui(s)), s)
    \/ pc = "stop" /\ WritesTo(writer, <<>>, NewUnit(s))
    \/ pc = "rewritten" /\ writer.arr = NewUnit(s)

-----------------------------------------------------------------------------
(* The restriction.                                                        *)

Restricted(refs) == InferredLimits \o <<F(ue, 0), F(ue, refs)>>

LEMMA SeqsEqual ==
    ASSUME NEW S, NEW s \in Seq(S), NEW t \in Seq(S), Len(s) = Len(t),
           \A i \in 1 .. Len(s) : s[i] = t[i]
    PROVE  s = t
OBVIOUS

LEMMA AppendConcat ==
    ASSUME NEW S, NEW s \in Seq(S), NEW x \in S
    PROVE  Append(s, x) = s \o <<x>>
<1>1. <<x>> \in Seq(S) /\ Len(<<x>>) = 1
  OBVIOUS
<1>2. /\ s \o <<x>> \in Seq(S) /\ Append(s, x) \in Seq(S)
      /\ Len(s \o <<x>>) = Len(s) + 1 /\ Len(Append(s, x)) = Len(s) + 1
  BY <1>1
<1>3. \A i \in 1 .. Len(s) + 1 : (s \o <<x>>)[i] = Append(s, x)[i]
  BY <1>1
<1> QED BY <1>2, <1>3, SeqsEqual, Zenon

\* g and x, with t behind it.
IsAppended(h, g, x, t) == h \in Group /\ h \o t = g \o (<<x>> \o t)

LEMMA AppendBehind ==
    ASSUME NEW g \in Group, NEW x \in Fields, NEW t \in Group, NEW h, h = Append(g, x)
    PROVE  IsAppended(h, g, x, t)
<1>1. PICK y \in Group : y = <<x>>
  BY ONLY SingleGroup, x \in Fields, Zenon
<1>2. h = g \o y
  BY ONLY <1>1, AppendConcat, g \in Group, x \in Fields, h = Append(g, x), Zenon DEF Group
<1>3. Regroups(g, y, t) /\ g \o y \in Group
  BY ONLY GroupRegroups, g \in Group, y \in Group, t \in Group, Zenon
<1> QED BY ONLY <1>1, <1>2, <1>3, Zenon DEF Regroups, IsAppended

\* The fields of write_bitstream_restriction one by one.
LEMMA RestrictedOneByOne ==
    ASSUME NEW refs, F(ue, refs) \in Fields
    PROVE  /\ Restricted(refs) \in Group /\ InferredLimits \in Group
           /\ <<F(ue, 0), F(ue, refs)>> \in Group
           /\ Restricted(refs)
                = <<Flag(TRUE)>> \o (<<F(ue, 2)>> \o (<<F(ue, 1)>> \o (<<F(ue, 16)>> \o (<<F(ue, 16)>>
                     \o (<<F(ue, 0)>> \o (<<F(ue, refs)>> \o <<>>))))))
<1>1. PICK a \in Fields, b \in Fields, c \in Fields, d \in Fields, e \in Fields, f \in Fields :
        a = Flag(TRUE) /\ b = F(ue, 2) /\ c = F(ue, 1) /\ d = F(ue, 16) /\ e = F(ue, 0) /\ f = F(ue, refs)
  <2>1. 2 \in 0 .. 16 /\ 1 \in 0 .. 16 /\ 16 \in 0 .. 16 /\ 0 \in 0 .. 16
    OBVIOUS
  <2>2. F(ue, 2) \in Fields /\ F(ue, 1) \in Fields /\ F(ue, 16) \in Fields /\ F(ue, 0) \in Fields
    BY ONLY <2>1, UeField, Zenon
  <2>3. Flag(TRUE) \in Fields
    BY ONLY FlagField, Zenon
  <2> QED BY ONLY <2>2, <2>3, F(ue, refs) \in Fields, Zenon
<1>2. Flag(TRUE) = F(u(1), 1)
  BY ONLY DEF Flag
<1>3. <<>> \in Group /\ <<a>> \in Group /\ <<e>> \in Group
  BY ONLY EmptyGroup, SingleGroup, a \in Fields, e \in Fields, Zenon
<1>4. PICK g2 : g2 = Append(<<a>>, b)
  BY Zenon
<1>5. PICK g3 : g3 = Append(g2, c)
  BY Zenon
<1>6. PICK g4 : g4 = Append(g3, d)
  BY Zenon
<1>7. PICK g5 : g5 = Append(g4, d)
  BY Zenon
<1>8. PICK h : h = Append(<<e>>, f)
  BY Zenon
<1>9. InferredLimits = g5 /\ <<e, f>> = h
  <2>1. g5 = <<a, b, c, d, d>> /\ h = <<e, f>>
    <3>1. <<a, b, c, d, d>> = Append(Append(Append(Append(<<a>>, b), c), d), d)
      BY ONLY TRUE
    <3>2. <<e, f>> = Append(<<e>>, f)
      BY ONLY TRUE
    <3> QED BY ONLY <1>4, <1>5, <1>6, <1>7, <1>8, <3>1, <3>2, Zenon
  <2> QED BY ONLY <1>1, <1>2, <2>1, Zenon DEF InferredLimits
<1>10. h \in Group /\ h \o <<>> = <<e>> \o (<<f>> \o <<>>) /\ h = h \o <<>>
  <2>1. IsAppended(h, <<e>>, f, <<>>)
    BY ONLY <1>3, <1>8, AppendBehind, f \in Fields, Zenon
  <2>2. h \in Group /\ h \o <<>> = <<e>> \o (<<f>> \o <<>>)
    BY ONLY <2>1, Zenon DEF IsAppended
  <2> QED BY ONLY <2>2, EmptyGroup, Zenon
<1>11. <<d>> \in Group /\ <<c>> \in Group /\ <<b>> \in Group
  BY ONLY SingleGroup, b \in Fields, c \in Fields, d \in Fields, Zenon
<1>12. PICK t1 \in Group, t2 \in Group, t3 \in Group :
         t1 = <<d>> \o h /\ t2 = <<d>> \o t1 /\ t3 = <<c>> \o t2
  <2>1. PICK t1 \in Group : t1 = <<d>> \o h
    BY ONLY <1>10, <1>11, GroupParts, Zenon
  <2>2. PICK t2 \in Group : t2 = <<d>> \o t1
    BY ONLY <1>11, GroupParts, t1 \in Group, Zenon
  <2>3. PICK t3 \in Group : t3 = <<c>> \o t2
    BY ONLY <1>11, GroupParts, t2 \in Group, Zenon
  <2> QED BY ONLY <2>1, <2>2, <2>3, Zenon
<1>13. g2 \in Group /\ g2 \o t3 = <<a>> \o (<<b>> \o t3)
  <2>1. IsAppended(g2, <<a>>, b, t3)
    BY ONLY <1>3, <1>4, AppendBehind, b \in Fields, t3 \in Group, Zenon
  <2> QED BY ONLY <2>1, Zenon DEF IsAppended
<1>14. g3 \in Group /\ g3 \o t2 = g2 \o t3
  <2>1. IsAppended(g3, g2, c, t2)
    BY ONLY <1>5, <1>13, AppendBehind, c \in Fields, t2 \in Group, Zenon
  <2> QED BY ONLY <1>12, <2>1, Zenon DEF IsAppended
<1>15. g4 \in Group /\ g4 \o t1 = g3 \o t2
  <2>1. IsAppended(g4, g3, d, t1)
    BY ONLY <1>6, <1>14, AppendBehind, d \in Fields, t1 \in Group, Zenon
  <2> QED BY ONLY <1>12, <2>1, Zenon DEF IsAppended
<1>16. g5 \in Group /\ g5 \o h = g4 \o t1
  <2>1. IsAppended(g5, g4, d, h)
    BY ONLY <1>7, <1>10, <1>15, AppendBehind, d \in Fields, Zenon
  <2> QED BY ONLY <1>12, <2>1, Zenon DEF IsAppended
<1>17. Restricted(refs) = g5 \o h /\ g5 \o h \in Group
  <2>1. g5 \o h \in Group
    BY ONLY <1>10, <1>16, GroupParts, Zenon
  <2> QED BY ONLY <1>1, <1>9, <2>1, Zenon DEF Restricted
<1>18. Restricted(refs) = <<a>> \o (<<b>> \o (<<c>> \o (<<d>> \o (<<d>> \o (<<e>> \o (<<f>> \o <<>>))))))
  BY ONLY <1>10, <1>12, <1>13, <1>14, <1>15, <1>16, <1>17, Zenon
<1> QED BY ONLY <1>1, <1>9, <1>10, <1>16, <1>17, <1>18, Zenon

\* One field put.
LEMMA OnePut ==
    ASSUME NEW x \in Fields, NEW f, f = x.f, NEW v, v = x.v, NEW src \in Group, NEW tgt \in Group,
           NEW unit, NEW c, At(c, src, <<x>> \o tgt, unit)
    PROVE  PutBehind(c, Put(c, f, v), src, tgt, unit)
BY ONLY PutAt, f = x.f, v = x.v, x \in Fields, src \in Group, tgt \in Group,
        At(c, src, <<x>> \o tgt, unit), Zenon

LEMMA FlagPut ==
    ASSUME NEW b \in BOOLEAN, NEW v, v = (IF b THEN 1 ELSE 0), NEW src \in Group, NEW tgt \in Group,
           NEW unit, NEW c, At(c, src, <<Flag(b)>> \o tgt, unit)
    PROVE  PutBehind(c, Put(c, u(1), v), src, tgt, unit)
<1>1. PICK x \in Fields : x = Flag(b) /\ u(1) = x.f /\ v = x.v
  BY ONLY FlagField, b \in BOOLEAN, v = (IF b THEN 1 ELSE 0), Zenon
<1> QED BY ONLY <1>1, OnePut, src \in Group, tgt \in Group, At(c, src, <<Flag(b)>> \o tgt, unit), Zenon

LEMMA UePut ==
    ASSUME NEW n, F(ue, n) \in Fields, NEW src \in Group, NEW tgt \in Group,
           NEW unit, NEW c, At(c, src, <<F(ue, n)>> \o tgt, unit)
    PROVE  PutBehind(c, Put(c, ue, n), src, tgt, unit)
<1>1. F(ue, n).f = ue /\ F(ue, n).v = n
  BY ONLY DEF F
<1>2. PICK x \in Fields : x = F(ue, n) /\ ue = x.f /\ n = x.v
  BY ONLY <1>1, F(ue, n) \in Fields, Zenon
<1> QED BY ONLY <1>2, OnePut, src \in Group, tgt \in Group, At(c, src, <<F(ue, n)>> \o tgt, unit), Zenon

LEMMA RestrictionPut ==
    ASSUME NEW refs, F(ue, refs) \in Fields, max_num_ref_frames = refs, NEW src \in Group,
           NEW unit, NEW c, At(c, src, Restricted(refs), unit)
    PROVE  At(PutRestriction(c), src, <<>>, unit)
<1>0. <<>> \in Group
  BY ONLY EmptyGroup, Zenon
<1>1. 2 \in 0 .. 16 /\ 1 \in 0 .. 16 /\ 16 \in 0 .. 16 /\ 0 \in 0 .. 16
  OBVIOUS
<1>2. F(ue, 2) \in Fields /\ F(ue, 1) \in Fields /\ F(ue, 16) \in Fields /\ F(ue, 0) \in Fields
  BY ONLY <1>1, UeField, Zenon
<1>3. PICK t6 \in Group : t6 = <<F(ue, refs)>> \o <<>>
  BY ONLY <1>0, F(ue, refs) \in Fields, SingleGroup, GroupParts, Zenon
<1>4. PICK t5 \in Group : t5 = <<F(ue, 0)>> \o t6
  BY ONLY <1>2, SingleGroup, GroupParts, t6 \in Group, Zenon
<1>5. PICK t4 \in Group : t4 = <<F(ue, 16)>> \o t5
  BY ONLY <1>2, SingleGroup, GroupParts, t5 \in Group, Zenon
<1>6. PICK t3 \in Group : t3 = <<F(ue, 16)>> \o t4
  BY ONLY <1>2, SingleGroup, GroupParts, t4 \in Group, Zenon
<1>7. PICK t2 \in Group : t2 = <<F(ue, 1)>> \o t3
  BY ONLY <1>2, SingleGroup, GroupParts, t3 \in Group, Zenon
<1>8. PICK t1 \in Group : t1 = <<F(ue, 2)>> \o t2
  BY ONLY <1>2, SingleGroup, GroupParts, t2 \in Group, Zenon
<1>9. At(c, src, <<Flag(TRUE)>> \o t1, unit)
  BY ONLY <1>3, <1>4, <1>5, <1>6, <1>7, <1>8, RestrictedOneByOne, F(ue, refs) \in Fields,
          At(c, src, Restricted(refs), unit), Zenon
<1>10. PICK c1 : c1 = Put(c, u(1), 1) /\ At(c1, src, t1, unit)
  <2>1. 1 = IF TRUE THEN 1 ELSE 0
    BY Zenon
  <2>2. PutBehind(c, Put(c, u(1), 1), src, t1, unit)
    BY ONLY <1>9, <2>1, FlagPut, src \in Group, t1 \in Group, TRUE \in BOOLEAN, Zenon
  <2> QED BY ONLY <2>2, Zenon DEF PutBehind
<1>11. PICK c2 : c2 = Put(c1, ue, 2) /\ At(c2, src, t2, unit)
  <2>1. PutBehind(c1, Put(c1, ue, 2), src, t2, unit)
    BY ONLY <1>2, <1>8, <1>10, UePut, src \in Group, t2 \in Group, Zenon
  <2> QED BY ONLY <2>1, Zenon DEF PutBehind
<1>12. PICK c3 : c3 = Put(c2, ue, 1) /\ At(c3, src, t3, unit)
  <2>1. PutBehind(c2, Put(c2, ue, 1), src, t3, unit)
    BY ONLY <1>2, <1>7, <1>11, UePut, src \in Group, t3 \in Group, Zenon
  <2> QED BY ONLY <2>1, Zenon DEF PutBehind
<1>13. PICK c4 : c4 = Put(c3, ue, 16) /\ At(c4, src, t4, unit)
  <2>1. PutBehind(c3, Put(c3, ue, 16), src, t4, unit)
    BY ONLY <1>2, <1>6, <1>12, UePut, src \in Group, t4 \in Group, Zenon
  <2> QED BY ONLY <2>1, Zenon DEF PutBehind
<1>14. PICK c5 : c5 = Put(c4, ue, 16) /\ At(c5, src, t5, unit)
  <2>1. PutBehind(c4, Put(c4, ue, 16), src, t5, unit)
    BY ONLY <1>2, <1>5, <1>13, UePut, src \in Group, t5 \in Group, Zenon
  <2> QED BY ONLY <2>1, Zenon DEF PutBehind
<1>15. PICK c6 : c6 = Put(c5, ue, 0) /\ At(c6, src, t6, unit)
  <2>1. PutBehind(c5, Put(c5, ue, 0), src, t6, unit)
    BY ONLY <1>2, <1>4, <1>14, UePut, src \in Group, t6 \in Group, Zenon
  <2> QED BY ONLY <2>1, Zenon DEF PutBehind
<1>16. PICK c7 : c7 = Put(c6, ue, refs) /\ At(c7, src, <<>>, unit)
  <2>1. PutBehind(c6, Put(c6, ue, refs), src, <<>>, unit)
    BY ONLY <1>0, <1>3, <1>15, UePut, src \in Group, F(ue, refs) \in Fields, Zenon
  <2> QED BY ONLY <2>1, Zenon DEF PutBehind
<1>17. c7 = PutRestriction(c)
  BY ONLY <1>10, <1>11, <1>12, <1>13, <1>14, <1>15, <1>16, max_num_ref_frames = refs, Zenon DEF PutRestriction
<1> QED BY ONLY <1>16, <1>17, Zenon

-----------------------------------------------------------------------------
(* The VUI a set gets.                                                     *)

RestrictionDescs == <<u(1), ue, ue, ue, ue, ue, ue>>

LEMMA TupleDescs ==
    /\ <<>> \in Seq(Descs) /\ <<u(1)>> \in Seq(Descs) /\ <<ue>> \in Seq(Descs) /\ <<ue, ue>> \in Seq(Descs)
    /\ <<u(8)>> \in Seq(Descs) /\ <<u(16), u(16)>> \in Seq(Descs) /\ <<u(3), u(1), u(1)>> \in Seq(Descs)
    /\ <<u(8), u(8), u(8)>> \in Seq(Descs) /\ <<u(32), u(32), u(1)>> \in Seq(Descs)
    /\ <<u(4), u(4)>> \in Seq(Descs) /\ <<ue, ue, u(1)>> \in Seq(Descs)
    /\ <<u(1), ue, ue, ue, ue>> \in Seq(Descs) /\ <<u(1), se, se, ue>> \in Seq(Descs)
    /\ <<u(1), u(1)>> \in Seq(Descs) /\ <<u(1), ue, ue, u(1)>> \in Seq(Descs)
    /\ <<ue, ue, u(1), u(1)>> \in Seq(Descs) /\ <<u(8), u(8), u(8), ue>> \in Seq(Descs)
<1>1. ue \in Descs /\ se \in Descs /\ \A n \in 0 .. 32 : u(n) \in Descs
  BY ONLY DescsHere, Zenon
<1>2. u(1) \in Descs /\ u(3) \in Descs /\ u(4) \in Descs /\ u(8) \in Descs /\ u(16) \in Descs /\ u(32) \in Descs
  BY ONLY <1>1
<1> QED BY ONLY <1>1, <1>2

(* n is v without a signal type and with the restriction of a set with refs *)
(* reference frames.                                                       *)
IsUnordered(n, v, refs) ==
    /\ VuiParts(v) /\ VuiParts(n)
    /\ n.aspect = v.aspect /\ n.overscan = v.overscan /\ n.signal = <<>>
    /\ n.chroma_loc = v.chroma_loc /\ n.timing = v.timing /\ n.nal_hrd = v.nal_hrd
    /\ n.vcl_hrd = v.vcl_hrd /\ n.pic_struct = v.pic_struct /\ LowDelay(n) = LowDelay(v)
    /\ n.restriction = (IF v.restriction = <<>> THEN InferredLimits ELSE SubSeq(v.restriction, 1, 5))
                         \o <<F(ue, 0), F(ue, refs)>>

LEMMA UnorderedParts ==
    ASSUME NEW v \in Vuis, NEW refs, F(ue, refs) \in Fields,
           v.restriction = <<>> \/ Len(v.restriction) = 7
    PROVE  IsUnordered(Unordered(v, refs), v, refs)
<1>1. PICK n : n = Unordered(v, refs)
  BY Zenon
<1>2. VuiParts(v)
  BY ONLY VuiHasParts, v \in Vuis, Zenon
<1>3. PICK r : r = (IF v.restriction = <<>> THEN InferredLimits ELSE SubSeq(v.restriction, 1, 5))
                     \o <<F(ue, 0), F(ue, refs)>>
  BY Zenon
<1>4. r \in Group
  <2>1. InferredLimits \in Group /\ <<F(ue, 0), F(ue, refs)>> \in Group
    BY ONLY RestrictedOneByOne, F(ue, refs) \in Fields, Zenon
  <2>2. v.restriction # <<>> => SubSeq(v.restriction, 1, 5) \in Group
    <3>1. v.restriction \in Seq(Fields)
      BY ONLY <1>2, Zenon DEF VuiParts, Group
    <3>2. Len(v.restriction) = 7 => SubSeq(v.restriction, 1, 5) \in Seq(Fields)
      BY ONLY <3>1
    <3> QED BY ONLY <3>2, v.restriction = <<>> \/ Len(v.restriction) = 7, Zenon DEF Group
  <2> QED BY ONLY <1>3, <2>1, <2>2, GroupParts, Zenon
<1>5. n = [v EXCEPT !.signal = <<>>, !.restriction = r]
  BY ONLY <1>1, <1>3, Zenon DEF Unordered
<1>6. n.aspect = v.aspect /\ n.overscan = v.overscan /\ n.signal = <<>>
  BY ONLY <1>5, v \in Vuis DEF Vuis
<1>7. n.chroma_loc = v.chroma_loc /\ n.timing = v.timing /\ n.nal_hrd = v.nal_hrd
  BY ONLY <1>5, v \in Vuis DEF Vuis
<1>8. n.vcl_hrd = v.vcl_hrd /\ n.pic_struct = v.pic_struct /\ n.restriction = r
  BY ONLY <1>5, v \in Vuis DEF Vuis
<1>9. VuiParts(n)
  BY ONLY <1>2, <1>4, <1>6, <1>7, <1>8, EmptyGroup, Zenon DEF VuiParts
<1>10. LowDelay(n) = LowDelay(v)
  BY ONLY <1>7, <1>8, Zenon DEF LowDelay, HasHrd
<1> QED BY ONLY <1>1, <1>2, <1>3, <1>6, <1>7, <1>8, <1>9, <1>10, Zenon DEF IsUnordered

LEMMA EmptyVuiParts ==
    /\ EmptyVui \in Vuis /\ EmptyVui.restriction = <<>> /\ EmptyVui.aspect = <<>>
    /\ EmptyVui.overscan = <<>> /\ EmptyVui.chroma_loc = <<>> /\ EmptyVui.timing = <<>>
    /\ EmptyVui.nal_hrd = <<>> /\ EmptyVui.vcl_hrd = <<>> /\ ~EmptyVui.pic_struct
<1>1. <<>> \in Group
  BY ONLY EmptyGroup, Zenon
<1> QED BY ONLY <1>1 DEF EmptyVui, Vuis

LEMMA ShapeLen == ASSUME NEW g, NEW ds, Shape(g, ds) PROVE Len(g) = Len(ds)
BY DEF Shape

\* What a set with a VUI is to become.
LEMMA NewVuiOf ==
    ASSUME NEW s, ValidSps(s)
    PROVE  /\ F(ue, s.refs) \in Fields
           /\ s.vui # <<>> =>
                /\ ValidVui(s.vui[1]) /\ IsUnordered(NewVui(s), s.vui[1], s.refs)
                /\ Len(s.vui) = 1
           /\ s.vui = <<>> => IsUnordered(NewVui(s), EmptyVui, s.refs)
<1>1. F(ue, s.refs) \in Fields
  BY ONLY ValidSps(s), Zenon DEF ValidSps
<1>2. ASSUME s.vui # <<>>
      PROVE  ValidVui(s.vui[1]) /\ IsUnordered(NewVui(s), s.vui[1], s.refs) /\ Len(s.vui) = 1
  <2>1. s.vui \in Seq(Vuis) /\ Len(s.vui) \in 0 .. 1 /\ \A v \in Range(s.vui) : ValidVui(v)
    BY ONLY ValidSps(s) DEF ValidSps, ParameterSets
  <2>2. Len(s.vui) = 1 /\ 1 \in DOMAIN s.vui
    BY ONLY <1>2, <2>1
  <2>3. s.vui[1] \in Range(s.vui)
    BY ONLY <2>2, Zenon DEF Range
  <2>4. ValidVui(s.vui[1])
    BY ONLY <2>1, <2>3, Zenon
  <2>5. PICK v \in Vuis : /\ v = s.vui[1]
                          /\ v.restriction = <<>> \/ Shape(v.restriction, RestrictionDescs)
    BY ONLY <2>4, Zenon DEF ValidVui, RestrictionDescs
  <2>6. Len(RestrictionDescs) = 7
    BY ONLY DEF RestrictionDescs
  <2>7. v.restriction = <<>> \/ Len(v.restriction) = 7
    BY ONLY <2>5, <2>6, ShapeLen
  <2>8. IsUnordered(Unordered(v, s.refs), v, s.refs)
    BY ONLY <1>1, <2>7, UnorderedParts, v \in Vuis, Zenon
  <2> QED BY ONLY <1>2, <2>2, <2>4, <2>5, <2>8, Zenon DEF NewVui
<1>3. ASSUME s.vui = <<>> PROVE IsUnordered(NewVui(s), EmptyVui, s.refs)
  <2>1. IsUnordered(Unordered(EmptyVui, s.refs), EmptyVui, s.refs)
    BY ONLY <1>1, EmptyVuiParts, UnorderedParts, Zenon
  <2> QED BY ONLY <1>3, <2>1, Zenon DEF NewVui
<1> QED BY ONLY <1>1, <1>2, <1>3, Zenon

-----------------------------------------------------------------------------
(* The last part: the restriction.                                         *)

\* The two ends of a restriction that is there.
IsLimits(r, g1, h1, h2) ==
    /\ g1 \in Group /\ h1 \in Group /\ h2 \in Group /\ h1 \o h2 \in Group
    /\ r = g1 \o (h1 \o h2) /\ g1 = SubSeq(r, 1, 5)
    /\ Shape(g1, <<u(1), ue, ue, ue, ue>>) /\ Shape(h1, <<ue>>) /\ Shape(h2, <<ue>>)

LEMMA LimitsSplit ==
    ASSUME NEW r \in Group, Shape(r, RestrictionDescs)
    PROVE  \E g1, h1, h2 : IsLimits(r, g1, h1, h2)
<1>1. PICK a \in Seq(Descs), b \in Seq(Descs), o \in Seq(Descs) :
         a = <<u(1), ue, ue, ue, ue>> /\ b = <<ue, ue>> /\ o = <<ue>>
  BY ONLY TupleDescs, Zenon
<1>2. Shape(r, a \o b)
  <2>1. <<u(1), ue, ue, ue, ue, ue, ue>> = <<u(1), ue, ue, ue, ue>> \o <<ue, ue>>
    BY ONLY TRUE
  <2> QED BY ONLY <1>1, <2>1, Shape(r, RestrictionDescs), Zenon DEF RestrictionDescs
<1>3. PICK g1, g2 : Halves(r, g1, g2, a, b)
  BY ONLY <1>2, GroupHalves, r \in Group, a \in Seq(Descs), b \in Seq(Descs), Zenon
<1>4. /\ g1 \in Group /\ g2 \in Group /\ r = g1 \o g2 /\ Shape(g1, a) /\ Shape(g2, b)
      /\ Len(g1) = Len(a) /\ Len(g2) = Len(b) /\ \A i \in 1 .. Len(a) : g1[i] = r[i]
  BY ONLY <1>3, Zenon DEF Halves
<1>5. Shape(g2, o \o o)
  <2>1. <<ue, ue>> = <<ue>> \o <<ue>>
    BY ONLY TRUE
  <2> QED BY ONLY <1>1, <1>4, <2>1, Zenon
<1>6. PICK h1, h2 : Halves(g2, h1, h2, o, o)
  BY ONLY <1>4, <1>5, GroupHalves, o \in Seq(Descs), Zenon
<1>7. h1 \in Group /\ h2 \in Group /\ g2 = h1 \o h2 /\ Shape(h1, o) /\ Shape(h2, o)
  BY ONLY <1>6, Zenon DEF Halves
<1>8. g1 = SubSeq(r, 1, 5)
  <2>1. Len(a) = 5 /\ Len(b) = 2
    BY ONLY <1>1
  <2>2. Len(r) = 7
    BY ONLY Shape(r, RestrictionDescs), ShapeLen DEF RestrictionDescs
  <2>3. PICK i \in Nat, j \in Nat : i = 1 /\ j = 5
    OBVIOUS
  <2>3a. PICK s : s = SubSeq(r, i, j)
    BY Zenon
  <2>4. s \in Seq(Fields) /\ Len(s) = 5 /\ \A k \in 1 .. 5 : s[k] = r[k]
    <3>1. r \in Seq(Fields) /\ i >= 1 /\ j <= Len(r) /\ i <= j + 1
      BY ONLY <2>2, <2>3, r \in Group DEF Group
    <3>2. IsPart(Fields, s, r, i, j)
      BY ONLY <2>3a, <3>1, SubSeqAt, i \in Nat, j \in Nat, Zenon
    <3>3. s \in Seq(Fields) /\ Len(s) = j - i + 1 /\ \A k \in 1 .. Len(s) : s[k] = r[i + k - 1]
      BY ONLY <3>2, Zenon DEF IsPart
    <3>4. j - i + 1 = 5 /\ \A k \in 1 .. 5 : i + k - 1 = k
      BY ONLY <2>3
    <3> QED BY ONLY <3>3, <3>4
  <2>5. g1 \in Seq(Fields) /\ s \in Seq(Fields) /\ Len(g1) = Len(s) /\ \A k \in 1 .. Len(g1) : g1[k] = s[k]
    BY ONLY <1>4, <2>1, <2>4, Zenon DEF Group
  <2>6. g1 = s
    BY ONLY <2>5, SeqsEqual
  <2> QED BY ONLY <2>3, <2>3a, <2>6, Zenon
<1> QED BY ONLY <1>1, <1>4, <1>7, <1>8, Zenon DEF IsLimits

\* From the flag of a restriction that is there.
LEMMA LimitsCopied ==
    ASSUME NEW r \in Group, Shape(r, RestrictionDescs), NEW refs, F(ue, refs) \in Fields,
           NEW unit, NEW c, At(c, r, SubSeq(r, 1, 5) \o <<F(ue, 0), F(ue, refs)>>, unit)
    PROVE  At(Put(Skip(Put(Skip(Copy(c, <<u(1), ue, ue, ue, ue>>), <<ue>>), ue, 0), <<ue>>), ue, refs),
              <<>>, <<>>, unit)
<1>1. PICK a \in Seq(Descs), o \in Seq(Descs) : a = <<u(1), ue, ue, ue, ue>> /\ o = <<ue>>
  BY ONLY TupleDescs, Zenon
<1>2. PICK g1, h1, h2 : IsLimits(r, g1, h1, h2)
  BY ONLY LimitsSplit, r \in Group, Shape(r, RestrictionDescs), Zenon
<1>3. /\ g1 \in Group /\ h1 \in Group /\ h2 \in Group /\ h1 \o h2 \in Group
      /\ r = g1 \o (h1 \o h2) /\ g1 = SubSeq(r, 1, 5)
      /\ Shape(g1, a) /\ Shape(h1, o) /\ Shape(h2, o)
  BY ONLY <1>1, <1>2, Zenon DEF IsLimits
<1>4. <<>> \in Group /\ h2 = h2 \o <<>>
  BY ONLY <1>3, EmptyGroup, Zenon
<1>5. F(ue, 0) \in Fields
  <2>1. 0 \in 0 .. 16
    OBVIOUS
  <2> QED BY ONLY <2>1, UeField, Zenon
<1>6. PICK t2 \in Group : t2 = <<F(ue, refs)>> \o <<>>
  BY ONLY <1>4, F(ue, refs) \in Fields, SingleGroup, GroupParts, Zenon
<1>7. PICK t1 \in Group : t1 = <<F(ue, 0), F(ue, refs)>> /\ t1 = <<F(ue, 0)>> \o t2
  <2>1. <<F(ue, 0), F(ue, refs)>> = <<F(ue, 0)>> \o <<F(ue, refs)>>
    BY ONLY TRUE
  <2>2. <<F(ue, refs)>> \o <<>> = <<F(ue, refs)>>
    BY ONLY EmptyGroup, SingleGroup, F(ue, refs) \in Fields, Zenon
  <2>3. <<F(ue, 0)>> \o t2 \in Group
    BY ONLY <1>5, SingleGroup, GroupParts, t2 \in Group, Zenon
  <2> QED BY ONLY <1>6, <2>1, <2>2, <2>3, Zenon
<1>8. At(c, g1 \o (h1 \o h2), g1 \o t1, unit)
  BY ONLY <1>3, <1>7, At(c, r, SubSeq(r, 1, 5) \o <<F(ue, 0), F(ue, refs)>>, unit), Zenon
<1>9. PICK c1 : c1 = Copy(c, a) /\ At(c1, h1 \o h2, t1, unit)
  <2>1. Over(c, Copy(c, a), g1, h1 \o h2, t1, unit)
    BY ONLY <1>3, <1>8, GroupCopied, a \in Seq(Descs), t1 \in Group, Zenon
  <2> QED BY ONLY <2>1, Zenon DEF Over
<1>10. PICK c2 : c2 = Skip(c1, o) /\ At(c2, h2, t1, unit)
  <2>1. Over(c1, Skip(c1, o), h1, h2, t1, unit)
    BY ONLY <1>3, <1>9, GroupSkipped, o \in Seq(Descs), t1 \in Group, Zenon
  <2> QED BY ONLY <2>1, Zenon DEF Over
<1>11. PICK c3 : c3 = Put(c2, ue, 0) /\ At(c3, h2, t2, unit)
  <2>1. PutBehind(c2, Put(c2, ue, 0), h2, t2, unit)
    BY ONLY <1>3, <1>5, <1>7, <1>10, UePut, t2 \in Group, Zenon
  <2> QED BY ONLY <2>1, Zenon DEF PutBehind
<1>12. PICK c4 : c4 = Skip(c3, o) /\ At(c4, <<>>, t2, unit)
  <2>1. At(c3, h2 \o <<>>, t2, unit)
    BY ONLY <1>4, <1>11, Zenon
  <2>2. Over(c3, Skip(c3, o), h2, <<>>, t2, unit)
    BY ONLY <1>3, <1>4, <2>1, GroupSkipped, o \in Seq(Descs), t2 \in Group, Zenon
  <2> QED BY ONLY <2>2, Zenon DEF Over
<1>13. At(Put(c4, ue, refs), <<>>, <<>>, unit)
  <2>1. PutBehind(c4, Put(c4, ue, refs), <<>>, <<>>, unit)
    BY ONLY <1>4, <1>6, <1>12, UePut, F(ue, refs) \in Fields, Zenon
  <2> QED BY ONLY <2>1, Zenon DEF PutBehind
<1> QED BY ONLY <1>1, <1>9, <1>10, <1>11, <1>12, <1>13, Zenon

LEMMA RestrictionPart ==
    ASSUME NEW CONSTANT s, ValidSps(s), SpsTyped, RewriteAt(s), CopyRestriction
    PROVE  RewriteAt(s)'
<1>1. /\ pc = "restriction" /\ max_num_ref_frames = s.refs /\ s.vui # <<>> /\ hrd = HasHrd(s.vui[1])
      /\ Between(FromRestriction(s.vui[1]), FromRestriction(NewVui(s)), s)
  BY ONLY RewriteAt(s), CopyRestriction DEF RewriteAt, CopyRestriction
<1>2. PICK unit : unit = NewUnit(s)
  BY Zenon
<1>3. PICK v, n : v = s.vui[1] /\ n = NewVui(s)
  BY Zenon
<1>4. ValidVui(v) /\ IsUnordered(n, v, s.refs) /\ F(ue, s.refs) \in Fields
  BY ONLY <1>1, <1>3, NewVuiOf, ValidSps(s), Zenon
<1>5. PICK r \in Group, m \in Group, p \in BOOLEAN :
        /\ r = v.restriction /\ m = n.restriction /\ p = v.pic_struct /\ p = n.pic_struct
        /\ LowDelay(n) = LowDelay(v)
        /\ m = (IF r = <<>> THEN InferredLimits ELSE SubSeq(r, 1, 5)) \o <<F(ue, 0), F(ue, s.refs)>>
  BY ONLY <1>4, Zenon DEF IsUnordered, VuiParts
<1>6. r = <<>> \/ Shape(r, RestrictionDescs)
  BY ONLY <1>4, <1>5, Zenon DEF ValidVui, RestrictionDescs
<1>7. PICK b \in BOOLEAN : /\ b = (r # <<>>) /\ Opt(r) = <<Flag(b)>> \o r /\ Opt(r) \in Group
                           /\ Opt(m) = <<Flag(TRUE)>> \o m /\ Opt(m) \in Group
  <2>1. m # <<>>
    <3>1. PICK l \in Group : l = IF r = <<>> THEN InferredLimits ELSE SubSeq(r, 1, 5)
      <4>1. InferredLimits \in Group
        BY ONLY <1>4, RestrictedOneByOne, Zenon
      <4>2. CASE r = <<>>
        BY ONLY <4>1, <4>2, Zenon
      <4>3. CASE r # <<>>
        <5>1. PICK g1, h1, h2 : IsLimits(r, g1, h1, h2)
          BY ONLY <1>6, <4>3, LimitsSplit, r \in Group, Zenon
        <5> QED BY ONLY <4>3, <5>1, Zenon DEF IsLimits
      <4> QED BY ONLY <4>2, <4>3, Zenon
    <3>2. PICK e \in Group : e = <<F(ue, 0), F(ue, s.refs)>>
      BY ONLY <1>4, RestrictedOneByOne, Zenon
    <3>3. Len(e) = 2
      BY ONLY <3>2
    <3>4. Len(l \o e) # 0
      <4>1. l \in Seq(Fields) /\ e \in Seq(Fields) /\ Len(l) \in Nat
        BY ONLY l \in Group, e \in Group DEF Group
      <4>2. Len(l \o e) = Len(l) + Len(e)
        BY ONLY <4>1, ConcatType
      <4> QED BY ONLY <3>3, <4>1, <4>2
    <3>5. Len(m) # 0
      BY ONLY <1>5, <3>1, <3>2, <3>4, Zenon
    <3> QED BY ONLY <3>5
  <2>2. Opt(m) \in Group /\ Opt(r) \in Group
    BY ONLY OptGroup, m \in Group, r \in Group, Zenon
  <2> QED BY ONLY <2>1, <2>2, Zenon DEF Opt
<1>8. PICK t \in Group, d \in Group, o \in Group :
        t = <<Flag(p)>> /\ d = LowDelay(v) /\ o = t \o Opt(r) /\ t \o Opt(m) \in Group
  <2>1. <<Flag(p)>> \in Group
    BY ONLY FlagGroup, p \in BOOLEAN, Zenon
  <2>2. LowDelay(v) \in Group
    BY ONLY FlagGroup, EmptyGroup, Zenon DEF LowDelay
  <2> QED BY ONLY <1>7, <2>1, <2>2, GroupParts, Zenon
<1>9. At(Cursor, d \o (t \o Opt(r)), d \o (t \o Opt(m)), unit)
  <2>1. At(Cursor, FromRestriction(v), FromRestriction(n), unit)
    BY ONLY <1>1, <1>2, <1>3, CursorAt, SpsTyped, Zenon
  <2>2. FromRestriction(v) = d \o (t \o Opt(r)) /\ FromRestriction(n) = d \o (t \o Opt(m))
    BY ONLY <1>5, <1>8, Zenon DEF FromRestriction
  <2> QED BY ONLY <2>1, <2>2, Zenon
<1>10. PICK c1 : /\ c1 = IF hrd THEN Copy(Cursor, <<u(1)>>) ELSE Cursor
                 /\ At(c1, t \o Opt(r), t \o Opt(m), unit)
  <2>1. CASE hrd
    <3>1. d = <<Flag(TRUE)>>
      BY ONLY <1>1, <1>3, <1>8, <2>1, Zenon DEF LowDelay
    <3>2. At(Cursor, <<Flag(TRUE)>> \o o, <<Flag(TRUE)>> \o (t \o Opt(m)), unit)
      BY ONLY <1>8, <1>9, <3>1, Zenon
    <3>3. BehindFlag(Copy(Cursor, <<u(1)>>), TRUE, o, t \o Opt(m), unit)
      BY ONLY <1>8, <3>2, FlagCopied, o \in Group, TRUE \in BOOLEAN, Zenon
    <3> QED BY ONLY <1>8, <2>1, <3>3, Zenon DEF BehindFlag
  <2>2. CASE ~hrd
    <3>1. d = <<>>
      BY ONLY <1>1, <1>3, <1>8, <2>2, Zenon DEF LowDelay
    <3>2. d \o o = o /\ d \o (t \o Opt(m)) = t \o Opt(m)
      BY ONLY <1>8, <3>1, EmptyGroup, Zenon
    <3> QED BY ONLY <1>8, <1>9, <2>2, <3>2, Zenon
  <2> QED BY ONLY <2>1, <2>2, Zenon
<1>11. PICK c2 : c2 = Copy(c1, <<u(1)>>) /\ At(c2, Opt(r), Opt(m), unit)
  <2>1. At(c1, <<Flag(p)>> \o Opt(r), <<Flag(p)>> \o Opt(m), unit)
    BY ONLY <1>8, <1>10, Zenon
  <2>2. BehindFlag(Copy(c1, <<u(1)>>), p, Opt(r), Opt(m), unit)
    BY ONLY <1>7, <2>1, FlagCopied, p \in BOOLEAN, Zenon
  <2> QED BY ONLY <2>2, Zenon DEF BehindFlag
<1>12. PICK c3 : c3 = Skip(c2, <<u(1)>>) /\ At(c3, r, Opt(m), unit) /\ (Present(c3) <=> b)
  <2>1. At(c2, <<Flag(b)>> \o r, Opt(m), unit)
    BY ONLY <1>7, <1>11, Zenon
  <2>2. BehindFlag(Skip(c2, <<u(1)>>), b, r, Opt(m), unit)
    BY ONLY <1>7, <2>1, FlagSkipped, b \in BOOLEAN, r \in Group, Zenon
  <2> QED BY ONLY <2>2, Zenon DEF BehindFlag
<1>13. PICK c4 : c4 = Put(c3, u(1), 1) /\ At(c4, r, m, unit) /\ (Present(c4) <=> b)
  <2>1. At(c3, r, <<Flag(TRUE)>> \o m, unit)
    BY ONLY <1>7, <1>12, Zenon
  <2>2. 1 = IF TRUE THEN 1 ELSE 0
    BY Zenon
  <2>3. PutBehind(c3, Put(c3, u(1), 1), r, m, unit)
    BY ONLY <2>1, <2>2, FlagPut, TRUE \in BOOLEAN, r \in Group, m \in Group, Zenon
  <2> QED BY ONLY <1>12, <2>3, Zenon DEF PutBehind, Present, LastOf
<1>14. PICK c5 :
        /\ c5 = IF Present(c4)
                THEN Put(Skip(Put(Skip(Copy(c4, <<u(1), ue, ue, ue, ue>>), <<ue>>), ue, 0), <<ue>>), ue, s.refs)
                ELSE PutRestriction(c4)
        /\ At(c5, <<>>, <<>>, unit)
  <2>1. CASE b
    <3>1. At(c4, r, SubSeq(r, 1, 5) \o <<F(ue, 0), F(ue, s.refs)>>, unit) /\ Shape(r, RestrictionDescs)
      BY ONLY <1>5, <1>6, <1>7, <1>13, <2>1, Zenon
    <3>2. At(Put(Skip(Put(Skip(Copy(c4, <<u(1), ue, ue, ue, ue>>), <<ue>>), ue, 0), <<ue>>), ue, s.refs),
             <<>>, <<>>, unit)
      BY ONLY <1>4, <3>1, LimitsCopied, r \in Group, Zenon
    <3> QED BY ONLY <1>13, <2>1, <3>2, Zenon
  <2>2. CASE ~b
    <3>1. r = <<>> /\ m = Restricted(s.refs)
      BY ONLY <1>5, <1>7, <2>2, Zenon DEF Restricted
    <3>2. At(PutRestriction(c4), <<>>, <<>>, unit)
      BY ONLY <1>1, <1>4, <1>13, <3>1, RestrictionPut, r \in Group, Zenon
    <3> QED BY ONLY <1>13, <2>2, <3>2, Zenon
  <2> QED BY ONLY <2>1, <2>2, Zenon
<1>15. Take(c5, "stop")
  BY ONLY <1>1, <1>10, <1>11, <1>12, <1>13, <1>14, CopyRestriction, Zenon DEF CopyRestriction
<1>16. pc' = "stop" /\ Between(<<>>, <<>>, s)'
  BY ONLY <1>2, <1>14, <1>15, TakeBetween, Zenon
<1> QED BY ONLY <1>16, Zenon DEF RewriteAt, Between

-----------------------------------------------------------------------------
(* The HRD parts.                                                          *)

\* What is read of n buffers.
Buffers(n) == FlattenSeq(Repeat(n, <<ue, ue, u(1)>>))

LEMMA BuffersType ==
    ASSUME NEW n \in Int
    PROVE  Buffers(n) \in Seq(Descs)
<1>1. PICK k \in Nat : Repeat(n, <<ue, ue, u(1)>>) = Repeat(k, <<ue, ue, u(1)>>)
  <2>1. CASE n \in Nat
    BY ONLY <2>1, Zenon
  <2>2. CASE n \notin Nat
    <3>1. 0 \in Nat /\ 1 .. n = 1 .. 0
      BY ONLY <2>2, n \in Int
    <3>2. Repeat(n, <<ue, ue, u(1)>>) = Repeat(0, <<ue, ue, u(1)>>)
      BY ONLY <3>1, Zenon DEF Repeat
    <3> QED BY ONLY <3>1, <3>2, Zenon
  <2> QED BY ONLY <2>1, <2>2, Zenon
<1>2. PICK ss \in Seq(Seq(Descs)) : ss = Repeat(k, <<ue, ue, u(1)>>)
  BY ONLY TupleDescs, RepeatType, k \in Nat, Zenon
<1>3. PICK t : t \in [0 .. Len(ss) -> Seq(Descs)] /\ t[0] = FlattenSeq(ss)
  BY FlattenTails, Zenon DEF FlatTails
<1>4. 0 \in 0 .. Len(ss)
  BY ONLY ss \in Seq(Seq(Descs))
<1>5. t[0] \in Seq(Descs)
  BY ONLY <1>3, <1>4, SMT
<1> QED BY ONLY <1>1, <1>2, <1>3, <1>5, Zenon DEF Buffers

\* The parts copy_hrd_parameters reads of g.
IsHrd(g, g1, g2, g3, g4, src) ==
    /\ g1 \in Group /\ g2 \in Group /\ g3 \in Group /\ g4 \in Group
    /\ g3 \o (g4 \o src) \in Group /\ g4 \o src \in Group /\ g2 \o (g3 \o (g4 \o src)) \in Group
    /\ g \o src = g1 \o (g2 \o (g3 \o (g4 \o src)))
    /\ Shape(g1, <<ue>>) /\ Shape(g2, <<u(4), u(4)>>) /\ Shape(g3, Buffers(g[1].v + 1))
    /\ Shape(g4, Repeat(4, u(5))) /\ g1 # <<>> /\ g1[Len(g1)] = g[1]

LEMMA HrdSplit ==
    ASSUME NEW g \in Group, g # <<>>, Shape(g, HrdShape(g[1].v + 1))
    PROVE  \E g1, g2, g3, g4 : \A src \in Group : IsHrd(g, g1, g2, g3, g4, src)
<1>1. PICK n \in Int : n = g[1].v + 1
  <2>1. 1 \in DOMAIN g /\ g[1] \in Fields
    BY ONLY g \in Group, g # <<>> DEF Group
  <2>2. g[1].v \in Int
    BY ONLY <2>1, FieldDesc, Zenon
  <2>3. g[1].v + 1 \in Int
    BY ONLY <2>2
  <2> QED BY ONLY <2>3, Zenon
<1>2. PICK a \in Seq(Descs), b \in Seq(Descs), x \in Seq(Descs), r \in Seq(Descs) :
        a = <<ue>> /\ b = <<u(4), u(4)>> /\ x = Buffers(n) /\ r = Repeat(4, u(5))
  <2>1. 4 \in Nat /\ 5 \in 0 .. 32
    OBVIOUS
  <2>2. Repeat(4, u(5)) \in Seq(Descs)
    BY ONLY <2>1, DescsHere, RepeatType, Zenon
  <2> QED BY ONLY <2>2, BuffersType, TupleDescs, n \in Int, Zenon
<1>3. PICK y \in Seq(Descs), z \in Seq(Descs) : y = x \o r /\ z = b \o y
  <2>1. PICK y \in Seq(Descs) : y = x \o r
    BY ONLY ConcatType, x \in Seq(Descs), r \in Seq(Descs), Zenon
  <2>2. PICK z \in Seq(Descs) : z = b \o y
    BY ONLY ConcatType, b \in Seq(Descs), y \in Seq(Descs), Zenon
  <2> QED BY ONLY <2>1, <2>2, Zenon
<1>4. Shape(g, a \o z)
  <2>1. <<ue, u(4), u(4)>> = <<ue>> \o <<u(4), u(4)>>
    BY ONLY TRUE
  <2>2. PICK ab \in Seq(Descs) : ab = a \o b
    BY ONLY ConcatType, a \in Seq(Descs), b \in Seq(Descs), Zenon
  <2>3. HrdShape(n) = (ab \o x) \o r
    BY ONLY <1>2, <2>1, <2>2, Zenon DEF HrdShape, Buffers
  <2>4. Regroups(ab, x, r) /\ Regroups(a, b, y)
    BY ONLY Regrouping, a \in Seq(Descs), b \in Seq(Descs), ab \in Seq(Descs), x \in Seq(Descs),
            y \in Seq(Descs), r \in Seq(Descs), Zenon
  <2>5. (ab \o x) \o r = ab \o y /\ ab \o y = a \o z
    BY ONLY <1>3, <2>2, <2>4, Zenon DEF Regroups
  <2> QED BY ONLY <1>1, <2>3, <2>5, Shape(g, HrdShape(g[1].v + 1)), Zenon
<1>5. PICK g1, f1 : Halves(g, g1, f1, a, z)
  BY ONLY <1>4, GroupHalves, g \in Group, a \in Seq(Descs), z \in Seq(Descs), Zenon
<1>6. /\ g1 \in Group /\ f1 \in Group /\ g = g1 \o f1 /\ Shape(g1, a) /\ Shape(f1, b \o y)
      /\ Len(g1) = Len(a) /\ \A i \in 1 .. Len(a) : g1[i] = g[i]
  BY ONLY <1>3, <1>5, Zenon DEF Halves
<1>7. PICK g2, f2 : Halves(f1, g2, f2, b, y)
  BY ONLY <1>6, GroupHalves, b \in Seq(Descs), y \in Seq(Descs), Zenon
<1>8. g2 \in Group /\ f2 \in Group /\ f1 = g2 \o f2 /\ Shape(g2, b) /\ Shape(f2, x \o r)
  BY ONLY <1>3, <1>7, Zenon DEF Halves
<1>9. PICK g3, g4 : Halves(f2, g3, g4, x, r)
  BY ONLY <1>8, GroupHalves, x \in Seq(Descs), r \in Seq(Descs), Zenon
<1>10. g3 \in Group /\ g4 \in Group /\ f2 = g3 \o g4 /\ Shape(g3, x) /\ Shape(g4, r)
  BY ONLY <1>9, Zenon DEF Halves
<1>11. g1 # <<>> /\ g1[Len(g1)] = g[1]
  <2>1. Len(a) = 1 /\ 1 \in 1 .. 1
    BY ONLY <1>2
  <2>2. Len(g1) = 1 /\ g1[1] = g[1]
    BY ONLY <1>6, <2>1, Zenon
  <2>3. g1 # <<>>
    <3>1. Len(g1) # 0
      BY ONLY <2>2
    <3> QED BY ONLY <3>1
  <2> QED BY ONLY <2>2, <2>3, Zenon
<1>12. ASSUME NEW src \in Group PROVE IsHrd(g, g1, g2, g3, g4, src)
  <2>1. /\ Regroups(g1, f1, src) /\ Regroups(g2, f2, src) /\ Regroups(g3, g4, src)
        /\ g4 \o src \in Group /\ g3 \o (g4 \o src) \in Group
    BY ONLY <1>6, <1>8, <1>10, GroupRegroups, src \in Group, Zenon
  <2>2. g2 \o (g3 \o (g4 \o src)) \in Group
    BY ONLY <1>8, <2>1, GroupParts, Zenon
  <2>3. g \o src = g1 \o (g2 \o (g3 \o (g4 \o src)))
    BY ONLY <1>6, <1>8, <1>10, <2>1, Zenon DEF Regroups
  <2> QED BY ONLY <1>1, <1>2, <1>6, <1>8, <1>10, <1>11, <2>1, <2>2, <2>3, Zenon DEF IsHrd
<1> QED BY ONLY <1>12, Zenon

LEMMA HrdCopied ==
    ASSUME NEW g \in Group, g # <<>>, Shape(g, HrdShape(g[1].v + 1)),
           NEW src \in Group, NEW tgt \in Group, NEW unit, NEW c, At(c, g \o src, g \o tgt, unit)
    PROVE  At(CopyHrdParameters(c), src, tgt, unit)
<1>1. PICK g1, g2, g3, g4 : IsHrd(g, g1, g2, g3, g4, src) /\ IsHrd(g, g1, g2, g3, g4, tgt)
  BY ONLY HrdSplit, g \in Group, g # <<>>, Shape(g, HrdShape(g[1].v + 1)), src \in Group,
          tgt \in Group, Zenon
<1>2. PICK n \in Int : n = g[1].v + 1 /\ g[1].v \in Int
  <2>1. 1 \in DOMAIN g /\ g[1] \in Fields
    BY ONLY g \in Group, g # <<>> DEF Group
  <2>2. g[1].v \in Int
    BY ONLY <2>1, FieldDesc, Zenon
  <2>3. g[1].v + 1 \in Int
    BY ONLY <2>2
  <2> QED BY ONLY <2>2, <2>3, Zenon
<1>3. PICK a \in Seq(Descs), b \in Seq(Descs), x \in Seq(Descs), r \in Seq(Descs) :
        a = <<ue>> /\ b = <<u(4), u(4)>> /\ x = Buffers(n) /\ r = Repeat(4, u(5))
  <2>1. 4 \in Nat /\ 5 \in 0 .. 32
    OBVIOUS
  <2>2. Repeat(4, u(5)) \in Seq(Descs)
    BY ONLY <2>1, DescsHere, RepeatType, Zenon
  <2> QED BY ONLY <2>2, BuffersType, TupleDescs, n \in Int, Zenon
<1>4. /\ g1 \in Group /\ g2 \in Group /\ g3 \in Group /\ g4 \in Group
      /\ Shape(g1, a) /\ Shape(g2, b) /\ Shape(g3, x) /\ Shape(g4, r)
      /\ g1 # <<>> /\ g1[Len(g1)] = g[1]
  BY ONLY <1>1, <1>2, <1>3, Zenon DEF IsHrd
<1>5. PICK s1 \in Group, s2 \in Group, s3 \in Group :
        s3 = g4 \o src /\ s2 = g3 \o s3 /\ s1 = g2 \o s2 /\ g \o src = g1 \o s1
  BY ONLY <1>1, Zenon DEF IsHrd
<1>6. PICK t1 \in Group, t2 \in Group, t3 \in Group :
        t3 = g4 \o tgt /\ t2 = g3 \o t3 /\ t1 = g2 \o t2 /\ g \o tgt = g1 \o t1
  BY ONLY <1>1, Zenon DEF IsHrd
<1>7. PICK c1 : c1 = Copy(c, a) /\ At(c1, s1, t1, unit) /\ LastOf(c1) = g[1].v
  <2>1. At(c, g1 \o s1, g1 \o t1, unit)
    BY ONLY <1>5, <1>6, At(c, g \o src, g \o tgt, unit), Zenon
  <2>2. PICK d : d = Copy(c, a)
    BY Zenon
  <2>3. Over(c, d, g1, s1, t1, unit)
    BY ONLY <1>4, <2>1, <2>2, GroupCopied, a \in Seq(Descs), s1 \in Group, t1 \in Group, Zenon
  <2>4. LastOf(d) = g1[Len(g1)].v
    BY ONLY <1>4, <2>3, LastValue, Zenon
  <2> QED BY ONLY <1>4, <2>2, <2>3, <2>4, Zenon DEF Over
<1>8. PICK c2 : c2 = Copy(c1, b) /\ At(c2, s2, t2, unit)
  <2>1. Over(c1, Copy(c1, b), g2, s2, t2, unit)
    BY ONLY <1>4, <1>5, <1>6, <1>7, GroupCopied, b \in Seq(Descs), s2 \in Group, t2 \in Group, Zenon
  <2> QED BY ONLY <2>1, Zenon DEF Over
<1>9. PICK c3 : c3 = Copy(c2, x) /\ At(c3, s3, t3, unit)
  <2>1. Over(c2, Copy(c2, x), g3, s3, t3, unit)
    BY ONLY <1>4, <1>5, <1>6, <1>8, GroupCopied, x \in Seq(Descs), s3 \in Group, t3 \in Group, Zenon
  <2> QED BY ONLY <2>1, Zenon DEF Over
<1>10. PICK c4 : c4 = Copy(c3, r) /\ At(c4, src, tgt, unit)
  <2>1. Over(c3, Copy(c3, r), g4, src, tgt, unit)
    BY ONLY <1>4, <1>5, <1>6, <1>9, GroupCopied, r \in Seq(Descs), src \in Group, tgt \in Group, Zenon
  <2> QED BY ONLY <2>1, Zenon DEF Over
<1>11. x = FlattenSeq(Repeat(LastOf(c1) + 1, <<ue, ue, u(1)>>))
  BY ONLY <1>2, <1>3, <1>7, Zenon DEF Buffers
<1>12. c4 = CopyHrdParameters(c)
  BY ONLY <1>3, <1>7, <1>8, <1>9, <1>10, <1>11, Zenon DEF CopyHrdParameters
<1> QED BY ONLY <1>10, <1>12, Zenon

LEMMA HrdPart ==
    ASSUME NEW CONSTANT g \in Group, g = <<>> \/ Shape(g, HrdShape(g[1].v + 1)),
           NEW CONSTANT src \in Group, NEW CONSTANT tgt \in Group, NEW CONSTANT s, SpsTyped,
           Between(Opt(g) \o src, Opt(g) \o tgt, s),
           NEW CONSTANT part, NEW CONSTANT next, CopyHrd(part, next)
    PROVE  /\ pc' = next /\ Between(src, tgt, s)' /\ hrd' = (hrd \/ g # <<>>)
           /\ UNCHANGED <<chroma_format_idc, list, max_num_ref_frames>>
<1>1. PICK unit : unit = NewUnit(s)
  BY Zenon
<1>2. At(Cursor, Opt(g) \o src, Opt(g) \o tgt, unit)
  BY ONLY <1>1, CursorAt, SpsTyped, Between(Opt(g) \o src, Opt(g) \o tgt, s), Zenon
<1>3. PICK b \in BOOLEAN : /\ b = (g # <<>>) /\ g \o src \in Group /\ g \o tgt \in Group
                           /\ Opt(g) \o src = <<Flag(b)>> \o (g \o src)
                           /\ Opt(g) \o tgt = <<Flag(b)>> \o (g \o tgt)
  <2>1. PICK b \in BOOLEAN : /\ b = (g # <<>>) /\ g \o src \in Group
                             /\ Opt(g) \o src = <<Flag(b)>> \o (g \o src)
    BY ONLY OptOf, g \in Group, src \in Group, Zenon
  <2>2. PICK d \in BOOLEAN : /\ d = (g # <<>>) /\ g \o tgt \in Group
                             /\ Opt(g) \o tgt = <<Flag(d)>> \o (g \o tgt)
    BY ONLY OptOf, g \in Group, tgt \in Group, Zenon
  <2>3. b = d
    BY ONLY <2>1, <2>2, Zenon
  <2> QED BY ONLY <2>1, <2>2, <2>3, Zenon
<1>4. PICK c1 : /\ c1 = Copy(Cursor, <<u(1)>>) /\ At(c1, g \o src, g \o tgt, unit)
                /\ Present(c1) <=> b
  <2>1. At(Cursor, <<Flag(b)>> \o (g \o src), <<Flag(b)>> \o (g \o tgt), unit)
    BY ONLY <1>2, <1>3, Zenon
  <2>2. BehindFlag(Copy(Cursor, <<u(1)>>), b, g \o src, g \o tgt, unit)
    BY ONLY <1>3, <2>1, FlagCopied, b \in BOOLEAN, Zenon
  <2> QED BY ONLY <2>2, Zenon DEF BehindFlag
<1>5. PICK c2 : /\ c2 = IF Present(c1) THEN CopyHrdParameters(c1) ELSE c1
                /\ At(c2, src, tgt, unit)
  <2>1. CASE b
    <3>1. g # <<>> /\ Shape(g, HrdShape(g[1].v + 1))
      BY ONLY <1>3, <2>1, g = <<>> \/ Shape(g, HrdShape(g[1].v + 1)), Zenon
    <3>2. At(CopyHrdParameters(c1), src, tgt, unit)
      BY ONLY <1>4, <3>1, HrdCopied, g \in Group, src \in Group, tgt \in Group, Zenon
    <3> QED BY ONLY <1>4, <2>1, <3>2, Zenon
  <2>2. CASE ~b
    <3>1. g \o src = src /\ g \o tgt = tgt
      BY ONLY <1>3, <2>2, EmptyGroup, src \in Group, tgt \in Group, Zenon
    <3> QED BY ONLY <1>4, <2>2, <3>1, Zenon
  <2> QED BY ONLY <2>1, <2>2, Zenon
<1>6. Take(c2, next) /\ hrd' = (hrd \/ Present(c1)) /\ UNCHANGED <<chroma_format_idc, list, max_num_ref_frames>>
  BY ONLY <1>4, <1>5, CopyHrd(part, next), Zenon DEF CopyHrd
<1>7. pc' = next /\ Between(src, tgt, s)'
  BY ONLY <1>1, <1>5, <1>6, TakeBetween, Zenon
<1>8. hrd' = (hrd \/ g # <<>>)
  BY ONLY <1>3, <1>4, <1>6, Zenon DEF Present
<1> QED BY ONLY <1>6, <1>7, <1>8, Zenon

\* What is known from the VUI on.
InVui(s, v, n) ==
    /\ v = s.vui[1] /\ n = NewVui(s) /\ ValidVui(v) /\ VuiFroms(v) /\ VuiFroms(n)
    /\ IsUnordered(n, v, s.refs) /\ F(ue, s.refs) \in Fields
    /\ \A g \in {v.nal_hrd, v.vcl_hrd} : g \in Group /\ (g = <<>> \/ Shape(g, HrdShape(g[1].v + 1)))
    /\ n.nal_hrd = v.nal_hrd /\ n.vcl_hrd = v.vcl_hrd

LEMMA VuiKnown ==
    ASSUME NEW s, ValidSps(s), s.vui # <<>>, NEW v, NEW n, v = s.vui[1], n = NewVui(s)
    PROVE  InVui(s, v, n)
<1>1. ValidVui(v) /\ IsUnordered(n, v, s.refs) /\ F(ue, s.refs) \in Fields
  BY ONLY s.vui # <<>>, v = s.vui[1], n = NewVui(s), NewVuiOf, ValidSps(s), Zenon
<1>2. VuiParts(v) /\ VuiParts(n) /\ n.nal_hrd = v.nal_hrd /\ n.vcl_hrd = v.vcl_hrd
  BY ONLY <1>1, Zenon DEF IsUnordered
<1>3. VuiFroms(v) /\ VuiFroms(n)
  BY ONLY <1>2, VuiFromGroups, Zenon
<1>4. \A g \in {v.nal_hrd, v.vcl_hrd} : g \in Group /\ (g = <<>> \/ Shape(g, HrdShape(g[1].v + 1)))
  BY ONLY <1>1, <1>2, Zenon DEF ValidVui, VuiParts
<1> QED BY ONLY <1>1, <1>2, <1>3, <1>4, v = s.vui[1], n = NewVui(s), Zenon DEF InVui

LEMMA NalHrdPart ==
    ASSUME NEW CONSTANT s, ValidSps(s), SpsTyped, RewriteAt(s), CopyHrd("nal_hrd", "vcl_hrd")
    PROVE  RewriteAt(s)'
<1>1. /\ pc = "nal_hrd" /\ ~hrd /\ max_num_ref_frames = s.refs /\ s.vui # <<>>
      /\ Between(FromNalHrd(s.vui[1]), FromNalHrd(NewVui(s)), s)
  BY ONLY RewriteAt(s), CopyHrd("nal_hrd", "vcl_hrd") DEF RewriteAt, CopyHrd
<1>2. PICK v, n : v = s.vui[1] /\ n = NewVui(s)
  BY Zenon
<1>3. InVui(s, v, n)
  BY ONLY <1>1, <1>2, VuiKnown, ValidSps(s), Zenon
<1>4. PICK g \in Group, a \in Group, b \in Group :
        /\ g = v.nal_hrd /\ g = n.nal_hrd /\ a = FromVclHrd(v) /\ b = FromVclHrd(n)
        /\ g = <<>> \/ Shape(g, HrdShape(g[1].v + 1))
  BY ONLY <1>3, Zenon DEF InVui, VuiFroms
<1>5. Between(Opt(g) \o a, Opt(g) \o b, s)
  BY ONLY <1>1, <1>2, <1>4, Zenon DEF FromNalHrd
<1>6. /\ pc' = "vcl_hrd" /\ Between(a, b, s)' /\ hrd' = (hrd \/ g # <<>>)
      /\ UNCHANGED <<chroma_format_idc, list, max_num_ref_frames>>
  BY ONLY <1>4, <1>5, HrdPart, SpsTyped, CopyHrd("nal_hrd", "vcl_hrd"), g \in Group, a \in Group,
          b \in Group, Zenon
<1>7. hrd' = (s.vui[1].nal_hrd # <<>>) /\ max_num_ref_frames' = s.refs
  BY ONLY <1>1, <1>2, <1>4, <1>6, Zenon
<1>8. Between(FromVclHrd(s.vui[1]), FromVclHrd(NewVui(s)), s)'
  BY ONLY <1>2, <1>4, <1>6, Zenon
<1> QED BY ONLY <1>1, <1>6, <1>7, <1>8, Zenon DEF RewriteAt

LEMMA VclHrdPart ==
    ASSUME NEW CONSTANT s, ValidSps(s), SpsTyped, RewriteAt(s), CopyHrd("vcl_hrd", "restriction")
    PROVE  RewriteAt(s)'
<1>1. /\ pc = "vcl_hrd" /\ max_num_ref_frames = s.refs /\ s.vui # <<>>
      /\ hrd = (s.vui[1].nal_hrd # <<>>)
      /\ Between(FromVclHrd(s.vui[1]), FromVclHrd(NewVui(s)), s)
  BY ONLY RewriteAt(s), CopyHrd("vcl_hrd", "restriction") DEF RewriteAt, CopyHrd
<1>2. PICK v, n : v = s.vui[1] /\ n = NewVui(s)
  BY Zenon
<1>3. InVui(s, v, n)
  BY ONLY <1>1, <1>2, VuiKnown, ValidSps(s), Zenon
<1>4. PICK g \in Group, a \in Group, b \in Group :
        /\ g = v.vcl_hrd /\ g = n.vcl_hrd /\ a = FromRestriction(v) /\ b = FromRestriction(n)
        /\ g = <<>> \/ Shape(g, HrdShape(g[1].v + 1))
  BY ONLY <1>3, Zenon DEF InVui, VuiFroms
<1>5. Between(Opt(g) \o a, Opt(g) \o b, s)
  BY ONLY <1>1, <1>2, <1>4, Zenon DEF FromVclHrd
<1>6. /\ pc' = "restriction" /\ Between(a, b, s)' /\ hrd' = (hrd \/ g # <<>>)
      /\ UNCHANGED <<chroma_format_idc, list, max_num_ref_frames>>
  BY ONLY <1>4, <1>5, HrdPart, SpsTyped, CopyHrd("vcl_hrd", "restriction"), g \in Group, a \in Group,
          b \in Group, Zenon
<1>7. hrd' = HasHrd(s.vui[1]) /\ max_num_ref_frames' = s.refs
  BY ONLY <1>1, <1>2, <1>4, <1>6, Zenon DEF HasHrd
<1>8. Between(FromRestriction(s.vui[1]), FromRestriction(NewVui(s)), s)'
  BY ONLY <1>2, <1>4, <1>6, Zenon
<1> QED BY ONLY <1>1, <1>6, <1>7, <1>8, Zenon DEF RewriteAt
-----------------------------------------------------------------------------
(* The VUI up to the timing.                                               *)

AspectShape(g) ==
    \/ g = <<>>
    \/ Shape(g, <<u(8)>>) /\ g[1].v # 255
    \/ Shape(g, <<u(8), u(16), u(16)>>) /\ g[1].v = 255

AspectCopy(c) ==
    LET d == CopyIf(Copy(c, <<u(1)>>), <<u(8)>>)
    IN IF LastOf(d) = 255 THEN Copy(d, <<u(16), u(16)>>) ELSE d

LEMMA AspectCopied ==
    ASSUME NEW g \in Group, AspectShape(g), NEW src \in Group, NEW tgt \in Group, NEW unit,
           NEW c, At(c, Opt(g) \o src, Opt(g) \o tgt, unit)
    PROVE  At(AspectCopy(c), src, tgt, unit)
<1>1. PICK a \in Seq(Descs), b \in Seq(Descs) : a = <<u(8)>> /\ b = <<u(16), u(16)>>
  BY ONLY TupleDescs, Zenon
<1>2. PICK d : d = CopyIf(Copy(c, <<u(1)>>), a)
  BY Zenon
<1>3. AspectCopy(c) = IF LastOf(d) = 255 THEN Copy(d, b) ELSE d
  BY ONLY <1>1, <1>2, Zenon DEF AspectCopy
<1>4. ASSUME g = <<>> \/ (Shape(g, a) /\ g[1].v # 255)
      PROVE  At(AspectCopy(c), src, tgt, unit)
  <2>1. BehindOpt(d, g, src, tgt, unit)
    BY ONLY <1>2, <1>4, OptCopied, g \in Group, a \in Seq(Descs), src \in Group, tgt \in Group,
            At(c, Opt(g) \o src, Opt(g) \o tgt, unit), Zenon
  <2>2. At(d, src, tgt, unit) /\ LastOf(d) = IF g = <<>> THEN 0 ELSE g[Len(g)].v
    BY ONLY <2>1, Zenon DEF BehindOpt
  <2>3. g # <<>> => Len(g) = 1
    <3>1. Shape(g, a) => Len(g) = 1
      BY ONLY <1>1, ShapeLen
    <3> QED BY ONLY <1>4, <3>1, Zenon
  <2>4. LastOf(d) # 255
    <3>1. PICK o : o = 255 /\ 0 # o
      OBVIOUS
    <3>2. g = <<>> \/ g[1].v # o
      BY ONLY <1>4, <3>1
    <3>3. CASE g = <<>>
      <4>1. LastOf(d) = 0
        BY ONLY <2>2, <3>3, Zenon
      <4> QED BY ONLY <4>1
    <3>4. CASE g # <<>>
      <4>1. LastOf(d) = g[1].v
        BY ONLY <2>2, <2>3, <3>4, Zenon
      <4> QED BY ONLY <3>1, <3>2, <3>4, <4>1
    <3> QED BY ONLY <3>3, <3>4, Zenon
  <2> QED BY ONLY <1>3, <2>2, <2>4, Zenon
<1>5. ASSUME Shape(g, <<u(8), u(16), u(16)>>) /\ g[1].v = 255
      PROVE  At(AspectCopy(c), src, tgt, unit)
  <2>1. Shape(g, a \o b)
    <3>1. <<u(8), u(16), u(16)>> = <<u(8)>> \o <<u(16), u(16)>>
      BY ONLY TRUE
    <3> QED BY ONLY <1>1, <1>5, <3>1, Zenon
  <2>2. PICK h, k : Halves(g, h, k, a, b)
    BY ONLY <2>1, GroupHalves, g \in Group, a \in Seq(Descs), b \in Seq(Descs), Zenon
  <2>3. /\ h \in Group /\ k \in Group /\ g = h \o k /\ Shape(h, a) /\ Shape(k, b)
        /\ Len(h) = Len(a) /\ \A i \in 1 .. Len(a) : h[i] = g[i]
    BY ONLY <2>2, Zenon DEF Halves
  <2>4. Len(h) = 1 /\ h[1] = g[1]
    <3>1. Len(a) = 1 /\ 1 \in 1 .. 1
      BY ONLY <1>1
    <3> QED BY ONLY <2>3, <3>1, Zenon
  <2>5. h # <<>>
    <3>1. Len(h) # 0
      BY ONLY <2>4
    <3> QED BY ONLY <3>1
  <2>6. g # <<>>
    <3>1. Len(g) = 3
      BY ONLY <1>5, ShapeLen
    <3>2. Len(g) # 0
      BY ONLY <3>1
    <3> QED BY ONLY <3>2
  <2>7. Opt(g) \o src = Opt(h) \o (k \o src) /\ Opt(g) \o tgt = Opt(h) \o (k \o tgt)
    <3>1. PICK t \in Group : t = <<Flag(TRUE)>>
      BY ONLY FlagGroup, Zenon
    <3>2. Opt(g) = t \o g /\ Opt(h) = t \o h
      BY ONLY <2>5, <2>6, <3>1, Zenon DEF Opt
    <3>3. Regroups(t, h, k) /\ t \o h \in Group
      BY ONLY <2>3, GroupRegroups, t \in Group, Zenon
    <3>4. Opt(g) = Opt(h) \o k /\ Opt(h) \in Group
      BY ONLY <2>3, <3>2, <3>3, Zenon DEF Regroups
    <3>5. Regroups(Opt(h), k, src) /\ Regroups(Opt(h), k, tgt)
      BY ONLY <2>3, <3>4, GroupRegroups, src \in Group, tgt \in Group, Zenon
    <3> QED BY ONLY <3>4, <3>5, Zenon DEF Regroups
  <2>8. PICK x \in Group, y \in Group : x = k \o src /\ y = k \o tgt
    BY ONLY <2>3, GroupParts, src \in Group, tgt \in Group, Zenon
  <2>9. At(c, Opt(h) \o x, Opt(h) \o y, unit)
    BY ONLY <2>7, <2>8, At(c, Opt(g) \o src, Opt(g) \o tgt, unit), Zenon
  <2>10. BehindOpt(d, h, x, y, unit)
    BY ONLY <1>2, <2>3, <2>9, OptCopied, a \in Seq(Descs), x \in Group, y \in Group, Zenon
  <2>11. At(d, k \o src, k \o tgt, unit) /\ LastOf(d) = 255
    <3>1. At(d, k \o src, k \o tgt, unit) /\ LastOf(d) = g[1].v
      BY ONLY <2>4, <2>5, <2>8, <2>10, Zenon DEF BehindOpt
    <3> QED BY ONLY <1>5, <3>1
  <2>12. Over(d, Copy(d, b), k, src, tgt, unit)
    BY ONLY <2>3, <2>11, GroupCopied, b \in Seq(Descs), src \in Group, tgt \in Group, Zenon
  <2> QED BY ONLY <1>3, <2>11, <2>12, Zenon DEF Over
<1> QED BY ONLY <1>1, <1>4, <1>5, AspectShape(g), Zenon DEF AspectShape

SignalShape(g) ==
    \/ g = <<>>
    \/ Shape(g, <<u(3), u(1), u(1)>>) /\ g[3].v = 0
    \/ Shape(g, <<u(3), u(1), u(1), u(8), u(8), u(8)>>) /\ g[3].v = 1

SignalSkip(c) ==
    SkipIf(SkipIf(Put(Skip(c, <<u(1)>>), u(1), 0), <<u(3), u(1), u(1)>>), <<u(8), u(8), u(8)>>)

LEMMA SignalSkipped ==
    ASSUME NEW g \in Group, SignalShape(g), NEW src \in Group, NEW tgt \in Group, NEW unit,
           NEW c, At(c, Opt(g) \o src, Opt(<<>>) \o tgt, unit)
    PROVE  At(SignalSkip(c), src, tgt, unit)
<1>1. PICK a \in Seq(Descs), b \in Seq(Descs) : a = <<u(3), u(1), u(1)>> /\ b = <<u(8), u(8), u(8)>>
  BY ONLY TupleDescs, Zenon
<1>2. PICK f \in BOOLEAN : f = (g # <<>>) /\ g \o src \in Group /\ Opt(g) \o src = <<Flag(f)>> \o (g \o src)
  BY ONLY OptOf, g \in Group, src \in Group, Zenon
<1>3. Opt(<<>>) \o tgt = <<Flag(FALSE)>> \o tgt /\ <<Flag(FALSE)>> \o tgt \in Group
  <2>1. Opt(<<>>) = <<Flag(FALSE)>> \o <<>>
    <3>1. (<<>> # <<>>) = FALSE
      BY Zenon
    <3> QED BY ONLY <3>1, Zenon DEF Opt
  <2>2. <<Flag(FALSE)>> \in Group
    BY ONLY FlagGroup, Zenon
  <2> QED BY ONLY <2>1, <2>2, EmptyGroup, GroupParts, tgt \in Group, Zenon
<1>4. PICK c1 : /\ c1 = Skip(c, <<u(1)>>) /\ At(c1, g \o src, <<Flag(FALSE)>> \o tgt, unit)
                /\ Present(c1) <=> f
  <2>1. At(c, <<Flag(f)>> \o (g \o src), <<Flag(FALSE)>> \o tgt, unit)
    BY ONLY <1>2, <1>3, At(c, Opt(g) \o src, Opt(<<>>) \o tgt, unit), Zenon
  <2>2. BehindFlag(Skip(c, <<u(1)>>), f, g \o src, <<Flag(FALSE)>> \o tgt, unit)
    BY ONLY <1>2, <1>3, <2>1, FlagSkipped, f \in BOOLEAN, Zenon
  <2> QED BY ONLY <2>2, Zenon DEF BehindFlag
<1>5. PICK c2 : c2 = Put(c1, u(1), 0) /\ At(c2, g \o src, tgt, unit) /\ (Present(c2) <=> f)
  <2>1. 0 = IF FALSE THEN 1 ELSE 0
    BY Zenon
  <2>2. PutBehind(c1, Put(c1, u(1), 0), g \o src, tgt, unit)
    BY ONLY <1>2, <1>4, <2>1, FlagPut, FALSE \in BOOLEAN, tgt \in Group, Zenon
  <2> QED BY ONLY <1>4, <2>2, Zenon DEF PutBehind, Present, LastOf
<1>6. SignalSkip(c) = SkipIf(SkipIf(c2, a), b)
  BY ONLY <1>1, <1>4, <1>5, Zenon DEF SignalSkip
<1>7. ASSUME g = <<>> PROVE At(SignalSkip(c), src, tgt, unit)
  <2>1. ~Present(c2) /\ g \o src = src
    BY ONLY <1>2, <1>5, <1>7, EmptyGroup, src \in Group, Zenon
  <2> QED BY ONLY <1>5, <1>6, <2>1, Zenon DEF SkipIf
<1>8. ASSUME Shape(g, a) /\ g[3].v = 0 PROVE At(SignalSkip(c), src, tgt, unit)
  <2>1. Len(g) = 3
    BY ONLY <1>1, <1>8, ShapeLen
  <2>2. g # <<>>
    <3>1. Len(g) # 0
      BY ONLY <2>1
    <3> QED BY ONLY <3>1
  <2>3. PICK d : d = Skip(c2, a)
    BY Zenon
  <2>4. Over(c2, d, g, src, tgt, unit)
    BY ONLY <1>5, <1>8, <2>3, GroupSkipped, g \in Group, a \in Seq(Descs), src \in Group, tgt \in Group, Zenon
  <2>5. LastOf(d) = 0
    <3>1. LastOf(d) = g[Len(g)].v
      BY ONLY <2>2, <2>4, LastValue, g \in Group, Zenon
    <3> QED BY ONLY <1>8, <2>1, <3>1, Zenon
  <2>6. SignalSkip(c) = d
    BY ONLY <1>2, <1>5, <1>6, <2>2, <2>3, <2>5, Zenon DEF SkipIf, Present
  <2> QED BY ONLY <2>4, <2>6, Zenon DEF Over
<1>9. ASSUME Shape(g, <<u(3), u(1), u(1), u(8), u(8), u(8)>>) /\ g[3].v = 1
      PROVE  At(SignalSkip(c), src, tgt, unit)
  <2>1. Shape(g, a \o b)
    <3>1. <<u(3), u(1), u(1), u(8), u(8), u(8)>> = <<u(3), u(1), u(1)>> \o <<u(8), u(8), u(8)>>
      BY ONLY TRUE
    <3> QED BY ONLY <1>1, <1>9, <3>1, Zenon
  <2>2. PICK h, k : Halves(g, h, k, a, b)
    BY ONLY <2>1, GroupHalves, g \in Group, a \in Seq(Descs), b \in Seq(Descs), Zenon
  <2>3. /\ h \in Group /\ k \in Group /\ g = h \o k /\ Shape(h, a) /\ Shape(k, b)
        /\ Len(h) = Len(a) /\ \A i \in 1 .. Len(a) : h[i] = g[i]
    BY ONLY <2>2, Zenon DEF Halves
  <2>4. Len(h) = 3 /\ h[3] = g[3]
    <3>1. Len(a) = 3 /\ 3 \in 1 .. 3
      BY ONLY <1>1
    <3> QED BY ONLY <2>3, <3>1, Zenon
  <2>5. h # <<>>
    <3>1. Len(h) # 0
      BY ONLY <2>4
    <3> QED BY ONLY <3>1
  <2>6. g # <<>>
    <3>1. Len(g) = 6
      BY ONLY <1>9, ShapeLen
    <3>2. Len(g) # 0
      BY ONLY <3>1
    <3> QED BY ONLY <3>2
  <2>7. PICK x \in Group : x = k \o src /\ g \o src = h \o x
    <3>1. Regroups(h, k, src) /\ k \o src \in Group
      BY ONLY <2>3, GroupRegroups, src \in Group, Zenon
    <3> QED BY ONLY <2>3, <3>1, Zenon DEF Regroups
  <2>8. PICK d : d = Skip(c2, a)
    BY Zenon
  <2>9. Over(c2, d, h, x, tgt, unit)
    BY ONLY <1>5, <2>3, <2>7, <2>8, GroupSkipped, a \in Seq(Descs), x \in Group, tgt \in Group, Zenon
  <2>10. LastOf(d) = 1
    <3>1. LastOf(d) = h[Len(h)].v
      BY ONLY <2>3, <2>5, <2>9, LastValue, Zenon
    <3> QED BY ONLY <1>9, <2>4, <3>1, Zenon
  <2>11. At(d, k \o src, tgt, unit) /\ Present(d)
    <3>1. 1 # 0
      OBVIOUS
    <3> QED BY ONLY <2>7, <2>9, <2>10, <3>1, Zenon DEF Over, Present
  <2>12. Over(d, Skip(d, b), k, src, tgt, unit)
    BY ONLY <2>3, <2>11, GroupSkipped, b \in Seq(Descs), src \in Group, tgt \in Group, Zenon
  <2>13. SignalSkip(c) = Skip(d, b)
    BY ONLY <1>2, <1>5, <1>6, <2>6, <2>8, <2>11, Zenon DEF SkipIf
  <2> QED BY ONLY <2>12, <2>13, Zenon DEF Over
<1> QED BY ONLY <1>1, <1>7, <1>8, <1>9, SignalShape(g), Zenon DEF SignalShape

LEMMA VuiPart ==
    ASSUME NEW CONSTANT s, ValidSps(s), SpsTyped, RewriteAt(s), CopyVui
    PROVE  RewriteAt(s)'
<1>1. /\ pc = "vui" /\ ~hrd /\ max_num_ref_frames = s.refs /\ s.vui # <<>>
      /\ Between(FromVui(s.vui[1]), FromVui(NewVui(s)), s)
  BY ONLY RewriteAt(s), CopyVui DEF RewriteAt, CopyVui
<1>2. PICK unit : unit = NewUnit(s)
  BY Zenon
<1>3. PICK v, n : v = s.vui[1] /\ n = NewVui(s)
  BY Zenon
<1>4. /\ ValidVui(v) /\ VuiFroms(v) /\ VuiFroms(n) /\ IsUnordered(n, v, s.refs)
  BY ONLY <1>1, <1>3, VuiKnown, ValidSps(s), Zenon DEF InVui
<1>5. PICK ga \in Group, go \in Group, gs \in Group, gc \in Group, gt \in Group :
        /\ ga = v.aspect /\ go = v.overscan /\ gs = v.signal /\ gc = v.chroma_loc /\ gt = v.timing
        /\ n.aspect = ga /\ n.overscan = go /\ n.signal = <<>> /\ n.chroma_loc = gc /\ n.timing = gt
  BY ONLY <1>4, Zenon DEF IsUnordered, VuiParts
<1>6. PICK d1 \in Seq(Descs), d2 \in Seq(Descs), d3 \in Seq(Descs), d0 \in Seq(Descs) :
        d0 = <<u(1)>> /\ d1 = <<u(1)>> /\ d2 = <<ue, ue>> /\ d3 = <<u(32), u(32), u(1)>>
  BY ONLY TupleDescs, Zenon
<1>7. AspectShape(ga)
  BY ONLY <1>4, <1>5, Zenon DEF ValidVui, AspectShape
<1>8. SignalShape(gs)
  BY ONLY <1>4, <1>5, Zenon DEF ValidVui, SignalShape
<1>9. (go = <<>> \/ Shape(go, d1)) /\ (gc = <<>> \/ Shape(gc, d2)) /\ (gt = <<>> \/ Shape(gt, d3))
  BY ONLY <1>4, <1>5, <1>6, Zenon DEF ValidVui
<1>10. PICK a1 \in Group, a2 \in Group, a3 \in Group, a4 \in Group, a5 \in Group :
         /\ a5 = FromNalHrd(v) /\ a4 = Opt(gt) \o a5 /\ a3 = Opt(gc) \o a4
         /\ a2 = Opt(gs) \o a3 /\ a1 = Opt(go) \o a2 /\ FromVui(v) = Opt(ga) \o a1
  BY ONLY <1>4, <1>5, Zenon DEF VuiFroms, FromVui, FromSignal
<1>11. PICK b1 \in Group, b2 \in Group, b3 \in Group, b4 \in Group, b5 \in Group :
         /\ b5 = FromNalHrd(n) /\ b4 = Opt(gt) \o b5 /\ b3 = Opt(gc) \o b4
         /\ b2 = Opt(<<>>) \o b3 /\ b1 = Opt(go) \o b2 /\ FromVui(n) = Opt(ga) \o b1
  BY ONLY <1>4, <1>5, Zenon DEF VuiFroms, FromVui, FromSignal
<1>12. At(Cursor, Opt(ga) \o a1, Opt(ga) \o b1, unit)
  <2>1. Between(Opt(ga) \o a1, Opt(ga) \o b1, s)
    BY ONLY <1>1, <1>3, <1>10, <1>11, Zenon
  <2> QED BY ONLY <1>2, <2>1, CursorAt, SpsTyped, Zenon
<1>13. PICK c1 : c1 = AspectCopy(Cursor) /\ At(c1, a1, b1, unit)
  <2>1. At(AspectCopy(Cursor), a1, b1, unit)
    BY ONLY <1>7, <1>12, AspectCopied, ga \in Group, a1 \in Group, b1 \in Group, Zenon
  <2> QED BY ONLY <2>1, Zenon
<1>14. PICK c2 : c2 = CopyIf(Copy(c1, d0), d1) /\ At(c2, a2, b2, unit)
  <2>1. At(c1, Opt(go) \o a2, Opt(go) \o b2, unit)
    BY ONLY <1>10, <1>11, <1>13, Zenon
  <2>2. BehindOpt(CopyIf(Copy(c1, <<u(1)>>), d1), go, a2, b2, unit)
    BY ONLY <1>9, <2>1, OptCopied, go \in Group, a2 \in Group, b2 \in Group, d1 \in Seq(Descs), Zenon
  <2> QED BY ONLY <1>6, <2>2, Zenon DEF BehindOpt
<1>15. PICK c3 : c3 = SignalSkip(c2) /\ At(c3, a3, b3, unit)
  <2>1. At(c2, Opt(gs) \o a3, Opt(<<>>) \o b3, unit)
    BY ONLY <1>10, <1>11, <1>14, Zenon
  <2> QED BY ONLY <1>8, <2>1, SignalSkipped, gs \in Group, a3 \in Group, b3 \in Group, Zenon
<1>16. PICK c4 : c4 = CopyIf(Copy(c3, d0), d2) /\ At(c4, a4, b4, unit)
  <2>1. At(c3, Opt(gc) \o a4, Opt(gc) \o b4, unit)
    BY ONLY <1>10, <1>11, <1>15, Zenon
  <2>2. BehindOpt(CopyIf(Copy(c3, <<u(1)>>), d2), gc, a4, b4, unit)
    BY ONLY <1>9, <2>1, OptCopied, gc \in Group, a4 \in Group, b4 \in Group, d2 \in Seq(Descs), Zenon
  <2> QED BY ONLY <1>6, <2>2, Zenon DEF BehindOpt
<1>17. PICK c5 : c5 = CopyIf(Copy(c4, d0), d3) /\ At(c5, a5, b5, unit)
  <2>1. At(c4, Opt(gt) \o a5, Opt(gt) \o b5, unit)
    BY ONLY <1>10, <1>11, <1>16, Zenon
  <2>2. BehindOpt(CopyIf(Copy(c4, <<u(1)>>), d3), gt, a5, b5, unit)
    BY ONLY <1>9, <2>1, OptCopied, gt \in Group, a5 \in Group, b5 \in Group, d3 \in Seq(Descs), Zenon
  <2> QED BY ONLY <1>6, <2>2, Zenon DEF BehindOpt
<1>18. Take(c5, "nal_hrd") /\ UNCHANGED <<chroma_format_idc, list, max_num_ref_frames, hrd>>
  BY ONLY <1>6, <1>13, <1>14, <1>15, <1>16, <1>17, CopyVui, Zenon DEF CopyVui, AspectCopy, SignalSkip
<1>19. pc' = "nal_hrd" /\ Between(a5, b5, s)'
  BY ONLY <1>2, <1>17, <1>18, TakeBetween, Zenon
<1>20. Between(FromNalHrd(s.vui[1]), FromNalHrd(NewVui(s)), s)'
  BY ONLY <1>3, <1>10, <1>11, <1>19, Zenon
<1>21. ~hrd' /\ max_num_ref_frames' = s.refs
  BY ONLY <1>1, <1>18, Zenon
<1> QED BY ONLY <1>1, <1>19, <1>20, <1>21, Zenon DEF RewriteAt

-----------------------------------------------------------------------------
(* The VUI's flag, and the VUI of a set that has none.                     *)

\* A cursor that writes the number 0 where there are flags, all of them off.
ZeroGroup(k) == <<ZeroField(k)>>

LEMMA ZeroPut ==
    ASSUME NEW k \in 1 .. 32, NEW src \in Group, NEW tgt \in Group, NEW unit,
           NEW c, At(c, src, ZeroGroup(k) \o tgt, unit)
    PROVE  At(Put(c, u(k), 0), src, tgt, unit)
<1>1. ZeroField(k) \in Fields
  BY ONLY ZeroFieldBits, k \in 1 .. 32, Zenon
<1>2. ZeroField(k).f = u(k) /\ ZeroField(k).v = 0
  BY ONLY DEF ZeroField, F
<1>3. PICK x \in Fields : x = ZeroField(k) /\ u(k) = x.f /\ 0 = x.v
  BY ONLY <1>1, <1>2, Zenon
<1>4. PutBehind(c, Put(c, u(k), 0), src, tgt, unit)
  BY ONLY <1>3, OnePut, src \in Group, tgt \in Group, At(c, src, ZeroGroup(k) \o tgt, unit),
          Zenon DEF ZeroGroup
<1> QED BY ONLY <1>4, Zenon DEF PutBehind

LEMMA ZerosJoined ==
    ASSUME NEW n \in 1 .. 31, NEW k, k = n + 1, NEW src, NEW fs \in Group, NEW unit,
           NEW c, At(c, src, ZeroGroup(n) \o (ZeroGroup(1) \o fs), unit)
    PROVE  At(c, src, ZeroGroup(k) \o fs, unit)
<1>1. /\ c \in Cursors(c.reader.buffer) /\ ReadsTo(c.reader, src)
      /\ WritesTo(c.writer, <<ZeroField(n)>> \o (<<ZeroField(1)>> \o fs), unit)
  BY ONLY At(c, src, ZeroGroup(n) \o (ZeroGroup(1) \o fs), unit), Zenon DEF At, ZeroGroup
<1>2. WritesTo(c.writer, <<ZeroField(k)>> \o fs, unit)
  BY ONLY <1>1, ZerosMerged, n \in 1 .. 31, k = n + 1, fs \in Group, Zenon
<1> QED BY ONLY <1>1, <1>2, Zenon DEF At, ZeroGroup

\* The flags of an empty VUI with the restriction r.
IsEmptyVui(n, r, x1, x5, x6) ==
    /\ r \in Group /\ x1 \in Group /\ x5 \in Group /\ x6 \in Group
    /\ r = Opt(n.restriction) /\ x1 = ZeroGroup(1) \o r
    /\ x5 = ZeroGroup(1) \o (ZeroGroup(1) \o (ZeroGroup(1) \o (ZeroGroup(1) \o x1)))
    /\ x6 = ZeroGroup(1) \o x5
    /\ FromVui(n) = ZeroGroup(1) \o (ZeroGroup(1) \o x6)
    /\ \A g \in Group : ZeroGroup(1) \o g \in Group

LEMMA EmptyVuiFields ==
    ASSUME NEW n, NEW refs, IsUnordered(n, EmptyVui, refs)
    PROVE  \E r, x1, x5, x6 : IsEmptyVui(n, r, x1, x5, x6)
<1>1. PICK z \in Group : z = ZeroGroup(1)
  <2>1. 1 \in 1 .. 32
    OBVIOUS
  <2> QED BY ONLY <2>1, ZeroFieldBits, SingleGroup, Zenon DEF ZeroGroup
<1>2. z = <<Flag(FALSE)>>
  <2>1. Flag(FALSE) = ZeroField(1)
    BY ONLY DEF Flag, ZeroField
  <2> QED BY ONLY <1>1, <2>1, Zenon DEF ZeroGroup
<1>3. Opt(<<>>) = z
  <2>1. (<<>> # <<>>) = FALSE
    BY Zenon
  <2>2. Opt(<<>>) = z \o <<>>
    BY ONLY <1>2, <2>1, Zenon DEF Opt
  <2> QED BY ONLY <2>2, EmptyGroup, z \in Group, Zenon
<1>4. /\ n.aspect = <<>> /\ n.overscan = <<>> /\ n.signal = <<>> /\ n.chroma_loc = <<>>
      /\ n.timing = <<>> /\ n.nal_hrd = <<>> /\ n.vcl_hrd = <<>> /\ n.pic_struct = FALSE
      /\ VuiParts(n)
  <2>1. n.pic_struct \in BOOLEAN /\ ~n.pic_struct
    BY ONLY EmptyVuiParts, IsUnordered(n, EmptyVui, refs), Zenon DEF IsUnordered, VuiParts
  <2>2. n.pic_struct = FALSE
    BY ONLY <2>1
  <2> QED BY ONLY <2>2, EmptyVuiParts, IsUnordered(n, EmptyVui, refs), Zenon DEF IsUnordered
<1>5. LowDelay(n) = <<>>
  BY ONLY <1>4, Zenon DEF LowDelay, HasHrd
<1>6. \A g \in Group : z \o g \in Group
  BY ONLY GroupParts, z \in Group, Zenon
<1>7. PICK r \in Group : r = Opt(n.restriction)
  BY ONLY <1>4, OptGroup, Zenon DEF VuiParts
<1>8. PICK x1 \in Group : x1 = z \o r
  BY ONLY <1>6, r \in Group, Zenon
<1>9. PICK x2 \in Group, x3 \in Group : x2 = z \o x1 /\ x3 = z \o x2
  BY ONLY <1>6, x1 \in Group, Zenon
<1>10. PICK x4 \in Group, x5 \in Group : x4 = z \o x3 /\ x5 = z \o x4
  BY ONLY <1>6, x3 \in Group, Zenon
<1>11. PICK x6 \in Group : x6 = z \o x5
  BY ONLY <1>6, x5 \in Group, Zenon
<1>12. FromRestriction(n) = x1
  <2>1. FromRestriction(n) = <<>> \o x1
    BY ONLY <1>2, <1>4, <1>5, <1>7, <1>8, Zenon DEF FromRestriction
  <2> QED BY ONLY <2>1, EmptyGroup, x1 \in Group, Zenon
<1>13. FromNalHrd(n) = x3
  BY ONLY <1>3, <1>4, <1>9, <1>12, Zenon DEF FromNalHrd, FromVclHrd
<1>14. FromVui(n) = z \o (z \o x6)
  BY ONLY <1>3, <1>4, <1>10, <1>11, <1>13, Zenon DEF FromVui, FromSignal
<1>15. IsEmptyVui(n, r, x1, x5, x6)
  BY ONLY <1>1, <1>6, <1>7, <1>8, <1>9, <1>10, <1>11, <1>14, Zenon DEF IsEmptyVui
<1> QED BY ONLY <1>15, Zenon

EmptyVuiPut(c) == PutRestriction(Put(Put(Put(Put(c, u(2), 0), u(1), 0), u(5), 0), u(1), 1))

LEMMA EmptyVuiWritten ==
    ASSUME NEW n, NEW refs, IsUnordered(n, EmptyVui, refs), F(ue, refs) \in Fields,
           max_num_ref_frames = refs, NEW unit, NEW c, At(c, <<>>, FromVui(n), unit)
    PROVE  At(EmptyVuiPut(c), <<>>, <<>>, unit)
<1>1. PICK r, x1, x5, x6 : IsEmptyVui(n, r, x1, x5, x6)
  BY ONLY IsUnordered(n, EmptyVui, refs), EmptyVuiFields, Zenon
<1>2. <<>> \in Group
  BY ONLY EmptyGroup, Zenon
<1>3. PICK z \in Group : z = ZeroGroup(1)
  <2>1. 1 \in 1 .. 32
    OBVIOUS
  <2> QED BY ONLY <2>1, ZeroFieldBits, SingleGroup, Zenon DEF ZeroGroup
<1>4. PICK x2 \in Group, x3 \in Group, x4 \in Group :
         /\ x1 \in Group /\ r \in Group /\ x5 \in Group /\ x6 \in Group
         /\ x2 = z \o x1 /\ x3 = z \o x2 /\ x4 = z \o x3 /\ x5 = z \o x4
         /\ r = Opt(n.restriction) /\ x1 = z \o r /\ x6 = z \o x5 /\ FromVui(n) = z \o (z \o x6)
  BY ONLY <1>1, <1>3, Zenon DEF IsEmptyVui
<1>5. /\ 1 \in 1 .. 31 /\ 2 \in 1 .. 31 /\ 3 \in 1 .. 31 /\ 4 \in 1 .. 31 /\ 2 \in 1 .. 32 /\ 1 \in 1 .. 32
      /\ 5 \in 1 .. 32 /\ 2 = 1 + 1 /\ 3 = 2 + 1 /\ 4 = 3 + 1 /\ 5 = 4 + 1
  OBVIOUS
<1>6. PICK c1 : c1 = Put(c, u(2), 0) /\ At(c1, <<>>, x6, unit)
  <2>1. At(c, <<>>, ZeroGroup(1) \o (ZeroGroup(1) \o x6), unit)
    BY ONLY <1>3, <1>4, At(c, <<>>, FromVui(n), unit), Zenon
  <2>2. At(c, <<>>, ZeroGroup(2) \o x6, unit)
    BY ONLY <1>4, <1>5, <2>1, ZerosJoined, Zenon
  <2>3. At(Put(c, u(2), 0), <<>>, x6, unit)
    BY ONLY <1>2, <1>4, <1>5, <2>2, ZeroPut, Zenon
  <2> QED BY ONLY <2>3, Zenon
<1>7. PICK c2 : c2 = Put(c1, u(1), 0) /\ At(c2, <<>>, x5, unit)
  <2>1. At(c1, <<>>, ZeroGroup(1) \o x5, unit)
    BY ONLY <1>3, <1>4, <1>6, Zenon
  <2>2. At(Put(c1, u(1), 0), <<>>, x5, unit)
    BY ONLY <1>2, <1>4, <1>5, <2>1, ZeroPut, Zenon
  <2> QED BY ONLY <2>2, Zenon
<1>8. PICK c3 : c3 = Put(c2, u(5), 0) /\ At(c3, <<>>, r, unit)
  <2>1. At(c2, <<>>, ZeroGroup(1) \o (ZeroGroup(1) \o x3), unit)
    BY ONLY <1>3, <1>4, <1>7, Zenon
  <2>2. At(c2, <<>>, ZeroGroup(2) \o x3, unit)
    BY ONLY <1>4, <1>5, <2>1, ZerosJoined, Zenon
  <2>3. At(c2, <<>>, ZeroGroup(3) \o x2, unit)
    <3>1. At(c2, <<>>, ZeroGroup(2) \o (ZeroGroup(1) \o x2), unit)
      BY ONLY <1>3, <1>4, <2>2, Zenon
    <3> QED BY ONLY <1>4, <1>5, <3>1, ZerosJoined, Zenon
  <2>4. At(c2, <<>>, ZeroGroup(4) \o x1, unit)
    <3>1. PICK n3 \in 1 .. 31, n4 \in 1 .. 31 : n3 = 3 /\ n4 = 4 /\ n4 = n3 + 1
      OBVIOUS
    <3>2. At(c2, <<>>, ZeroGroup(n3) \o (ZeroGroup(1) \o x1), unit)
      BY ONLY <1>3, <1>4, <2>3, <3>1, Zenon
    <3>3. At(c2, <<>>, ZeroGroup(n4) \o x1, unit)
      BY ONLY <1>4, <3>1, <3>2, ZerosJoined, n3 \in 1 .. 31, Zenon
    <3> QED BY ONLY <3>1, <3>3
  <2>5. At(c2, <<>>, ZeroGroup(5) \o r, unit)
    <3>1. PICK n4 \in 1 .. 31, n5 \in 1 .. 32 : n4 = 4 /\ n5 = 5 /\ n5 = n4 + 1
      OBVIOUS
    <3>2. At(c2, <<>>, ZeroGroup(n4) \o (ZeroGroup(1) \o r), unit)
      <4>1. At(c2, <<>>, ZeroGroup(n4) \o x1, unit)
        BY ONLY <2>4, <3>1
      <4> QED BY ONLY <1>3, <1>4, <4>1, Zenon
    <3>3. At(c2, <<>>, ZeroGroup(n5) \o r, unit)
      BY ONLY <1>4, <3>1, <3>2, ZerosJoined, n4 \in 1 .. 31, Zenon
    <3> QED BY ONLY <3>1, <3>3
  <2>6. At(Put(c2, u(5), 0), <<>>, r, unit)
    BY ONLY <1>2, <1>4, <1>5, <2>5, ZeroPut, Zenon
  <2> QED BY ONLY <2>6, Zenon
<1>9. r = <<Flag(TRUE)>> \o Restricted(refs) /\ Restricted(refs) \in Group
  <2>1. n.restriction = Restricted(refs)
    BY ONLY IsUnordered(n, EmptyVui, refs), EmptyVuiParts, Zenon DEF IsUnordered, Restricted
  <2>2. PICK m \in Group : m = Restricted(refs)
    BY ONLY RestrictedOneByOne, F(ue, refs) \in Fields, Zenon
  <2>3. m # <<>>
    <3>1. PICK a \in Group, b \in Group : a = InferredLimits /\ b = <<F(ue, 0), F(ue, refs)>>
      BY ONLY RestrictedOneByOne, F(ue, refs) \in Fields, Zenon
    <3>2. m = a \o b
      BY ONLY <2>2, <3>1, Zenon DEF Restricted
    <3>3. Len(b) = 2
      BY ONLY <3>1
    <3>4. a \in Seq(Fields) /\ b \in Seq(Fields) /\ Len(a) \in Nat
      BY ONLY a \in Group, b \in Group DEF Group
    <3>5. Len(a \o b) = Len(a) + Len(b)
      BY ONLY <3>4, ConcatType
    <3>6. Len(a \o b) # 0
      BY ONLY <3>3, <3>4, <3>5
    <3>7. Len(m) # 0
      BY ONLY <3>2, <3>6, Zenon
    <3> QED BY ONLY <3>7
  <2> QED BY ONLY <1>4, <2>1, <2>2, <2>3, Zenon DEF Opt
<1>10. PICK c4 : c4 = Put(c3, u(1), 1) /\ At(c4, <<>>, Restricted(refs), unit)
  <2>1. At(c3, <<>>, <<Flag(TRUE)>> \o Restricted(refs), unit)
    BY ONLY <1>8, <1>9, Zenon
  <2>2. 1 = IF TRUE THEN 1 ELSE 0
    BY Zenon
  <2>3. PutBehind(c3, Put(c3, u(1), 1), <<>>, Restricted(refs), unit)
    BY ONLY <1>2, <1>9, <2>1, <2>2, FlagPut, TRUE \in BOOLEAN, Zenon
  <2> QED BY ONLY <2>3, Zenon DEF PutBehind
<1>11. At(PutRestriction(c4), <<>>, <<>>, unit)
  BY ONLY <1>2, <1>10, RestrictionPut, F(ue, refs) \in Fields, max_num_ref_frames = refs, Zenon
<1> QED BY ONLY <1>6, <1>7, <1>8, <1>10, <1>11, Zenon DEF EmptyVuiPut

LEMMA VuiFlagPart ==
    ASSUME NEW CONSTANT s, ValidSps(s), SpsTyped, RewriteAt(s), CopyVuiFlag
    PROVE  RewriteAt(s)'
<1>1. /\ pc = "vui?" /\ ~hrd /\ max_num_ref_frames = s.refs
      /\ Between(OldVui(s), PutVui(s), s)
  BY ONLY RewriteAt(s), CopyVuiFlag DEF RewriteAt, CopyVuiFlag
<1>2. PICK unit : unit = NewUnit(s)
  BY Zenon
<1>3. PICK n : n = NewVui(s)
  BY Zenon
<1>4. PICK b \in BOOLEAN : b = (s.vui # <<>>)
  BY Zenon
<1>5. PICK x \in Group : /\ x = IF s.vui = <<>> THEN <<>> ELSE FromVui(s.vui[1])
                         /\ OldVui(s) = <<Flag(b)>> \o x /\ FromVui(n) \in Group
  <2>1. s.vui # <<>> => FromVui(s.vui[1]) \in Group /\ FromVui(n) \in Group
    <3>1. ASSUME s.vui # <<>> PROVE FromVui(s.vui[1]) \in Group /\ FromVui(n) \in Group
      <4>1. PICK v : v = s.vui[1]
        BY Zenon
      <4>2. VuiFroms(v) /\ VuiFroms(n)
        BY ONLY <1>3, <3>1, <4>1, VuiKnown, ValidSps(s), Zenon DEF InVui
      <4> QED BY ONLY <4>1, <4>2, Zenon DEF VuiFroms
    <3> QED BY ONLY <3>1, Zenon
  <2>2. s.vui = <<>> => FromVui(n) \in Group
    <3>1. ASSUME s.vui = <<>> PROVE FromVui(n) \in Group
      <4>1. VuiParts(n)
        BY ONLY <1>3, <3>1, NewVuiOf, ValidSps(s), Zenon DEF IsUnordered
      <4> QED BY ONLY <4>1, VuiFromGroups, Zenon DEF VuiFroms
    <3> QED BY ONLY <3>1, Zenon
  <2> QED BY ONLY <1>4, <2>1, <2>2, EmptyGroup, Zenon DEF OldVui
<1>6. PICK t \in Group : t = <<Flag(TRUE)>> \o FromVui(n) /\ t = PutVui(s)
  <2>1. <<Flag(TRUE)>> \in Group
    BY ONLY FlagGroup, Zenon
  <2> QED BY ONLY <1>3, <1>5, <2>1, GroupParts, Zenon DEF PutVui
<1>7. At(Cursor, <<Flag(b)>> \o x, t, unit)
  <2>1. Between(<<Flag(b)>> \o x, t, s)
    BY ONLY <1>1, <1>5, <1>6, Zenon
  <2> QED BY ONLY <1>2, <2>1, CursorAt, SpsTyped, Zenon
<1>8. PICK c1 : c1 = Skip(Cursor, <<u(1)>>) /\ At(c1, x, t, unit) /\ (Present(c1) <=> b)
  <2>1. BehindFlag(Skip(Cursor, <<u(1)>>), b, x, t, unit)
    BY ONLY <1>7, FlagSkipped, b \in BOOLEAN, x \in Group, t \in Group, Zenon
  <2> QED BY ONLY <2>1, Zenon DEF BehindFlag
<1>9. PICK c2 : c2 = Put(c1, u(1), 1) /\ At(c2, x, FromVui(n), unit) /\ (Present(c2) <=> b)
  <2>1. At(c1, x, <<Flag(TRUE)>> \o FromVui(n), unit)
    BY ONLY <1>6, <1>8, Zenon
  <2>2. 1 = IF TRUE THEN 1 ELSE 0
    BY Zenon
  <2>3. PutBehind(c1, Put(c1, u(1), 1), x, FromVui(n), unit)
    BY ONLY <1>5, <2>1, <2>2, FlagPut, TRUE \in BOOLEAN, x \in Group, Zenon
  <2> QED BY ONLY <1>8, <2>3, Zenon DEF PutBehind, Present, LastOf
<1>10. /\ IF Present(c2) THEN Take(c2, "vui") ELSE Take(EmptyVuiPut(c2), "stop")
       /\ UNCHANGED <<chroma_format_idc, list, max_num_ref_frames, hrd>>
  BY ONLY <1>8, <1>9, CopyVuiFlag, Zenon DEF CopyVuiFlag, EmptyVuiPut
<1>11. CASE b
  <2>1. At(c2, x, FromVui(n), unit) /\ Take(c2, "vui") /\ x = FromVui(s.vui[1]) /\ s.vui # <<>>
    BY ONLY <1>4, <1>5, <1>9, <1>10, <1>11, Zenon
  <2>2. PICK y : y = FromVui(n)
    BY Zenon
  <2>3. pc' = "vui" /\ Between(x, y, s)'
    BY ONLY <1>2, <2>1, <2>2, TakeBetween, Zenon
  <2>4. Between(FromVui(s.vui[1]), FromVui(NewVui(s)), s)'
    BY ONLY <1>3, <2>1, <2>2, <2>3, Zenon
  <2>5. ~hrd' /\ max_num_ref_frames' = s.refs
    BY ONLY <1>1, <1>10, Zenon
  <2> QED BY ONLY <2>1, <2>3, <2>4, <2>5, Zenon DEF RewriteAt
<1>12. CASE ~b
  <2>1. At(c2, <<>>, FromVui(n), unit) /\ Take(EmptyVuiPut(c2), "stop") /\ s.vui = <<>>
    BY ONLY <1>4, <1>5, <1>9, <1>10, <1>12, Zenon
  <2>2. IsUnordered(n, EmptyVui, s.refs) /\ F(ue, s.refs) \in Fields
    BY ONLY <1>3, <2>1, NewVuiOf, ValidSps(s), Zenon
  <2>3. At(EmptyVuiPut(c2), <<>>, <<>>, unit)
    BY ONLY <1>1, <2>1, <2>2, EmptyVuiWritten, Zenon
  <2>4. pc' = "stop" /\ Between(<<>>, <<>>, s)'
    BY ONLY <1>2, <2>1, <2>3, TakeBetween, Zenon
  <2> QED BY ONLY <2>4, Zenon DEF RewriteAt, Between
<1> QED BY ONLY <1>11, <1>12, Zenon
-----------------------------------------------------------------------------
(* The parts in front of the VUI.                                          *)

IsPair(g, a, b) ==
    g \in Group /\ g = <<a, b>> /\ Shape(g, <<a.f, b.f>>) /\ g # <<>> /\ Len(g) = 2 /\ g[2] = b

LEMMA PairGroup ==
    ASSUME NEW a \in Fields, NEW b \in Fields
    PROVE  \E g : IsPair(g, a, b)
<1>1. PICK g : g = <<a, b>>
  BY Zenon
<1>2. g \in Seq(Fields) /\ Len(g) = 2 /\ g[1] = a /\ g[2] = b /\ g # <<>> /\ DOMAIN g = 1 .. 2
  BY ONLY <1>1, a \in Fields, b \in Fields
<1>3. PICK ds : ds = <<a.f, b.f>>
  BY Zenon
<1>4. Len(ds) = 2 /\ ds[1] = a.f /\ ds[2] = b.f
  BY ONLY <1>3
<1>5. Shape(g, ds)
  BY ONLY <1>2, <1>4 DEF Shape
<1> QED BY ONLY <1>1, <1>2, <1>3, <1>5, Zenon DEF IsPair, Group

IsFour(g, a, b, c, d) ==
    /\ g \in Group /\ g = <<a, b, c, d>> /\ Shape(g, <<a.f, b.f, c.f, d.f>>)
    /\ g # <<>> /\ Len(g) = 4 /\ g[4] = d /\ g[1] = a

LEMMA FourGroup ==
    ASSUME NEW a \in Fields, NEW b \in Fields, NEW c \in Fields, NEW d \in Fields
    PROVE  \E g : IsFour(g, a, b, c, d)
<1>1. PICK g : g = <<a, b, c, d>>
  BY Zenon
<1>2. /\ g \in Seq(Fields) /\ Len(g) = 4 /\ g[1] = a /\ g[2] = b /\ g[3] = c /\ g[4] = d /\ g # <<>>
      /\ DOMAIN g = 1 .. 4
  BY ONLY <1>1, a \in Fields, b \in Fields, c \in Fields, d \in Fields
<1>3. PICK ds : ds = <<a.f, b.f, c.f, d.f>>
  BY Zenon
<1>4. Len(ds) = 4 /\ ds[1] = a.f /\ ds[2] = b.f /\ ds[3] = c.f /\ ds[4] = d.f
  BY ONLY <1>3
<1>5. Shape(g, ds)
  BY ONLY <1>2, <1>4 DEF Shape
<1> QED BY ONLY <1>1, <1>2, <1>3, <1>5, Zenon DEF IsFour, Group

\* What is known of the parts of a set.
IsSet(s) ==
    /\ OldVui(s) \in Group /\ PutVui(s) \in Group
    /\ s.poc \in Group /\ s.crop \in Group /\ s.interlaced \in BOOLEAN
    /\ s.crop = <<>> \/ Shape(s.crop, Repeat(4, ue))
    /\ F(ue, s.chroma) \in Fields /\ F(ue, s.refs) \in Fields /\ F(ue, s.width) \in Fields
    /\ Stepped(s) \in Group /\ Plane(s) \in Group

LEMMA SetParts ==
    ASSUME NEW s, ValidSps(s)
    PROVE  IsSet(s)
<1>1. s.poc \in Group /\ s.crop \in Group /\ s.interlaced \in BOOLEAN
  BY ONLY ValidSps(s) DEF ValidSps, ParameterSets
<1>2. F(ue, s.chroma) \in Fields /\ F(ue, s.refs) \in Fields /\ F(ue, s.width) \in Fields
  BY ONLY ValidSps(s), Zenon DEF ValidSps
<1>3. s.crop = <<>> \/ Shape(s.crop, Repeat(4, ue))
  BY ONLY ValidSps(s), Zenon DEF ValidSps
<1>4. Stepped(s) \in Group /\ Plane(s) \in Group
  BY ONLY FlagGroup, EmptyGroup, Zenon DEF Stepped, Plane
<1>5. \A b \in BOOLEAN, g \in Group : <<Flag(b)>> \o g \in Group
  BY ONLY FlagGroup, GroupParts, Zenon
<1>6. FromVui(NewVui(s)) \in Group
  <2>1. CASE s.vui = <<>>
    <3>1. VuiParts(NewVui(s))
      BY ONLY <2>1, NewVuiOf, ValidSps(s), Zenon DEF IsUnordered
    <3> QED BY ONLY <3>1, VuiFromGroups, Zenon DEF VuiFroms
  <2>2. CASE s.vui # <<>>
    <3>1. VuiParts(NewVui(s))
      BY ONLY <2>2, NewVuiOf, ValidSps(s), Zenon DEF IsUnordered
    <3> QED BY ONLY <3>1, VuiFromGroups, Zenon DEF VuiFroms
  <2> QED BY ONLY <2>1, <2>2, Zenon
<1>7. s.vui # <<>> => FromVui(s.vui[1]) \in Group
  <2>1. ASSUME s.vui # <<>> PROVE FromVui(s.vui[1]) \in Group
    <3>1. VuiParts(s.vui[1])
      BY ONLY <2>1, NewVuiOf, ValidSps(s), Zenon DEF IsUnordered
    <3> QED BY ONLY <3>1, VuiFromGroups, Zenon DEF VuiFroms
  <2> QED BY ONLY <2>1, Zenon
<1>8. OldVui(s) \in Group
  <2>1. PICK b \in BOOLEAN : b = (s.vui # <<>>)
    BY Zenon
  <2>2. OldVui(s) = <<Flag(b)>> \o (IF s.vui = <<>> THEN <<>> ELSE FromVui(s.vui[1]))
    BY ONLY <2>1, Zenon DEF OldVui
  <2> QED BY ONLY <1>5, <1>7, <2>2, EmptyGroup, Zenon
<1>9. PutVui(s) \in Group
  BY ONLY <1>5, <1>6, Zenon DEF PutVui
<1> QED BY ONLY <1>1, <1>2, <1>3, <1>4, <1>8, <1>9, Zenon DEF IsSet

IsSize(g, s) ==
    /\ g \in Group /\ g = Size(s) /\ Shape(g, <<u(1), ue, ue, u(1)>>) /\ g # <<>>
    /\ g[Len(g)].v # 0 <=> ~s.interlaced

LEMMA SizeGroup ==
    ASSUME NEW s, IsSet(s)
    PROVE  \E g : IsSize(g, s)
<1>1. PICK i \in BOOLEAN : i = ~s.interlaced
  BY ONLY IsSet(s), Zenon DEF IsSet
<1>2. PICK a \in Fields, d \in Fields :
        /\ a = Flag(FALSE) /\ d = Flag(i) /\ a.f = u(1) /\ d.f = u(1)
        /\ d.v # 0 <=> i
  BY ONLY FlagField, FALSE \in BOOLEAN, i \in BOOLEAN, Zenon
<1>3. PICK b \in Fields, c \in Fields : b = F(ue, s.width) /\ c = F(ue, 3) /\ b.f = ue /\ c.f = ue
  <2>1. 3 \in 0 .. 16
    OBVIOUS
  <2>2. F(ue, s.width).f = ue /\ F(ue, 3).f = ue
    BY ONLY DEF F
  <2> QED BY ONLY <2>1, <2>2, UeField, IsSet(s), Zenon DEF IsSet
<1>4. PICK g : IsFour(g, a, b, c, d)
  BY ONLY FourGroup, a \in Fields, b \in Fields, c \in Fields, d \in Fields, Zenon
<1>5. g \in Group /\ g = <<a, b, c, d>> /\ Shape(g, <<a.f, b.f, c.f, d.f>>) /\ g # <<>> /\ g[Len(g)] = d
  BY ONLY <1>4, Zenon DEF IsFour
<1>6. g = Size(s)
  BY ONLY <1>1, <1>2, <1>3, <1>5, Zenon DEF Size
<1>7. Shape(g, <<u(1), ue, ue, u(1)>>) /\ (g[Len(g)].v # 0 <=> ~s.interlaced)
  BY ONLY <1>1, <1>2, <1>3, <1>5, Zenon
<1>8. IsSize(g, s)
  BY ONLY <1>5, <1>6, <1>7, Zenon DEF IsSize
<1> QED BY ONLY <1>8, Zenon

IsCropFlag(g, s) ==
    /\ g \in Group /\ g = <<Flag(TRUE), Flag(s.crop # <<>>)>> /\ Shape(g, <<u(1), u(1)>>) /\ g # <<>>
    /\ g[Len(g)].v # 0 <=> s.crop # <<>>

LEMMA CropFlagGroup ==
    ASSUME NEW s, IsSet(s)
    PROVE  \E g : IsCropFlag(g, s)
<1>1. PICK i \in BOOLEAN : i = (s.crop # <<>>)
  BY Zenon
<1>2. PICK a \in Fields, d \in Fields :
        /\ a = Flag(TRUE) /\ d = Flag(i) /\ a.f = u(1) /\ d.f = u(1)
        /\ d.v # 0 <=> i
  BY ONLY FlagField, TRUE \in BOOLEAN, i \in BOOLEAN, Zenon
<1>3. PICK g : IsPair(g, a, d)
  BY ONLY PairGroup, a \in Fields, d \in Fields, Zenon
<1>4. g \in Group /\ g = <<a, d>> /\ Shape(g, <<a.f, d.f>>) /\ g # <<>> /\ g[Len(g)] = d
  BY ONLY <1>3, Zenon DEF IsPair
<1>5. Shape(g, <<u(1), u(1)>>) /\ (g[Len(g)].v # 0 <=> s.crop # <<>>)
  BY ONLY <1>1, <1>2, <1>4, Zenon
<1>6. IsCropFlag(g, s)
  BY ONLY <1>1, <1>2, <1>4, <1>5, Zenon DEF IsCropFlag
<1> QED BY ONLY <1>6, Zenon

\* The fields of the picture, with t behind them.
IsPicture(s, t, z, k, x1, x2, x3, x4) ==
    /\ IsSize(z, s) /\ IsCropFlag(k, s)
    /\ x1 \in Group /\ x2 \in Group /\ x3 \in Group /\ x4 \in Group
    /\ x4 = s.crop \o t /\ x3 = k \o x4 /\ x2 = Stepped(s) \o x3 /\ x1 = z \o x2
    /\ FromSize(s, t) = x1 /\ FromPicture(s, t) = <<F(ue, s.refs)>> \o x1
    /\ FromPicture(s, t) \in Group

LEMMA PictureFields ==
    ASSUME NEW s, IsSet(s), NEW t \in Group, NEW z, NEW k, IsSize(z, s), IsCropFlag(k, s)
    PROVE  \E x1, x2, x3, x4 : IsPicture(s, t, z, k, x1, x2, x3, x4)
<1>1. z \in Group /\ k \in Group /\ Stepped(s) \in Group /\ s.crop \in Group
  BY ONLY IsSet(s), IsSize(z, s), IsCropFlag(k, s), Zenon DEF IsSet, IsSize, IsCropFlag
<1>2. PICK x4 \in Group : x4 = s.crop \o t
  BY ONLY <1>1, GroupParts, t \in Group, Zenon
<1>3. PICK x3 \in Group : x3 = k \o x4
  BY ONLY <1>1, GroupParts, x4 \in Group, Zenon
<1>4. PICK x2 \in Group : x2 = Stepped(s) \o x3
  BY ONLY <1>1, GroupParts, x3 \in Group, Zenon
<1>5. PICK x1 \in Group : x1 = z \o x2
  BY ONLY <1>1, GroupParts, x2 \in Group, Zenon
<1>6. FromSize(s, t) = x1
  BY ONLY <1>2, <1>3, <1>4, <1>5, IsSize(z, s), IsCropFlag(k, s), Zenon DEF IsSize, IsCropFlag, FromSize
<1>7. FromPicture(s, t) = <<F(ue, s.refs)>> \o x1
  BY ONLY <1>6, Zenon DEF FromPicture
<1>8. FromPicture(s, t) \in Group
  <2>1. F(ue, s.refs) \in Fields
    BY ONLY IsSet(s), Zenon DEF IsSet
  <2>2. <<F(ue, s.refs)>> \in Group
    BY ONLY <2>1, SingleGroup, Zenon
  <2> QED BY ONLY <1>7, <2>2, GroupParts, x1 \in Group, Zenon
<1>9. IsPicture(s, t, z, k, x1, x2, x3, x4)
  BY ONLY <1>2, <1>3, <1>4, <1>5, <1>6, <1>7, <1>8, IsSize(z, s), IsCropFlag(k, s), Zenon DEF IsPicture
<1> QED BY ONLY <1>9, Zenon

LEMMA PicturePart ==
    ASSUME NEW CONSTANT s, ValidSps(s), SpsTyped, RewriteAt(s), CopyPicture
    PROVE  RewriteAt(s)'
<1>1. /\ pc = "picture" /\ ~hrd
      /\ Between(FromPicture(s, OldVui(s)), FromPicture(s, PutVui(s)), s)
  BY ONLY RewriteAt(s), CopyPicture DEF RewriteAt, CopyPicture
<1>2. PICK unit : unit = NewUnit(s)
  BY Zenon
<1>3. IsSet(s)
  BY ONLY SetParts, ValidSps(s), Zenon
<1>4. PICK x5 \in Group, y5 \in Group, c0 \in Group, rf \in Fields :
        /\ x5 = OldVui(s) /\ y5 = PutVui(s) /\ c0 = s.crop /\ rf = F(ue, s.refs)
        /\ c0 = <<>> \/ Shape(c0, Repeat(4, ue))
  BY ONLY <1>3, Zenon DEF IsSet
<1>5. PICK z, k : IsSize(z, s) /\ IsCropFlag(k, s)
  BY ONLY <1>3, SizeGroup, CropFlagGroup, Zenon
<1>6. /\ z \in Group /\ Shape(z, <<u(1), ue, ue, u(1)>>) /\ z # <<>>
      /\ z[Len(z)].v # 0 <=> ~s.interlaced
  BY ONLY <1>5, Zenon DEF IsSize
<1>7. /\ k \in Group /\ Shape(k, <<u(1), u(1)>>) /\ k # <<>>
      /\ k[Len(k)].v # 0 <=> c0 # <<>>
  BY ONLY <1>4, <1>5, Zenon DEF IsCropFlag
<1>8. PICK x1, x2, x3, x4 : IsPicture(s, x5, z, k, x1, x2, x3, x4)
  BY ONLY <1>3, <1>5, PictureFields, x5 \in Group, Zenon
<1>9. PICK y1, y2, y3, y4 : IsPicture(s, y5, z, k, y1, y2, y3, y4)
  BY ONLY <1>3, <1>5, PictureFields, y5 \in Group, Zenon
<1>10. /\ x1 \in Group /\ x2 \in Group /\ x3 \in Group /\ x4 \in Group
       /\ x4 = c0 \o x5 /\ x3 = k \o x4 /\ x2 = Stepped(s) \o x3 /\ x1 = z \o x2
       /\ FromPicture(s, x5) = <<rf>> \o x1
  BY ONLY <1>4, <1>8, Zenon DEF IsPicture
<1>11. /\ y1 \in Group /\ y2 \in Group /\ y3 \in Group /\ y4 \in Group
       /\ y4 = c0 \o y5 /\ y3 = k \o y4 /\ y2 = Stepped(s) \o y3 /\ y1 = z \o y2
       /\ FromPicture(s, y5) = <<rf>> \o y1
  BY ONLY <1>4, <1>9, Zenon DEF IsPicture
<1>12. At(Cursor, <<rf>> \o x1, <<rf>> \o y1, unit)
  <2>1. Between(<<rf>> \o x1, <<rf>> \o y1, s)
    BY ONLY <1>1, <1>4, <1>10, <1>11, Zenon
  <2> QED BY ONLY <1>2, <2>1, CursorAt, SpsTyped, Zenon
<1>13. PICK c1 : c1 = Copy(Cursor, <<ue>>) /\ At(c1, x1, y1, unit) /\ LastOf(c1) = s.refs
  <2>1. ue = rf.f /\ rf.v = s.refs
    BY ONLY <1>4 DEF F
  <2>2. Behind1(Copy(Cursor, <<ue>>), rf.v, x1, y1, unit)
    BY ONLY <1>10, <1>11, <1>12, <2>1, OneCopied, rf \in Fields, Zenon
  <2> QED BY ONLY <2>1, <2>2, Zenon DEF Behind1
<1>14. PICK c2 : /\ c2 = Copy(c1, <<u(1), ue, ue, u(1)>>) /\ At(c2, x2, y2, unit)
                 /\ Present(c2) <=> ~s.interlaced
  <2>1. PICK d \in Seq(Descs) : d = <<u(1), ue, ue, u(1)>>
    BY ONLY TupleDescs, Zenon
  <2>2. At(c1, z \o x2, z \o y2, unit) /\ Shape(z, d)
    BY ONLY <1>6, <1>10, <1>11, <1>13, <2>1, Zenon
  <2>3. PICK c2 : c2 = Copy(c1, d)
    BY Zenon
  <2>4. Over(c1, c2, z, x2, y2, unit)
    BY ONLY <1>6, <1>10, <1>11, <2>2, <2>3, GroupCopied, d \in Seq(Descs), Zenon
  <2>5. LastOf(c2) = z[Len(z)].v
    BY ONLY <1>6, <2>4, LastValue, Zenon
  <2> QED BY ONLY <1>6, <2>1, <2>3, <2>4, <2>5, Zenon DEF Over, Present
<1>15. PICK c3 : /\ c3 = IF Present(c2) THEN c2 ELSE Copy(c2, <<u(1)>>)
                 /\ At(c3, x3, y3, unit)
  <2>1. CASE s.interlaced
    <3>1. At(c2, <<Flag(TRUE)>> \o x3, <<Flag(TRUE)>> \o y3, unit)
      BY ONLY <1>10, <1>11, <1>14, <2>1, Zenon DEF Stepped
    <3>2. BehindFlag(Copy(c2, <<u(1)>>), TRUE, x3, y3, unit)
      BY ONLY <1>10, <1>11, <3>1, FlagCopied, TRUE \in BOOLEAN, Zenon
    <3> QED BY ONLY <1>14, <2>1, <3>2, Zenon DEF BehindFlag
  <2>2. CASE ~s.interlaced
    <3>1. x2 = x3 /\ y2 = y3
      BY ONLY <1>10, <1>11, <2>2, EmptyGroup, Zenon DEF Stepped
    <3> QED BY ONLY <1>14, <2>2, <3>1, Zenon
  <2> QED BY ONLY <2>1, <2>2, Zenon
<1>16. PICK c4 : /\ c4 = Copy(c3, <<u(1), u(1)>>) /\ At(c4, x4, y4, unit)
                 /\ Present(c4) <=> c0 # <<>>
  <2>1. PICK d \in Seq(Descs) : d = <<u(1), u(1)>>
    BY ONLY TupleDescs, Zenon
  <2>2. At(c3, k \o x4, k \o y4, unit) /\ Shape(k, d)
    BY ONLY <1>7, <1>10, <1>11, <1>15, <2>1, Zenon
  <2>3. PICK c4 : c4 = Copy(c3, d)
    BY Zenon
  <2>4. Over(c3, c4, k, x4, y4, unit)
    BY ONLY <1>7, <1>10, <1>11, <2>2, <2>3, GroupCopied, d \in Seq(Descs), Zenon
  <2>5. LastOf(c4) = k[Len(k)].v
    BY ONLY <1>7, <2>4, LastValue, Zenon
  <2> QED BY ONLY <1>7, <2>1, <2>3, <2>4, <2>5, Zenon DEF Over, Present
<1>17. PICK c5 : c5 = CopyIf(c4, Repeat(4, ue)) /\ At(c5, x5, y5, unit)
  <2>1. CASE c0 = <<>>
    <3>1. x4 = x5 /\ y4 = y5
      BY ONLY <1>10, <1>11, <2>1, EmptyGroup, x5 \in Group, y5 \in Group, Zenon
    <3> QED BY ONLY <1>16, <2>1, <3>1, Zenon DEF CopyIf
  <2>2. CASE c0 # <<>>
    <3>1. PICK d \in Seq(Descs) : d = Repeat(4, ue)
      <4>1. 4 \in Nat
        OBVIOUS
      <4> QED BY ONLY <4>1, DescsHere, RepeatType, Zenon
    <3>2. Over(c4, Copy(c4, d), c0, x5, y5, unit)
      BY ONLY <1>4, <1>10, <1>11, <1>16, <2>2, <3>1, GroupCopied, d \in Seq(Descs), c0 \in Group,
              x5 \in Group, y5 \in Group, Zenon
    <3> QED BY ONLY <1>16, <2>2, <3>1, <3>2, Zenon DEF CopyIf, Over
  <2> QED BY ONLY <2>1, <2>2, Zenon
<1>18. Take(c5, "vui?") /\ max_num_ref_frames' = LastOf(c1) /\ UNCHANGED <<chroma_format_idc, list, hrd>>
  BY ONLY <1>13, <1>14, <1>15, <1>16, <1>17, CopyPicture, Zenon DEF CopyPicture
<1>19. pc' = "vui?" /\ Between(x5, y5, s)'
  BY ONLY <1>2, <1>17, <1>18, TakeBetween, Zenon
<1>20. Between(OldVui(s), PutVui(s), s)' /\ ~hrd' /\ max_num_ref_frames' = s.refs
  BY ONLY <1>1, <1>4, <1>13, <1>18, <1>19, Zenon
<1> QED BY ONLY <1>19, <1>20, Zenon DEF RewriteAt
-----------------------------------------------------------------------------
(* The picture order count.                                                *)

\* The fields of one cycle, with their number in the fourth.
IsCycle(g, c1, c2, k) ==
    /\ c1 \in Group /\ c2 \in Group /\ g = c1 \o c2
    /\ Shape(c1, <<u(1), se, se, ue>>) /\ c1 # <<>>
    /\ k \in Nat /\ k = c1[Len(c1)].v /\ Shape(c2, Repeat(k, se))

\* The field of the type y, and what it brings with it.
IsPoc(p, y, g) ==
    /\ y \in Fields /\ y.f = ue /\ g \in Group /\ p = <<y>> \o g
    /\ \/ y.v = 0 /\ Shape(g, <<ue>>)
       \/ y.v = 1 /\ \E c1, c2, k : IsCycle(g, c1, c2, k)
       \/ y.v # 0 /\ y.v # 1 /\ g = <<>>

\* The first field of a group, alone.
LEMMA FirstAlone ==
    ASSUME NEW g \in Group, Shape(g, <<ue>>)
    PROVE  g[1] \in Fields /\ g[1].f = ue /\ g = <<g[1]>>
<1>1. g \in Seq(Fields) /\ Len(g) = 1 /\ 1 \in DOMAIN <<ue>> /\ <<ue>>[1] = ue
  BY ONLY g \in Group, Shape(g, <<ue>>), Len(<<ue>>) = 1 DEF Shape, Group
<1>2. g[1].f = ue
  BY ONLY <1>1, Shape(g, <<ue>>) DEF Shape
<1> QED BY ONLY <1>1, <1>2

\* The fields behind the first one.
IsBehindFirst(g, g2, b) ==
    /\ g[1] \in Fields /\ g[1].f = ue /\ g2 \in Group /\ g = <<g[1]>> \o g2 /\ Shape(g2, b)
    /\ Len(g2) = Len(b) /\ \A i \in 1 .. Len(b) : g2[i] = g[1 + i]

LEMMA FirstHalf ==
    ASSUME NEW g \in Group, NEW b, b \in Seq(Descs), Shape(g, <<ue>> \o b)
    PROVE  \E g2 : IsBehindFirst(g, g2, b)
<1>1. PICK a \in Seq(Descs) : a = <<ue>>
  BY ONLY TupleDescs, Zenon
<1>2. PICK g1, g2 : Halves(g, g1, g2, a, b)
  BY ONLY <1>1, GroupHalves, g \in Group, b \in Seq(Descs), a \in Seq(Descs), Shape(g, <<ue>> \o b), Zenon
<1>3. /\ g1 \in Group /\ g2 \in Group /\ g = g1 \o g2 /\ Shape(g1, <<ue>>) /\ Shape(g2, b)
      /\ Len(g2) = Len(b)
      /\ \A i \in 1 .. Len(a) : g1[i] = g[i]
      /\ \A i \in 1 .. Len(b) : g2[i] = g[Len(a) + i]
  BY ONLY <1>1, <1>2, Zenon DEF Halves
<1>4. Len(a) = 1
  BY ONLY <1>1
<1>5. g1[1] = g[1]
  <2>1. \A i \in 1 .. Len(a) : g1[i] = g[i]
    BY ONLY <1>3, Zenon
  <2> QED BY ONLY <1>4, <2>1
<1>6. g1[1] \in Fields /\ g1[1].f = ue /\ g1 = <<g1[1]>>
  BY ONLY <1>3, FirstAlone, Zenon
<1>7. \A i \in 1 .. Len(b) : g2[i] = g[1 + i]
  BY ONLY <1>3, <1>4
<1>8. IsBehindFirst(g, g2, b)
  BY ONLY <1>3, <1>5, <1>6, <1>7, Zenon DEF IsBehindFirst
<1> QED BY ONLY <1>8, Zenon

LEMMA PocSplit ==
    ASSUME NEW s, ValidSps(s)
    PROVE  \E y, g : IsPoc(s.poc, y, g)
<1>1. PICK p \in Group : p = s.poc
  BY ONLY SetParts, ValidSps(s), Zenon DEF IsSet
<1>2. /\ p[1].v \in Int \/ TRUE
      /\ \/ Shape(p, <<ue, ue>>) /\ p[1].v = 0
         \/ /\ p[1].v = 1 /\ Len(p) >= 5
            /\ Shape(p, <<ue, u(1), se, se, ue>> \o Repeat(p[5].v, se))
         \/ Shape(p, <<ue>>) /\ p[1].v > 1
  BY ONLY <1>1, ValidSps(s) DEF ValidSps
<1>3. <<ue, ue>> = <<ue>> \o <<ue>> /\ <<ue, u(1), se, se, ue>> = <<ue>> \o <<u(1), se, se, ue>>
  BY ONLY TRUE
<1>4. CASE Shape(p, <<ue, ue>>) /\ p[1].v = 0
  <2>1. Shape(p, <<ue>> \o <<ue>>) /\ <<ue>> \in Seq(Descs)
    BY ONLY <1>3, <1>4, TupleDescs, Zenon
  <2>2. PICK g2 : IsBehindFirst(p, g2, <<ue>>)
    BY ONLY <2>1, FirstHalf, p \in Group, Zenon
  <2>4. IsPoc(p, p[1], g2)
    BY ONLY <1>4, <2>2, Zenon DEF IsPoc, IsBehindFirst
  <2> QED BY ONLY <1>1, <2>4, Zenon
<1>5. CASE Shape(p, <<ue>>) /\ p[1].v > 1
  <2>1. p[1] \in Fields /\ p[1].f = ue /\ p = <<p[1]>>
    BY ONLY <1>5, FirstAlone, p \in Group, Zenon
  <2>2. <<p[1]>> \in Group
    BY ONLY <2>1, SingleGroup, Zenon
  <2>3. <<p[1]>> \o <<>> = <<p[1]>> /\ <<>> \in Group
    BY ONLY <2>2, EmptyGroup, Zenon
  <2>4. p[1].v # 0 /\ p[1].v # 1
    BY ONLY <1>5
  <2>5. IsPoc(p, p[1], <<>>)
    BY ONLY <2>1, <2>3, <2>4, Zenon DEF IsPoc
  <2> QED BY ONLY <1>1, <2>5, Zenon
<1>6. CASE p[1].v = 1 /\ Len(p) >= 5 /\ Shape(p, <<ue, u(1), se, se, ue>> \o Repeat(p[5].v, se))
  <2>1. PICK a \in Seq(Descs) : a = <<ue, u(1), se, se, ue>>
    <3>1. <<ue>> \o <<u(1), se, se, ue>> \in Seq(Descs)
      BY ONLY TupleDescs, ConcatType, Zenon
    <3> QED BY ONLY <1>3, <3>1, Zenon
  <2>2. Len(a) = 5 /\ a[5] = ue
    BY ONLY <2>1
  <2>3. p[5] \in Fields
    BY ONLY <1>6, p \in Group DEF Group
  <2>4. PICK k : k = p[5].v
    BY Zenon
  <2>5. p[5].f = ue
    <3>1. PICK r : r = Repeat(p[5].v, se)
      BY Zenon
    <3>2. r \in Seq({se})
      <4>1. DOMAIN r = 1 .. p[5].v /\ \A i \in DOMAIN r : r[i] = se
        BY ONLY <3>1 DEF Repeat
      <4>2. p[5].v \in Int
        BY ONLY <2>3, FieldDesc, Zenon
      <4> QED BY ONLY <3>1, <4>2 DEF Repeat
    <3>3. PICK q \in Seq(Descs) : q = r
      <4>1. se \in Descs
        BY ONLY DescsHere, Zenon
      <4> QED BY ONLY <3>2, <4>1
    <3>4. IsConcat(Descs, a \o q, a, q)
      BY ONLY ConcatAt, a \in Seq(Descs), q \in Seq(Descs), Zenon
    <3>5. (a \o q)[5] = ue /\ 5 \in DOMAIN (a \o q)
      BY ONLY <2>2, <3>4 DEF IsConcat
    <3>6. Shape(p, a \o q)
      BY ONLY <1>6, <2>1, <3>1, <3>3, Zenon
    <3> QED BY ONLY <3>5, <3>6 DEF Shape
  <2>6. k \in Nat
    <3>1. IsUe(p[5]) \/ IsU(p[5]) \/ IsSe(p[5])
      BY ONLY <2>3, FieldCases, Zenon
    <3> QED BY ONLY <2>4, <2>5, <3>1 DEF IsUe, IsU, IsSe, FitsUe, u, ue, se
  <2>7. PICK r \in Seq(Descs) : r = Repeat(k, se)
    BY ONLY <2>6, DescsHere, RepeatType, Zenon
  <2>8. PICK h, c2 : Halves(p, h, c2, a, r)
    BY ONLY <1>6, <2>1, <2>4, <2>7, GroupHalves, p \in Group, a \in Seq(Descs), r \in Seq(Descs), Zenon
  <2>9. h \in Group /\ c2 \in Group /\ p = h \o c2 /\ Shape(h, a) /\ Shape(c2, r)
    BY ONLY <2>8, Zenon DEF Halves
  <2>10. h[1] = p[1] /\ h[5] = p[5]
    <3>1. \A i \in 1 .. Len(a) : h[i] = p[i]
      BY ONLY <2>8, Zenon DEF Halves
    <3> QED BY ONLY <2>2, <3>1
  <2>11. PICK b \in Seq(Descs) : b = <<u(1), se, se, ue>>
    BY ONLY TupleDescs, Zenon
  <2>12. Shape(h, <<ue>> \o b)
    BY ONLY <1>3, <2>1, <2>9, <2>11, Zenon
  <2>13. PICK c1 : IsBehindFirst(h, c1, b)
    BY ONLY <2>9, <2>12, FirstHalf, b \in Seq(Descs), Zenon
  <2>14. /\ h[1] \in Fields /\ h[1].f = ue /\ c1 \in Group
         /\ h = <<h[1]>> \o c1 /\ Shape(c1, b) /\ Len(c1) = Len(b)
         /\ \A i \in 1 .. Len(b) : c1[i] = h[1 + i]
    BY ONLY <2>13, Zenon DEF IsBehindFirst
  <2>15. Len(c1) = 4 /\ c1[Len(c1)] = h[5]
    <3>1. Len(b) = 4
      BY ONLY <2>11
    <3> QED BY ONLY <2>14, <3>1
  <2>16. c1 # <<>>
    <3>1. Len(c1) # 0
      BY ONLY <2>15
    <3> QED BY ONLY <3>1
  <2>17. PICK g \in Group : g = c1 \o c2 /\ p = <<h[1]>> \o g
    <3>1. <<h[1]>> \in Group
      BY ONLY <2>14, SingleGroup, Zenon
    <3>2. Regroups(<<h[1]>>, c1, c2) /\ c1 \o c2 \in Group
      BY ONLY <3>1, <2>9, <2>14, GroupRegroups, Zenon
    <3> QED BY ONLY <2>9, <2>14, <3>2, Zenon DEF Regroups
  <2>18. IsCycle(g, c1, c2, k)
    BY ONLY <2>4, <2>6, <2>7, <2>9, <2>10, <2>11, <2>14, <2>15, <2>16, <2>17, Zenon DEF IsCycle
  <2>19. IsPoc(p, h[1], g)
    BY ONLY <1>6, <2>10, <2>14, <2>17, <2>18, Zenon DEF IsPoc
  <2> QED BY ONLY <1>1, <2>19, Zenon
<1> QED BY ONLY <1>2, <1>4, <1>5, <1>6

LEMMA PicOrderCntPart ==
    ASSUME NEW CONSTANT s, ValidSps(s), SpsTyped, RewriteAt(s), CopyPicOrderCnt
    PROVE  RewriteAt(s)'
<1>1. /\ pc = "frame_num" /\ ~hrd
      /\ Between(FromFrameNum(s, OldVui(s)), FromFrameNum(s, PutVui(s)), s)
  BY ONLY RewriteAt(s), CopyPicOrderCnt DEF RewriteAt, CopyPicOrderCnt
<1>2. PICK unit : unit = NewUnit(s)
  BY Zenon
<1>3. IsSet(s)
  BY ONLY SetParts, ValidSps(s), Zenon
<1>4. PICK y, g : IsPoc(s.poc, y, g)
  BY ONLY PocSplit, ValidSps(s), Zenon
<1>5. /\ y \in Fields /\ y.f = ue /\ g \in Group /\ s.poc = <<y>> \o g
      /\ \/ y.v = 0 /\ Shape(g, <<ue>>)
         \/ y.v = 1 /\ \E c1, c2, k : IsCycle(g, c1, c2, k)
         \/ y.v # 0 /\ y.v # 1 /\ g = <<>>
  BY ONLY <1>4, Zenon DEF IsPoc
<1>6. PICK z \in Fields : z = F(ue, 0) /\ z.f = ue
  <2>1. 0 \in 0 .. 16
    OBVIOUS
  <2> QED BY ONLY <2>1, UeField, Zenon
<1>7. PICK h : IsPair(h, z, y)
  BY ONLY <1>5, PairGroup, z \in Fields, Zenon
<1>8. h \in Group /\ h = <<z, y>> /\ Shape(h, <<ue, ue>>) /\ h # <<>> /\ h[Len(h)] = y
  BY ONLY <1>5, <1>6, <1>7, Zenon DEF IsPair
<1>9. PICK src \in Group, tgt \in Group : src = FromPicture(s, OldVui(s)) /\ tgt = FromPicture(s, PutVui(s))
  <2>1. OldVui(s) \in Group /\ PutVui(s) \in Group
    BY ONLY <1>3, Zenon DEF IsSet
  <2>2. PICK zz, k : IsSize(zz, s) /\ IsCropFlag(k, s)
    BY ONLY <1>3, SizeGroup, CropFlagGroup, Zenon
  <2>3. FromPicture(s, OldVui(s)) \in Group
    BY ONLY <1>3, <2>1, <2>2, PictureFields, Zenon DEF IsPicture
  <2>4. FromPicture(s, PutVui(s)) \in Group
    BY ONLY <1>3, <2>1, <2>2, PictureFields, Zenon DEF IsPicture
  <2> QED BY ONLY <2>3, <2>4, Zenon
<1>10. ASSUME NEW t \in Group
       PROVE  <<z>> \o (s.poc \o t) = h \o (g \o t) /\ g \o t \in Group
  <2>1. <<z, y>> = <<z>> \o <<y>>
    BY ONLY TRUE
  <2>2. <<z>> \in Group /\ <<y>> \in Group
    BY ONLY <1>5, SingleGroup, z \in Fields, Zenon
  <2>3. PICK gt \in Group : gt = g \o t
    BY ONLY GroupParts, <1>5, t \in Group, Zenon
  <2>4. Regroups(<<y>>, g, t) /\ Regroups(<<z>>, <<y>>, gt)
    BY ONLY <1>5, <2>2, <2>3, GroupRegroups, t \in Group, Zenon
  <2> QED BY ONLY <1>5, <1>8, <2>1, <2>3, <2>4, Zenon DEF Regroups
<1>11. At(Cursor, h \o (g \o src), h \o (g \o tgt), unit)
  <2>1. /\ FromFrameNum(s, OldVui(s)) = h \o (g \o src)
        /\ FromFrameNum(s, PutVui(s)) = h \o (g \o tgt)
    BY ONLY <1>6, <1>9, <1>10, Zenon DEF FromFrameNum
  <2> QED BY ONLY <1>1, <1>2, <2>1, CursorAt, SpsTyped, Zenon
<1>12. PICK c : c = Copy(Cursor, <<ue, ue>>) /\ At(c, g \o src, g \o tgt, unit) /\ LastOf(c) = y.v
  <2>1. PICK d \in Seq(Descs) : d = <<ue, ue>>
    BY ONLY TupleDescs, Zenon
  <2>2. PICK c : c = Copy(Cursor, d)
    BY Zenon
  <2>3. g \o src \in Group /\ g \o tgt \in Group
    BY ONLY <1>10, src \in Group, tgt \in Group, Zenon
  <2>4. Over(Cursor, c, h, g \o src, g \o tgt, unit)
    BY ONLY <1>8, <1>11, <2>1, <2>2, <2>3, GroupCopied, d \in Seq(Descs), Zenon
  <2>5. LastOf(c) = h[Len(h)].v
    BY ONLY <1>8, <2>4, LastValue, Zenon
  <2> QED BY ONLY <1>8, <2>1, <2>2, <2>4, <2>5, Zenon DEF Over
<1>13. PICK cycle : cycle = Copy(c, <<u(1), se, se, ue>>)
  BY Zenon
<1>14. PICK e : e = CASE LastOf(c) = 0 -> Copy(c, <<ue>>)
                      [] LastOf(c) = 1 -> Copy(cycle, Repeat(LastOf(cycle), se))
                      [] OTHER        -> c
  BY Zenon
<1>15. At(e, src, tgt, unit)
  <2>1. CASE y.v = 0 /\ Shape(g, <<ue>>)
    <3>1. e = Copy(c, <<ue>>)
      BY ONLY <1>12, <1>14, <2>1
    <3>2. PICK d \in Seq(Descs) : d = <<ue>>
      BY ONLY TupleDescs, Zenon
    <3>3. Over(c, Copy(c, d), g, src, tgt, unit)
      BY ONLY <1>5, <1>12, <2>1, <3>2, GroupCopied, d \in Seq(Descs), src \in Group, tgt \in Group, Zenon
    <3> QED BY ONLY <3>1, <3>2, <3>3, Zenon DEF Over
  <2>2. CASE y.v = 1 /\ \E c1, c2, k : IsCycle(g, c1, c2, k)
    <3>1. e = Copy(cycle, Repeat(LastOf(cycle), se))
      BY ONLY <1>12, <1>14, <2>2
    <3>2. PICK c1, c2, k : IsCycle(g, c1, c2, k)
      BY ONLY <2>2, Zenon
    <3>3. /\ c1 \in Group /\ c2 \in Group /\ g = c1 \o c2
          /\ Shape(c1, <<u(1), se, se, ue>>) /\ c1 # <<>>
          /\ k \in Nat /\ k = c1[Len(c1)].v /\ Shape(c2, Repeat(k, se))
      BY ONLY <3>2, Zenon DEF IsCycle
    <3>4. PICK ds \in Seq(Descs), dt \in Seq(Descs) : ds = <<u(1), se, se, ue>> /\ dt = Repeat(k, se)
      BY ONLY <3>3, TupleDescs, DescsHere, RepeatType, Zenon
    <3>5. /\ g \o src = c1 \o (c2 \o src) /\ c2 \o src \in Group
          /\ g \o tgt = c1 \o (c2 \o tgt) /\ c2 \o tgt \in Group
      <4>1. Regroups(c1, c2, src) /\ Regroups(c1, c2, tgt) /\ c2 \o src \in Group /\ c2 \o tgt \in Group
        BY ONLY <3>3, GroupRegroups, src \in Group, tgt \in Group, Zenon
      <4> QED BY ONLY <3>3, <4>1, Zenon DEF Regroups
    <3>6. Over(c, Copy(c, ds), c1, c2 \o src, c2 \o tgt, unit)
      <4>1. At(c, c1 \o (c2 \o src), c1 \o (c2 \o tgt), unit)
        BY ONLY <1>12, <3>5, Zenon
      <4> QED BY ONLY <3>3, <3>4, <3>5, <4>1, GroupCopied, ds \in Seq(Descs), Zenon
    <3>7. LastOf(cycle) = k /\ At(cycle, c2 \o src, c2 \o tgt, unit)
      <4>1. LastOf(Copy(c, ds)) = c1[Len(c1)].v
        BY ONLY <3>3, <3>6, LastValue, Zenon
      <4> QED BY ONLY <1>13, <3>3, <3>4, <3>6, <4>1, Zenon DEF Over
    <3>8. Over(cycle, Copy(cycle, dt), c2, src, tgt, unit)
      BY ONLY <3>3, <3>4, <3>7, GroupCopied, dt \in Seq(Descs), src \in Group, tgt \in Group, Zenon
    <3> QED BY ONLY <3>1, <3>4, <3>7, <3>8, Zenon DEF Over
  <2>3. CASE y.v # 0 /\ y.v # 1 /\ g = <<>>
    <3>1. e = c
      BY ONLY <1>12, <1>14, <2>3
    <3>2. g \o src = src /\ g \o tgt = tgt
      BY ONLY <2>3, EmptyGroup, src \in Group, tgt \in Group, Zenon
    <3> QED BY ONLY <1>12, <3>1, <3>2, Zenon
  <2> QED BY ONLY <1>5, <2>1, <2>2, <2>3, Zenon
<1>16. Take(e, "picture") /\ UNCHANGED <<chroma_format_idc, list, max_num_ref_frames, hrd>>
  BY ONLY <1>12, <1>13, <1>14, CopyPicOrderCnt DEF CopyPicOrderCnt
<1>17. pc' = "picture" /\ Between(src, tgt, s)'
  BY ONLY <1>2, <1>15, <1>16, TakeBetween, Zenon
<1>18. Between(FromPicture(s, OldVui(s)), FromPicture(s, PutVui(s)), s)' /\ ~hrd'
  BY ONLY <1>1, <1>9, <1>16, <1>17, Zenon
<1> QED BY ONLY <1>17, <1>18, Zenon DEF RewriteAt
-----------------------------------------------------------------------------
(* The scaling lists.                                                      *)

\* A list's deltas as fields.
IsDeltas(g, d) ==
    /\ g \in Group /\ Opt(g) = ListFields(d) /\ Len(d) \in Nat
    /\ g = <<>> <=> d = <<>>
    /\ Shape(g, Repeat(Len(d), se))

LEMMA DeltaGroup ==
    ASSUME NEW d \in Seq(Int), \A x \in Range(d) : F(se, x) \in Fields
    PROVE  \E g : IsDeltas(g, d)
<1>1. PICK g : g = [i \in 1 .. Len(d) |-> F(se, d[i])]
  BY Zenon
<1>2. \A i \in 1 .. Len(d) : F(se, d[i]) \in Fields
  BY ONLY d \in Seq(Int), \A x \in Range(d) : F(se, x) \in Fields DEF Range
<1>3. Len(d) \in Nat
  BY ONLY d \in Seq(Int)
<1>4. g \in Seq(Fields) /\ Len(g) = Len(d) /\ DOMAIN g = 1 .. Len(d)
  BY ONLY <1>1, <1>2, <1>3
<1>5. Opt(g) = ListFields(d)
  BY ONLY <1>1, Zenon DEF ListFields
<1>6. g = <<>> <=> d = <<>>
  BY ONLY <1>4, d \in Seq(Int)
<1>7. PICK r : r = Repeat(Len(d), se) /\ Len(r) = Len(d) /\ \A i \in 1 .. Len(d) : r[i] = se
  BY ONLY <1>3, DescsHere, RepeatType, Zenon
<1>8. \A i \in 1 .. Len(d) : g[i].f = se
  <2>1. ASSUME NEW i \in 1 .. Len(d) PROVE g[i].f = se
    <3>1. g[i] = F(se, d[i])
      BY ONLY <1>1, i \in 1 .. Len(d)
    <3> QED BY ONLY <3>1 DEF F
  <2> QED BY ONLY <2>1, Zenon
<1>9. Shape(g, r)
  <2>1. DOMAIN r = 1 .. Len(d)
    BY ONLY <1>7 DEF Repeat
  <2> QED BY ONLY <1>4, <1>7, <1>8, <2>1 DEF Shape
<1>10. IsDeltas(g, d)
  BY ONLY <1>3, <1>4, <1>5, <1>6, <1>7, <1>9, Zenon DEF IsDeltas, Group
<1> QED BY ONLY <1>10, Zenon

\* What is known of the lists of a set.
AreLists(s, l, n) ==
    /\ n \in Nat /\ n = Len(s.lists) /\ l \in Seq(Seq(Int)) /\ l = s.lists
    /\ n # 0 => n = (IF s.chroma # 3 THEN 8 ELSE 12)
    /\ n = 0 <=> s.lists = <<>>
    /\ \A i \in 1 .. n :
        /\ l[i] \in Seq(Int) /\ Len(l[i]) <= (IF i <= 6 THEN 16 ELSE 64)
        /\ \A x \in Range(l[i]) : F(se, x) \in Fields
        /\ ~EndsEarly(s) => l[i] = <<>> \/ Len(l[i]) >= (IF i <= 6 THEN 16 ELSE 64)

LEMMA ListsKnown ==
    ASSUME NEW s, ValidSps(s)
    PROVE  \E l, n : AreLists(s, l, n)
<1>1. PICK l : l = s.lists
  BY Zenon
<1>2. l \in Seq(Seq(Int))
  BY ONLY <1>1, ValidSps(s) DEF ValidSps, ParameterSets
<1>3. PICK n \in Nat : n = Len(l) /\ DOMAIN l = 1 .. n
  BY ONLY <1>2
<1>4. l # <<>> => Len(l) = (IF s.chroma # 3 THEN 8 ELSE 12)
  BY ONLY <1>1, ValidSps(s), Zenon DEF ValidSps
<1>5. n = 0 <=> l = <<>>
  BY ONLY <1>2, <1>3
<1>6. ASSUME NEW i \in 1 .. n
      PROVE  /\ l[i] \in Seq(Int) /\ Len(l[i]) <= (IF i <= 6 THEN 16 ELSE 64)
             /\ \A x \in Range(l[i]) : F(se, x) \in Fields
             /\ ~EndsEarly(s) => l[i] = <<>> \/ Len(l[i]) >= (IF i <= 6 THEN 16 ELSE 64)
  <2>1. l[i] \in Seq(Int) /\ i \in DOMAIN l
    BY ONLY <1>2, <1>3, i \in 1 .. n
  <2>2. \A j \in DOMAIN s.lists :
            /\ Len(s.lists[j]) <= (IF j <= 6 THEN 16 ELSE 64)
            /\ \A d \in Range(s.lists[j]) : F(se, d) \in Fields
    BY ONLY ValidSps(s), Zenon DEF ValidSps
  <2>3. Len(l[i]) <= (IF i <= 6 THEN 16 ELSE 64)
    BY ONLY <1>1, <2>1, <2>2
  <2>4. \A x \in Range(l[i]) : F(se, x) \in Fields
    BY ONLY <1>1, <2>1, <2>2, Zenon
  <2>5. ASSUME ~EndsEarly(s) PROVE l[i] = <<>> \/ Len(l[i]) >= (IF i <= 6 THEN 16 ELSE 64)
    <3>1. l[i] = <<>> \/ ~(Len(l[i]) < (IF i <= 6 THEN 16 ELSE 64))
      BY ONLY <1>1, <2>1, <2>5 DEF EndsEarly
    <3> QED BY ONLY <2>1, <3>1
  <2> QED BY ONLY <2>1, <2>3, <2>4, <2>5
<1>7. n # 0 => n = (IF s.chroma # 3 THEN 8 ELSE 12)
  BY ONLY <1>3, <1>4, <1>5
<1>8. AreLists(s, l, n)
  BY ONLY <1>1, <1>2, <1>3, <1>5, <1>6, <1>7 DEF AreLists
<1> QED BY ONLY <1>8, Zenon

\* The fields of a list, and what is behind them.
TailAt(s, l, g, i) == IsDeltas(g, l[i]) /\ ListTails(s)[i - 1] = Opt(g) \o ListTails(s)[i]

AreTails(s, l, n) ==
    /\ \A i \in 0 .. n : ListTails(s)[i] \in Group
    /\ ListTails(s)[n] = <<>> /\ ListTails(s)[0] = FlattenSeq(ListGroups(s))
    /\ \A i \in 1 .. n : \E g : TailAt(s, l, g, i)

LEMMA TailsKnown ==
    ASSUME NEW s, NEW l, NEW n, AreLists(s, l, n)
    PROVE  AreTails(s, l, n)
<1>1. n \in Nat /\ n = Len(l) /\ l \in Seq(Seq(Int)) /\ DOMAIN l = 1 .. n /\ l = s.lists
  BY ONLY AreLists(s, l, n) DEF AreLists
<1>2. ASSUME NEW i \in 1 .. n PROVE \E g : IsDeltas(g, l[i])
  <2>1. l[i] \in Seq(Int) /\ \A x \in Range(l[i]) : F(se, x) \in Fields
    BY ONLY AreLists(s, l, n), i \in 1 .. n, Zenon DEF AreLists
  <2> QED BY ONLY <2>1, DeltaGroup, Zenon
<1>3. PICK ss : ss = ListGroups(s)
  BY Zenon
<1>4. DOMAIN ss = 1 .. n /\ \A i \in 1 .. n : ss[i] = ListFields(l[i])
  BY ONLY <1>1, <1>3 DEF ListGroups
<1>5. ASSUME NEW i \in 1 .. n PROVE ss[i] \in Group
  <2>1. PICK g : IsDeltas(g, l[i])
    BY ONLY <1>2, i \in 1 .. n, Zenon
  <2>2. g \in Group /\ Opt(g) = ss[i]
    BY ONLY <1>4, <2>1, i \in 1 .. n, Zenon DEF IsDeltas
  <2> QED BY ONLY <2>2, OptGroup, Zenon
<1>6. ss \in Seq(Group) /\ Len(ss) = n
  <2>1. ss = [i \in 1 .. n |-> ss[i]]
    BY ONLY <1>1, <1>3, <1>4 DEF ListGroups
  <2>2. n \in Nat
    BY ONLY <1>1
  <2>3. ss \in [1 .. n -> Group]
    BY ONLY <1>5, <2>1, Zenon
  <2> QED BY ONLY <2>2, <2>3
<1>7. \E t : FlatTails(t, Fields, ss)
  BY ONLY <1>6, FlattenTails, Zenon DEF Group
<1>8. PICK t : FlatTails(t, Fields, ss) /\ t = ListTails(s)
  BY ONLY <1>3, <1>7, Zenon DEF ListTails
<1>9. /\ t \in [0 .. n -> Group] /\ t[n] = <<>> /\ t[0] = FlattenSeq(ss)
      /\ \A i \in 1 .. n : t[i - 1] = ss[i] \o t[i]
  BY ONLY <1>6, <1>8, Zenon DEF FlatTails, Group
<1>10. ASSUME NEW i \in 1 .. n PROVE \E g : TailAt(s, l, g, i)
  <2>1. PICK g : IsDeltas(g, l[i])
    BY ONLY <1>2, i \in 1 .. n, Zenon
  <2>2. Opt(g) = ss[i]
    BY ONLY <1>4, <2>1, i \in 1 .. n, Zenon DEF IsDeltas
  <2>3. TailAt(s, l, g, i)
    BY ONLY <1>8, <1>9, <2>1, <2>2, i \in 1 .. n, Zenon DEF TailAt
  <2> QED BY ONLY <2>3, Zenon
<1>11. \A i \in 0 .. n : t[i] \in Group
  BY ONLY <1>9, Zenon
<1> QED BY ONLY <1>3, <1>8, <1>9, <1>10, <1>11, Zenon DEF AreTails

LEMMA FrameNumGroups ==
    ASSUME NEW s, ValidSps(s), NEW t \in Group
    PROVE  FromPicture(s, t) \in Group /\ FromFrameNum(s, t) \in Group
<1>1. IsSet(s)
  BY ONLY SetParts, ValidSps(s), Zenon
<1>2. PICK zz, k : IsSize(zz, s) /\ IsCropFlag(k, s)
  BY ONLY <1>1, SizeGroup, CropFlagGroup, Zenon
<1>3. FromPicture(s, t) \in Group
  BY ONLY <1>1, <1>2, t \in Group, PictureFields, Zenon DEF IsPicture
<1>4. <<F(ue, 0)>> \in Group
  <2>1. 0 \in 0 .. 16
    OBVIOUS
  <2>2. F(ue, 0) \in Fields
    BY ONLY <2>1, UeField, Zenon
  <2> QED BY ONLY <2>2, SingleGroup, Zenon
<1>5. s.poc \o FromPicture(s, t) \in Group
  BY ONLY <1>1, <1>3, GroupParts, Zenon DEF IsSet
<1>6. FromFrameNum(s, t) \in Group
  BY ONLY <1>4, <1>5, GroupParts, Zenon DEF FromFrameNum
<1> QED BY ONLY <1>3, <1>6, Zenon

\* What is behind list i.
LEMMA FromListsNext ==
    ASSUME NEW s, NEW l, NEW n, AreLists(s, l, n), NEW i \in 1 .. n, NEW g, TailAt(s, l, g, i),
           NEW t, FromFrameNum(s, t) \in Group
    PROVE  /\ FromLists(s, i - 1, t) = Opt(g) \o FromLists(s, i, t)
           /\ FromLists(s, i, t) \in Group /\ g \in Group
<1>1. AreTails(s, l, n)
  BY ONLY TailsKnown, AreLists(s, l, n), Zenon
<1>2. g \in Group /\ ListTails(s)[i - 1] = Opt(g) \o ListTails(s)[i]
  BY ONLY TailAt(s, l, g, i), Zenon DEF TailAt, IsDeltas
<1>3. i \in 0 .. n
  BY ONLY i \in 1 .. n, AreLists(s, l, n) DEF AreLists
<1>4. ListTails(s)[i] \in Group
  BY ONLY <1>1, <1>3, Zenon DEF AreTails
<1>5. Regroups(Opt(g), ListTails(s)[i], FromFrameNum(s, t))
  BY ONLY <1>2, <1>4, OptGroup, GroupRegroups, FromFrameNum(s, t) \in Group, Zenon
<1>6. FromLists(s, i, t) \in Group
  BY ONLY <1>4, GroupParts, FromFrameNum(s, t) \in Group, Zenon DEF FromLists
<1> QED BY ONLY <1>2, <1>5, <1>6, Zenon DEF FromLists, Regroups

LEMMA FromListsEnd ==
    ASSUME NEW s, NEW l, NEW n, AreLists(s, l, n), NEW t, FromFrameNum(s, t) \in Group
    PROVE  /\ FromLists(s, n, t) = FromFrameNum(s, t)
           /\ FromLists(s, 0, t) \in Group
<1>1. AreTails(s, l, n)
  BY ONLY TailsKnown, AreLists(s, l, n), Zenon
<1>2. 0 \in 0 .. n
  BY ONLY AreLists(s, l, n) DEF AreLists
<1>3. ListTails(s)[0] \in Group /\ ListTails(s)[n] = <<>>
  BY ONLY <1>1, <1>2, Zenon DEF AreTails
<1>4. FromLists(s, n, t) = FromFrameNum(s, t)
  BY ONLY <1>3, EmptyGroup, FromFrameNum(s, t) \in Group, Zenon DEF FromLists
<1>5. FromLists(s, 0, t) \in Group
  BY ONLY <1>3, GroupParts, FromFrameNum(s, t) \in Group, Zenon DEF FromLists
<1> QED BY ONLY <1>4, <1>5, Zenon

LEMMA ListPart ==
    ASSUME NEW CONSTANT s, ValidSps(s), ~EndsEarly(s), SpsTyped, RewriteAt(s), CopyScalingList
    PROVE  RewriteAt(s)'
<1>1. /\ pc = "lists" /\ ~hrd /\ list < Len(s.lists) /\ chroma_format_idc = s.chroma
      /\ Between(FromLists(s, list, OldVui(s)), FromLists(s, list, PutVui(s)), s)
  BY ONLY RewriteAt(s), CopyScalingList DEF RewriteAt, CopyScalingList
<1>2. PICK unit : unit = NewUnit(s)
  BY Zenon
<1>3. PICK l, n : AreLists(s, l, n)
  BY ONLY ListsKnown, ValidSps(s), Zenon
<1>4. PICK i : i = list + 1 /\ i \in 1 .. n /\ i - 1 = list /\ (list < 6 <=> i <= 6) /\ i \in Nat
  <2>1. list \in 0 .. 12
    BY ONLY SpsTyped DEF SpsTyped
  <2>2. list < n /\ n \in Nat
    BY ONLY <1>1, <1>3 DEF AreLists
  <2> QED BY ONLY <2>1, <2>2
<1>5. n = (IF s.chroma # 3 THEN 8 ELSE 12)
  BY ONLY <1>3, <1>4 DEF AreLists
<1>6. PICK g : TailAt(s, l, g, i)
  <2>1. AreTails(s, l, n)
    BY ONLY <1>3, TailsKnown, Zenon
  <2> QED BY ONLY <1>4, <2>1, Zenon DEF AreTails
<1>7. PICK x \in Group, y \in Group : x = OldVui(s) /\ y = PutVui(s)
  <2>1. IsSet(s)
    BY ONLY SetParts, ValidSps(s), Zenon
  <2> QED BY ONLY <2>1, Zenon DEF IsSet
<1>8. FromFrameNum(s, x) \in Group /\ FromFrameNum(s, y) \in Group
  BY ONLY FrameNumGroups, ValidSps(s), x \in Group, y \in Group, Zenon
<1>9. PICK src \in Group, tgt \in Group :
        /\ src = FromLists(s, i, x) /\ tgt = FromLists(s, i, y)
        /\ FromLists(s, list, x) = Opt(g) \o src /\ FromLists(s, list, y) = Opt(g) \o tgt
        /\ g \in Group
  <2>1. /\ FromLists(s, i - 1, x) = Opt(g) \o FromLists(s, i, x)
        /\ FromLists(s, i, x) \in Group /\ g \in Group
    BY ONLY <1>3, <1>4, <1>6, <1>8, FromListsNext
  <2>2. /\ FromLists(s, i - 1, y) = Opt(g) \o FromLists(s, i, y)
        /\ FromLists(s, i, y) \in Group
    BY ONLY <1>3, <1>4, <1>6, <1>8, FromListsNext
  <2> QED BY ONLY <1>4, <2>1, <2>2, Zenon
<1>10. At(Cursor, Opt(g) \o src, Opt(g) \o tgt, unit)
  BY ONLY <1>1, <1>2, <1>7, <1>9, CursorAt, SpsTyped, Zenon
<1>11. PICK size \in Nat : size = IF list < 6 THEN 16 ELSE 64
  BY ONLY TRUE
<1>12. PICK ds \in Seq(Descs) : ds = Repeat(size, se)
  BY ONLY DescsHere, RepeatType, size \in Nat, Zenon
<1>13. g = <<>> \/ Shape(g, ds)
  <2>1. /\ g \in Group /\ Len(l[i]) \in Nat /\ (g = <<>> <=> l[i] = <<>>)
        /\ Shape(g, Repeat(Len(l[i]), se))
    BY ONLY <1>6, Zenon DEF TailAt, IsDeltas
  <2>2. /\ Len(l[i]) <= (IF i <= 6 THEN 16 ELSE 64)
        /\ l[i] = <<>> \/ Len(l[i]) >= (IF i <= 6 THEN 16 ELSE 64)
    BY ONLY <1>3, <1>4, ~EndsEarly(s) DEF AreLists
  <2>3. l[i] = <<>> \/ Len(l[i]) = size
    BY ONLY <1>4, <1>11, <2>1, <2>2
  <2> QED BY ONLY <1>12, <2>1, <2>3, Zenon
<1>14. PICK c : c = CopyIf(Copy(Cursor, <<u(1)>>), ds) /\ At(c, src, tgt, unit)
  <2>1. BehindOpt(CopyIf(Copy(Cursor, <<u(1)>>), ds), g, src, tgt, unit)
    BY ONLY <1>9, <1>10, <1>13, OptCopied, ds \in Seq(Descs), src \in Group, tgt \in Group, Zenon
  <2> QED BY ONLY <2>1, Zenon DEF BehindOpt
<1>15. PICK next : /\ next = IF i = n THEN "frame_num" ELSE "lists"
                   /\ Take(c, next) /\ list' = i /\ UNCHANGED <<chroma_format_idc, max_num_ref_frames, hrd>>
  <2>1. PICK count : count = IF chroma_format_idc # 3 THEN 8 ELSE 12
    BY Zenon
  <2>2. count = n
    BY ONLY <1>1, <1>5, <2>1
  <2>3. /\ Take(c, IF list + 1 = count THEN "frame_num" ELSE "lists")
        /\ list' = list + 1 /\ UNCHANGED <<chroma_format_idc, max_num_ref_frames, hrd>>
    BY ONLY <1>11, <1>12, <1>14, <2>1, CopyScalingList DEF CopyScalingList
  <2> QED BY ONLY <1>4, <2>2, <2>3, Zenon
<1>16. pc' = next /\ Between(src, tgt, s)'
  <2>1. At(c, src, tgt, NewUnit(s)) /\ Take(c, next)
    BY ONLY <1>2, <1>14, <1>15, Zenon
  <2> QED BY ONLY <2>1, TakeBetween, Zenon
<1>17. CASE i = n
  <2>1. src = FromFrameNum(s, x) /\ tgt = FromFrameNum(s, y)
    BY ONLY <1>3, <1>8, <1>9, <1>17, FromListsEnd, Zenon
  <2>2. Between(FromFrameNum(s, OldVui(s)), FromFrameNum(s, PutVui(s)), s)' /\ ~hrd' /\ pc' = "frame_num"
    BY ONLY <1>1, <1>7, <1>15, <1>16, <1>17, <2>1, Zenon
  <2> QED BY ONLY <2>2, Zenon DEF RewriteAt
<1>18. CASE i # n
  <2>1. list' < Len(s.lists)
    BY ONLY <1>3, <1>4, <1>15, <1>18 DEF AreLists
  <2>2. /\ Between(FromLists(s, list, OldVui(s)), FromLists(s, list, PutVui(s)), s)' /\ ~hrd'
        /\ pc' = "lists" /\ chroma_format_idc' = s.chroma
    BY ONLY <1>1, <1>7, <1>9, <1>15, <1>16, <1>18, Zenon
  <2> QED BY ONLY <2>1, <2>2, Zenon DEF RewriteAt
<1> QED BY ONLY <1>17, <1>18, Zenon
-----------------------------------------------------------------------------
(* The fields of a high profile.                                           *)

IsDepths(g, s) ==
    /\ g \in Group /\ g = BitDepths(s) /\ Shape(g, <<ue, ue, u(1), u(1)>>) /\ g # <<>>
    /\ g[Len(g)].v # 0 <=> s.lists # <<>>

LEMMA DepthsGroup ==
    ASSUME NEW s
    PROVE  \E g : IsDepths(g, s)
<1>1. PICK i \in BOOLEAN : i = (s.lists # <<>>)
  BY Zenon
<1>2. PICK c \in Fields, d \in Fields :
        /\ c = Flag(FALSE) /\ d = Flag(i) /\ c.f = u(1) /\ d.f = u(1)
        /\ d.v # 0 <=> i
  BY ONLY FlagField, FALSE \in BOOLEAN, i \in BOOLEAN, Zenon
<1>3. PICK a \in Fields, b \in Fields : a = F(ue, 0) /\ b = F(ue, 2) /\ a.f = ue /\ b.f = ue
  <2>1. 0 \in 0 .. 16 /\ 2 \in 0 .. 16
    OBVIOUS
  <2> QED BY ONLY <2>1, UeField, Zenon
<1>4. PICK g : IsFour(g, a, b, c, d)
  BY ONLY FourGroup, a \in Fields, b \in Fields, c \in Fields, d \in Fields, Zenon
<1>5. g \in Group /\ g = <<a, b, c, d>> /\ Shape(g, <<a.f, b.f, c.f, d.f>>) /\ g # <<>> /\ g[Len(g)] = d
  BY ONLY <1>4, Zenon DEF IsFour
<1>6. g = BitDepths(s)
  BY ONLY <1>1, <1>2, <1>3, <1>5, Zenon DEF BitDepths
<1>7. Shape(g, <<ue, ue, u(1), u(1)>>) /\ (g[Len(g)].v # 0 <=> s.lists # <<>>)
  BY ONLY <1>1, <1>2, <1>3, <1>5, Zenon
<1>8. IsDepths(g, s)
  BY ONLY <1>5, <1>6, <1>7, Zenon DEF IsDepths
<1> QED BY ONLY <1>8, Zenon

\* The fields from a high profile's on, with t behind the set.
IsHigh(s, t, d, x0, x1, x2) ==
    /\ IsDepths(d, s)
    /\ x0 \in Group /\ x1 \in Group /\ x2 \in Group
    /\ x0 = FromLists(s, 0, t) /\ x1 = d \o x0 /\ x2 = Plane(s) \o x1
    /\ FromHigh(s, t) = <<F(ue, s.chroma)>> \o x2

LEMMA HighParts ==
    ASSUME NEW s, ValidSps(s), NEW t \in Group, NEW d, IsDepths(d, s)
    PROVE  \E x0, x1, x2 : IsHigh(s, t, d, x0, x1, x2)
<1>1. IsSet(s)
  BY ONLY SetParts, ValidSps(s), Zenon
<1>2. PICK l, n : AreLists(s, l, n)
  BY ONLY ListsKnown, ValidSps(s), Zenon
<1>3. PICK x0 \in Group : x0 = FromLists(s, 0, t)
  BY ONLY <1>2, FrameNumGroups, FromListsEnd, ValidSps(s), t \in Group, Zenon
<1>4. PICK x1 \in Group : x1 = d \o x0
  BY ONLY GroupParts, x0 \in Group, IsDepths(d, s), Zenon DEF IsDepths
<1>5. PICK x2 \in Group : x2 = Plane(s) \o x1
  BY ONLY <1>1, GroupParts, x1 \in Group, Zenon DEF IsSet
<1>6. FromHigh(s, t) = <<F(ue, s.chroma)>> \o x2
  BY ONLY <1>3, <1>4, <1>5, IsDepths(d, s), Zenon DEF FromHigh, IsDepths
<1>7. IsHigh(s, t, d, x0, x1, x2)
  BY ONLY <1>3, <1>4, <1>5, <1>6, IsDepths(d, s), Zenon DEF IsHigh
<1> QED BY ONLY <1>7, Zenon

LEMMA HighPart ==
    ASSUME NEW CONSTANT s, ValidSps(s), SpsTyped, RewriteAt(s), CopyHighProfile
    PROVE  RewriteAt(s)'
<1>1. pc = "high" /\ ~hrd /\ Between(FromHigh(s, OldVui(s)), FromHigh(s, PutVui(s)), s)
  BY ONLY RewriteAt(s), CopyHighProfile DEF RewriteAt, CopyHighProfile
<1>2. PICK unit : unit = NewUnit(s)
  BY Zenon
<1>3. PICK x \in Group, y \in Group, cf \in Fields : x = OldVui(s) /\ y = PutVui(s) /\ cf = F(ue, s.chroma)
  <2>1. IsSet(s)
    BY ONLY SetParts, ValidSps(s), Zenon
  <2> QED BY ONLY <2>1, Zenon DEF IsSet
<1>4. PICK d : IsDepths(d, s)
  BY ONLY DepthsGroup, Zenon
<1>5. /\ d \in Group /\ Shape(d, <<ue, ue, u(1), u(1)>>) /\ d # <<>>
      /\ d[Len(d)].v # 0 <=> s.lists # <<>>
  BY ONLY <1>4, Zenon DEF IsDepths
<1>6. PICK x0, x1, x2 : IsHigh(s, x, d, x0, x1, x2)
  BY ONLY <1>4, HighParts, ValidSps(s), x \in Group, Zenon
<1>7. PICK y0, y1, y2 : IsHigh(s, y, d, y0, y1, y2)
  BY ONLY <1>4, HighParts, ValidSps(s), y \in Group, Zenon
<1>8. /\ x0 \in Group /\ x1 \in Group /\ x2 \in Group
      /\ x0 = FromLists(s, 0, x) /\ x1 = d \o x0 /\ x2 = Plane(s) \o x1
      /\ FromHigh(s, x) = <<cf>> \o x2
  BY ONLY <1>3, <1>6, Zenon DEF IsHigh
<1>9. /\ y0 \in Group /\ y1 \in Group /\ y2 \in Group
      /\ y0 = FromLists(s, 0, y) /\ y1 = d \o y0 /\ y2 = Plane(s) \o y1
      /\ FromHigh(s, y) = <<cf>> \o y2
  BY ONLY <1>3, <1>7, Zenon DEF IsHigh
<1>10. At(Cursor, <<cf>> \o x2, <<cf>> \o y2, unit)
  <2>1. Between(<<cf>> \o x2, <<cf>> \o y2, s)
    BY ONLY <1>1, <1>3, <1>8, <1>9, Zenon
  <2> QED BY ONLY <1>2, <2>1, CursorAt, SpsTyped, Zenon
<1>11. PICK c1 : c1 = Copy(Cursor, <<ue>>) /\ At(c1, x2, y2, unit) /\ LastOf(c1) = s.chroma
  <2>1. ue = cf.f /\ cf.v = s.chroma
    BY ONLY <1>3 DEF F
  <2>2. Behind1(Copy(Cursor, <<ue>>), cf.v, x2, y2, unit)
    BY ONLY <1>8, <1>9, <1>10, <2>1, OneCopied, cf \in Fields, Zenon
  <2> QED BY ONLY <2>1, <2>2, Zenon DEF Behind1
<1>12. PICK c2 : /\ c2 = IF LastOf(c1) = 3 THEN Copy(c1, <<u(1)>>) ELSE c1
                 /\ At(c2, x1, y1, unit)
  <2>1. CASE s.chroma = 3
    <3>1. At(c1, <<Flag(FALSE)>> \o x1, <<Flag(FALSE)>> \o y1, unit)
      BY ONLY <1>8, <1>9, <1>11, <2>1, Zenon DEF Plane
    <3>2. BehindFlag(Copy(c1, <<u(1)>>), FALSE, x1, y1, unit)
      BY ONLY <1>8, <1>9, <3>1, FlagCopied, FALSE \in BOOLEAN, Zenon
    <3> QED BY ONLY <1>11, <2>1, <3>2, Zenon DEF BehindFlag
  <2>2. CASE s.chroma # 3
    <3>1. x2 = x1 /\ y2 = y1
      BY ONLY <1>8, <1>9, <2>2, EmptyGroup, Zenon DEF Plane
    <3> QED BY ONLY <1>11, <2>2, <3>1, Zenon
  <2> QED BY ONLY <2>1, <2>2, Zenon
<1>13. PICK c3 : /\ c3 = Copy(c2, <<ue, ue, u(1), u(1)>>) /\ At(c3, x0, y0, unit)
                 /\ Present(c3) <=> s.lists # <<>>
  <2>1. PICK ds \in Seq(Descs) : ds = <<ue, ue, u(1), u(1)>>
    BY ONLY TupleDescs, Zenon
  <2>2. At(c2, d \o x0, d \o y0, unit) /\ Shape(d, ds)
    BY ONLY <1>5, <1>8, <1>9, <1>12, <2>1, Zenon
  <2>3. PICK c3 : c3 = Copy(c2, ds)
    BY Zenon
  <2>4. Over(c2, c3, d, x0, y0, unit)
    BY ONLY <1>5, <1>8, <1>9, <2>2, <2>3, GroupCopied, ds \in Seq(Descs), Zenon
  <2>5. LastOf(c3) = d[Len(d)].v
    BY ONLY <1>5, <2>4, LastValue, Zenon
  <2> QED BY ONLY <1>5, <2>1, <2>3, <2>4, <2>5, Zenon DEF Over, Present
<1>14. PICK next : /\ next = IF s.lists # <<>> THEN "lists" ELSE "frame_num"
                   /\ chroma_format_idc' = s.chroma /\ Take(c3, next)
                   /\ UNCHANGED <<list, max_num_ref_frames, hrd>>
  BY ONLY <1>11, <1>12, <1>13, CopyHighProfile, Zenon DEF CopyHighProfile
<1>15. pc' = next /\ Between(x0, y0, s)'
  <2>1. At(c3, x0, y0, NewUnit(s)) /\ Take(c3, next)
    BY ONLY <1>2, <1>13, <1>14, Zenon
  <2> QED BY ONLY <2>1, TakeBetween, Zenon
<1>16. PICK l, n : AreLists(s, l, n)
  BY ONLY ListsKnown, ValidSps(s), Zenon
<1>17. CASE s.lists # <<>>
  <2>1. list = 0
    BY ONLY <1>1, SpsTyped DEF SpsTyped
  <2>2. list' < Len(s.lists)
    <3>1. list' = 0 /\ n \in Nat /\ n # 0 /\ n = Len(s.lists)
      BY ONLY <1>14, <1>16, <1>17, <2>1, Zenon DEF AreLists
    <3> QED BY ONLY <3>1
  <2>3. /\ Between(FromLists(s, list, OldVui(s)), FromLists(s, list, PutVui(s)), s)' /\ ~hrd'
        /\ pc' = "lists" /\ chroma_format_idc' = s.chroma
    BY ONLY <1>1, <1>3, <1>8, <1>9, <1>14, <1>15, <1>17, <2>1, Zenon
  <2> QED BY ONLY <2>2, <2>3, Zenon DEF RewriteAt
<1>18. CASE s.lists = <<>>
  <2>1. n = 0
    BY ONLY <1>16, <1>18, Zenon DEF AreLists
  <2>2. FromFrameNum(s, x) \in Group /\ FromFrameNum(s, y) \in Group
    BY ONLY FrameNumGroups, ValidSps(s), x \in Group, y \in Group, Zenon
  <2>3. x0 = FromFrameNum(s, x) /\ y0 = FromFrameNum(s, y)
    BY ONLY <1>8, <1>9, <1>16, <2>1, <2>2, FromListsEnd, Zenon
  <2>4. /\ Between(FromFrameNum(s, OldVui(s)), FromFrameNum(s, PutVui(s)), s)' /\ ~hrd'
        /\ pc' = "frame_num"
    BY ONLY <1>1, <1>3, <1>14, <1>15, <1>18, <2>3, Zenon
  <2> QED BY ONLY <2>4, Zenon DEF RewriteAt
<1> QED BY ONLY <1>17, <1>18, Zenon

-----------------------------------------------------------------------------
(* The last part.                                                          *)

LEMMA FinishPart ==
    ASSUME NEW CONSTANT s, RewriteAt(s), Finish
    PROVE  RewriteAt(s)'
<1>1. pc = "stop" /\ WritesTo(writer, <<>>, NewUnit(s))
  BY ONLY RewriteAt(s), Finish DEF RewriteAt, Finish
<1>2. FlushFinal(WriteBits(writer, 1, 1)).arr = NewUnit(s)
  BY ONLY <1>1, UnitFinished, Zenon
<1>3. writer' = FlushFinal(WriteBits(writer, 1, 1)) /\ pc' = "rewritten"
  BY ONLY Finish, Zenon DEF Finish
<1>4. writer'.arr = NewUnit(s)
  BY ONLY <1>2, <1>3, Zenon
<1> QED BY ONLY <1>3, <1>4, Zenon DEF RewriteAt
-----------------------------------------------------------------------------
(* The fields of a whole set.                                              *)

IsTwo(a, b) == <<a, b>> = <<a>> \o <<b>>

LEMMA TwoFields ==
    ASSUME NEW a \in Fields, NEW b \in Fields
    PROVE  IsTwo(a, b)
<1>1. <<a, b>> = Append(<<a>>, b)
  BY ONLY TRUE
<1>2. <<a>> \in Seq(Fields)
  BY ONLY a \in Fields
<1>3. Append(<<a>>, b) = <<a>> \o <<b>>
  BY ONLY <1>2, AppendConcat, b \in Fields
<1> QED BY ONLY <1>1, <1>3, Zenon DEF IsTwo

LEMMA HighFieldsFrom ==
    ASSUME NEW s, ValidSps(s), NEW t \in Group
    PROVE  HighFields(s) \in Group /\ HighFields(s) \o FromFrameNum(s, t) = FromHigh(s, t)
<1>1. PICK x \in Group : x = FromFrameNum(s, t)
  BY ONLY FrameNumGroups, ValidSps(s), t \in Group, Zenon
<1>2. PICK l, n : AreLists(s, l, n)
  BY ONLY ListsKnown, ValidSps(s), Zenon
<1>3. PICK f \in Group : f = ListTails(s)[0] /\ f = FlattenSeq(ListGroups(s))
  <2>1. AreTails(s, l, n)
    BY ONLY <1>2, TailsKnown, Zenon
  <2>2. 0 \in 0 .. n
    BY ONLY <1>2 DEF AreLists
  <2> QED BY ONLY <2>1, <2>2, Zenon DEF AreTails
<1>4. PICK c \in Group, p \in Group : c = <<F(ue, s.chroma)>> /\ p = Plane(s)
  <2>1. F(ue, s.chroma) \in Fields /\ Plane(s) \in Group
    BY ONLY SetParts, ValidSps(s), Zenon DEF IsSet
  <2> QED BY ONLY <2>1, SingleGroup, Zenon
<1>5. PICK e \in Group : e = <<F(ue, 0), F(ue, 2), Flag(FALSE)>>
  <2>1. 0 \in 0 .. 16 /\ 2 \in 0 .. 16
    OBVIOUS
  <2>2. F(ue, 0) \in Fields /\ F(ue, 2) \in Fields /\ Flag(FALSE) \in Fields
    BY ONLY <2>1, UeField, FlagField, FALSE \in BOOLEAN, Zenon
  <2>3. PICK x1 \in Fields, x2 \in Fields, x3 \in Fields :
          x1 = F(ue, 0) /\ x2 = F(ue, 2) /\ x3 = Flag(FALSE)
    BY ONLY <2>2, Zenon
  <2>4. <<x1, x2, x3>> \in Seq(Fields)
    BY ONLY x1 \in Fields, x2 \in Fields, x3 \in Fields
  <2>5. <<F(ue, 0), F(ue, 2), Flag(FALSE)>> \in Group
    BY ONLY <2>3, <2>4, Zenon DEF Group
  <2> QED BY ONLY <2>5, Zenon
<1>6. PICK b \in Group : b = <<Flag(s.lists # <<>>)>>
  BY ONLY FlagGroup, Zenon
<1>7. PICK h1 \in Group, h2 \in Group, h3 \in Group, h4 \in Group :
          h1 = c \o p /\ h2 = h1 \o e /\ h3 = b \o f /\ h4 = h2 \o h3
  <2>1. PICK h1 \in Group : h1 = c \o p
    BY ONLY GroupParts, c \in Group, p \in Group, Zenon
  <2>2. PICK h2 \in Group : h2 = h1 \o e
    BY ONLY GroupParts, h1 \in Group, e \in Group, Zenon
  <2>3. PICK h3 \in Group : h3 = b \o f
    BY ONLY GroupParts, b \in Group, f \in Group, Zenon
  <2>4. PICK h4 \in Group : h4 = h2 \o h3
    BY ONLY GroupParts, h2 \in Group, h3 \in Group, Zenon
  <2> QED BY ONLY <2>1, <2>2, <2>3, <2>4, Zenon
<1>8. HighFields(s) = h4
  <2>1. ScalingFields(s.lists) = <<Flag(s.lists # <<>>)>> \o FlattenSeq(ListGroups(s))
    BY ONLY Zenon DEF ScalingFields, ListGroups
  <2>2. ScalingFields(s.lists) = h3
    BY ONLY <1>3, <1>6, <1>7, <2>1, Zenon
  <2>3. HighFields(s) = <<F(ue, s.chroma)>> \o Plane(s) \o <<F(ue, 0), F(ue, 2), Flag(FALSE)>>
                          \o ScalingFields(s.lists)
    BY ONLY Zenon DEF HighFields, Plane
  <2> QED BY ONLY <1>4, <1>5, <1>7, <2>2, <2>3, Zenon
<1>9. PICK z4 : IsJoined(z4, h4, h2, h3, x)
  BY ONLY <1>7, JoinBehind, h2 \in Group, h3 \in Group, x \in Group, Zenon
<1>10. z4 \in Group /\ z4 = h3 \o x /\ h4 \o x = h2 \o z4
  BY ONLY <1>9, Zenon DEF IsJoined
<1>11. PICK z3 : IsJoined(z3, h3, b, f, x)
  BY ONLY <1>7, JoinBehind, b \in Group, f \in Group, x \in Group, Zenon
<1>12. z3 \in Group /\ z3 = f \o x /\ h3 \o x = b \o z3
  BY ONLY <1>11, Zenon DEF IsJoined
<1>13. PICK z2 : IsJoined(z2, h2, h1, e, z4)
  BY ONLY <1>7, <1>10, JoinBehind, h1 \in Group, e \in Group, Zenon
<1>14. z2 \in Group /\ z2 = e \o z4 /\ h2 \o z4 = h1 \o z2
  BY ONLY <1>13, Zenon DEF IsJoined
<1>15. PICK z1 : IsJoined(z1, h1, c, p, z2)
  BY ONLY <1>7, <1>14, JoinBehind, c \in Group, p \in Group, Zenon
<1>16. z1 \in Group /\ z1 = p \o z2 /\ h1 \o z2 = c \o z1
  BY ONLY <1>15, Zenon DEF IsJoined
<1>17. z2 = BitDepths(s) \o z3
  <2>1. <<F(ue, 0), F(ue, 2), Flag(FALSE), Flag(s.lists # <<>>)>>
            = <<F(ue, 0), F(ue, 2), Flag(FALSE)>> \o <<Flag(s.lists # <<>>)>>
    <3>1. PICK a1, a2, a3, a4 :
            a1 = F(ue, 0) /\ a2 = F(ue, 2) /\ a3 = Flag(FALSE) /\ a4 = Flag(s.lists # <<>>)
      BY Zenon
    <3>2. <<a1, a2, a3, a4>> = <<a1, a2, a3>> \o <<a4>>
      BY ONLY TRUE
    <3> QED BY ONLY <3>1, <3>2, Zenon
  <2>2. BitDepths(s) = e \o b
    BY ONLY <1>5, <1>6, <2>1, Zenon DEF BitDepths
  <2>3. Regroups(e, b, z3)
    BY ONLY <1>12, GroupRegroups, e \in Group, b \in Group, Zenon
  <2> QED BY ONLY <1>10, <1>12, <1>14, <2>2, <2>3, Zenon DEF Regroups
<1>18. z3 = FromLists(s, 0, t)
  BY ONLY <1>1, <1>3, <1>12, Zenon DEF FromLists
<1>19. h4 \o x = FromHigh(s, t)
  BY ONLY <1>4, <1>10, <1>14, <1>16, <1>17, <1>18, Zenon DEF FromHigh
<1> QED BY ONLY <1>1, <1>8, <1>19, h4 \in Group, Zenon

\* The fields from the frame number on and up to the VUI's flag, behind a.
WithFrameNum(s, a) ==
    a \o <<F(ue, 0)>> \o s.poc
    \o <<F(ue, s.refs), Flag(FALSE), F(ue, s.width), F(ue, 3), Flag(~s.interlaced)>>
    \o Stepped(s) \o <<Flag(TRUE)>> \o Opt(s.crop)

IsWithFrameNum(s, a, t) ==
    WithFrameNum(s, a) \in Group /\ WithFrameNum(s, a) \o t = a \o FromFrameNum(s, t)

LEMMA FrameNumFieldsFrom ==
    ASSUME NEW s, ValidSps(s), NEW t \in Group, NEW a \in Group
    PROVE  IsWithFrameNum(s, a, t)
<1>1. IsSet(s)
  BY ONLY SetParts, ValidSps(s), Zenon
<1>2. PICK z \in Group, p \in Group, q \in Group, r \in Group : 
        z = <<F(ue, 0)>> /\ p = s.poc /\ q = <<F(ue, s.refs)>> /\ r = Size(s)
  <2>1. 0 \in 0 .. 16
    OBVIOUS
  <2>2. <<F(ue, 0)>> \in Group
    BY ONLY <2>1, UeField, SingleGroup, Zenon
  <2>3. Size(s) \in Group
    BY ONLY <1>1, SizeGroup, Zenon DEF IsSize
  <2>4. F(ue, s.refs) \in Fields /\ s.poc \in Group
    BY ONLY <1>1, Zenon DEF IsSet
  <2> QED BY ONLY <2>2, <2>3, <2>4, SingleGroup, Zenon
<1>3. PICK st \in Group, c \in Group, f \in Group, k \in Group, o \in Group :
        /\ st = Stepped(s) /\ c = s.crop /\ f = <<Flag(TRUE)>> /\ k = <<Flag(s.crop # <<>>)>>
        /\ o = Opt(s.crop)
  <2>1. Stepped(s) \in Group /\ s.crop \in Group
    BY ONLY <1>1, Zenon DEF IsSet
  <2>2. <<Flag(TRUE)>> \in Group /\ <<Flag(s.crop # <<>>)>> \in Group
    BY ONLY FlagGroup, Zenon
  <2> QED BY ONLY <2>1, <2>2, OptGroup, Zenon
<1>4. o = k \o c
  BY ONLY <1>3, Zenon DEF Opt
<1>5. PICK x2 \in Group, x3 \in Group, qr \in Group, x4 \in Group :
        x2 = a \o z /\ x3 = x2 \o p /\ qr = q \o r /\ x4 = x3 \o qr
  <2>1. PICK x2 \in Group : x2 = a \o z
    BY ONLY GroupParts, a \in Group, z \in Group, Zenon
  <2>2. PICK x3 \in Group : x3 = x2 \o p
    BY ONLY GroupParts, x2 \in Group, p \in Group, Zenon
  <2>3. PICK qr \in Group : qr = q \o r
    BY ONLY GroupParts, q \in Group, r \in Group, Zenon
  <2>4. PICK x4 \in Group : x4 = x3 \o qr
    BY ONLY GroupParts, x3 \in Group, qr \in Group, Zenon
  <2> QED BY ONLY <2>1, <2>2, <2>3, <2>4, Zenon
<1>6. PICK x5 \in Group, x6 \in Group, x7 \in Group :
        x5 = x4 \o st /\ x6 = x5 \o f /\ x7 = x6 \o o
  <2>1. PICK x5 \in Group : x5 = x4 \o st
    BY ONLY GroupParts, x4 \in Group, st \in Group, Zenon
  <2>2. PICK x6 \in Group : x6 = x5 \o f
    BY ONLY GroupParts, x5 \in Group, f \in Group, Zenon
  <2>3. PICK x7 \in Group : x7 = x6 \o o
    BY ONLY GroupParts, x6 \in Group, o \in Group, Zenon
  <2> QED BY ONLY <2>1, <2>2, <2>3, Zenon
<1>7. <<F(ue, s.refs), Flag(FALSE), F(ue, s.width), F(ue, 3), Flag(~s.interlaced)>> = qr
  <2>1. <<F(ue, s.refs), Flag(FALSE), F(ue, s.width), F(ue, 3), Flag(~s.interlaced)>>
           = <<F(ue, s.refs)>> \o <<Flag(FALSE), F(ue, s.width), F(ue, 3), Flag(~s.interlaced)>>
    <3>1. PICK a1, a2, a3, a4, a5 :
            /\ a1 = F(ue, s.refs) /\ a2 = Flag(FALSE) /\ a3 = F(ue, s.width) /\ a4 = F(ue, 3)
            /\ a5 = Flag(~s.interlaced)
      BY Zenon
    <3>2. <<a1, a2, a3, a4, a5>> = <<a1>> \o <<a2, a3, a4, a5>>
      BY ONLY TRUE
    <3> QED BY ONLY <3>1, <3>2, Zenon
  <2> QED BY ONLY <1>2, <1>5, <2>1, Zenon DEF Size
<1>9. PICK z7 : IsJoined(z7, x7, x6, o, t)
  BY ONLY <1>6, JoinBehind, x6 \in Group, o \in Group, t \in Group, Zenon
<1>10. z7 \in Group /\ z7 = o \o t /\ x7 \o t = x6 \o z7
  BY ONLY <1>9, Zenon DEF IsJoined
<1>11. PICK z6 : IsJoined(z6, x6, x5, f, z7)
  BY ONLY <1>6, <1>10, JoinBehind, x5 \in Group, f \in Group, Zenon
<1>12. z6 \in Group /\ z6 = f \o z7 /\ x6 \o z7 = x5 \o z6
  BY ONLY <1>11, Zenon DEF IsJoined
<1>13. PICK z5 : IsJoined(z5, x5, x4, st, z6)
  BY ONLY <1>6, <1>12, JoinBehind, x4 \in Group, st \in Group, Zenon
<1>14. z5 \in Group /\ z5 = st \o z6 /\ x5 \o z6 = x4 \o z5
  BY ONLY <1>13, Zenon DEF IsJoined
<1>15. PICK z4 : IsJoined(z4, x4, x3, qr, z5)
  BY ONLY <1>5, <1>14, JoinBehind, x3 \in Group, qr \in Group, Zenon
<1>16. z4 \in Group /\ z4 = qr \o z5 /\ x4 \o z5 = x3 \o z4
  BY ONLY <1>15, Zenon DEF IsJoined
<1>17. PICK z3 : IsJoined(z3, x3, x2, p, z4)
  BY ONLY <1>5, <1>16, JoinBehind, x2 \in Group, p \in Group, Zenon
<1>18. z3 \in Group /\ z3 = p \o z4 /\ x3 \o z4 = x2 \o z3
  BY ONLY <1>17, Zenon DEF IsJoined
<1>19. PICK z2 : IsJoined(z2, x2, a, z, z3)
  BY ONLY <1>5, <1>18, JoinBehind, a \in Group, z \in Group, Zenon
<1>20. z2 \in Group /\ z2 = z \o z3 /\ x2 \o z3 = a \o z2
  BY ONLY <1>19, Zenon DEF IsJoined
<1>21. PICK y6 \in Group, ct \in Group : ct = c \o t /\ y6 = (f \o k) \o ct /\ y6 = z6
  <2>1. PICK ct \in Group : ct = c \o t
    BY ONLY GroupParts, c \in Group, t \in Group, Zenon
  <2>2. PICK kc : IsJoined(kc, o, k, c, t)
    BY ONLY <1>4, JoinBehind, k \in Group, c \in Group, t \in Group, Zenon
  <2>3. z7 = k \o ct
    BY ONLY <1>10, <2>1, <2>2, Zenon DEF IsJoined
  <2>4. Regroups(f, k, ct)
    BY ONLY GroupRegroups, f \in Group, k \in Group, ct \in Group, Zenon
  <2> QED BY ONLY <1>12, <2>1, <2>3, <2>4, Zenon DEF Regroups
<1>22. z6 = <<Flag(TRUE), Flag(s.crop # <<>>)>> \o (s.crop \o t)
  <2>1. <<Flag(TRUE), Flag(s.crop # <<>>)>> = <<Flag(TRUE)>> \o <<Flag(s.crop # <<>>)>>
    <3>1. Flag(TRUE) \in Fields /\ Flag(s.crop # <<>>) \in Fields
      BY ONLY FlagField, Zenon
    <3> QED BY ONLY <3>1, TwoFields, Zenon DEF IsTwo
  <2> QED BY ONLY <1>3, <1>21, <2>1, Zenon
<1>23. z4 = q \o (r \o z5)
  <2>1. Regroups(q, r, z5)
    BY ONLY <1>14, GroupRegroups, q \in Group, r \in Group, Zenon
  <2> QED BY ONLY <1>5, <1>16, <2>1, Zenon DEF Regroups
<1>24. z4 = FromPicture(s, t)
  BY ONLY <1>2, <1>3, <1>14, <1>22, <1>23, Zenon DEF FromPicture, FromSize
<1>25. z2 = FromFrameNum(s, t)
  BY ONLY <1>2, <1>18, <1>20, <1>24, Zenon DEF FromFrameNum
<1>26. x7 \o t = a \o FromFrameNum(s, t)
  BY ONLY <1>10, <1>12, <1>14, <1>16, <1>18, <1>20, <1>25, Zenon
<1>27. WithFrameNum(s, a) = x7
  BY ONLY <1>2, <1>3, <1>5, <1>6, <1>7, Zenon DEF WithFrameNum
<1> QED BY ONLY <1>26, <1>27, x7 \in Group, Zenon DEF IsWithFrameNum

IsLevels(g, s) ==
    /\ g \in Group /\ g = Levels(s) /\ Shape(g, <<u(8), u(8), u(8), ue>>) /\ g # <<>> /\ Len(g) = 4
    /\ g[1].v = s.profile

LEMMA LevelsGroup ==
    ASSUME NEW s, ValidSps(s)
    PROVE  \E g : IsLevels(g, s)
<1>1. s.profile \in Byte /\ s.level \in Byte
  BY ONLY ValidSps(s) DEF ValidSps, ParameterSets
<1>2. 0 \in Byte /\ 0 \in 0 .. 16
  BY ONLY DEF Byte
<1>3. PICK a \in Fields, b \in Fields, c \in Fields, d \in Fields :
        /\ a = F(u(8), s.profile) /\ b = F(u(8), 0) /\ c = F(u(8), s.level) /\ d = F(ue, 0)
        /\ a.f = u(8) /\ b.f = u(8) /\ c.f = u(8) /\ d.f = ue /\ a.v = s.profile
  <2>1. PICK x \in Byte, y \in Byte, z \in Byte, w \in 0 .. 16 :
          x = s.profile /\ y = 0 /\ z = s.level /\ w = 0
    BY ONLY <1>1, <1>2, Zenon
  <2>2. PICK a \in Fields : a = F(u(8), x) /\ a.f = u(8) /\ a.v = x
    BY ONLY ByteField, x \in Byte, Zenon
  <2>3. PICK b \in Fields : b = F(u(8), y) /\ b.f = u(8)
    BY ONLY ByteField, y \in Byte, Zenon
  <2>4. PICK c \in Fields : c = F(u(8), z) /\ c.f = u(8)
    BY ONLY ByteField, z \in Byte, Zenon
  <2>5. PICK d \in Fields : d = F(ue, w) /\ d.f = ue
    BY ONLY UeField, w \in 0 .. 16, Zenon
  <2> QED BY ONLY <2>1, <2>2, <2>3, <2>4, <2>5, Zenon
<1>4. PICK g : IsFour(g, a, b, c, d)
  BY ONLY FourGroup, a \in Fields, b \in Fields, c \in Fields, d \in Fields, Zenon
<1>5. /\ g \in Group /\ g = <<a, b, c, d>> /\ Shape(g, <<a.f, b.f, c.f, d.f>>) /\ g # <<>>
      /\ Len(g) = 4 /\ g[1] = a
  BY ONLY <1>4, Zenon DEF IsFour
<1>6. g = Levels(s) /\ Shape(g, <<u(8), u(8), u(8), ue>>) /\ g[1].v = s.profile
  BY ONLY <1>3, <1>5, Zenon DEF Levels
<1>7. IsLevels(g, s)
  BY ONLY <1>5, <1>6, Zenon DEF IsLevels
<1> QED BY ONLY <1>7, Zenon

\* What SpsFields puts in front of the VUI's flag.
BeforeVui(s) ==
    WithFrameNum(s, Levels(s) \o (IF s.profile \in HighProfiles THEN HighFields(s) ELSE <<>>))

IsBeforeVui(s, t) ==
    BeforeVui(s) \in Group /\ BeforeVui(s) \o t = FromLevels(s, t) /\ FromLevels(s, t) \in Group

LEMMA BeforeVuiFrom ==
    ASSUME NEW s, ValidSps(s), NEW t \in Group
    PROVE  IsBeforeVui(s, t)
<1>1. PICK x \in Group : x = FromFrameNum(s, t)
  BY ONLY FrameNumGroups, ValidSps(s), t \in Group, Zenon
<1>2. PICK l \in Group : l = Levels(s)
  BY ONLY LevelsGroup, ValidSps(s), Zenon DEF IsLevels
<1>3. PICK h \in Group : h = IF s.profile \in HighProfiles THEN HighFields(s) ELSE <<>>
  <2>1. HighFields(s) \in Group
    BY ONLY HighFieldsFrom, ValidSps(s), t \in Group
  <2> QED BY ONLY <2>1, EmptyGroup, Zenon
<1>4. PICK f \in Group : f = h \o x
  BY ONLY GroupParts, h \in Group, x \in Group, Zenon
<1>5. f = IF s.profile \in HIGH_PROFILES THEN FromHigh(s, t) ELSE FromFrameNum(s, t)
  <2>1. s.profile \in HIGH_PROFILES <=> s.profile \in HighProfiles
    BY ONLY ValidSps(s), Zenon DEF ValidSps
  <2>2. CASE s.profile \in HighProfiles
    <3>1. HighFields(s) \o FromFrameNum(s, t) = FromHigh(s, t)
      BY ONLY HighFieldsFrom, ValidSps(s), t \in Group
    <3> QED BY ONLY <1>1, <1>3, <1>4, <2>1, <2>2, <3>1, Zenon
  <2>3. CASE s.profile \notin HighProfiles
    <3>1. f = x
      BY ONLY <1>3, <1>4, <2>3, EmptyGroup, x \in Group, Zenon
    <3> QED BY ONLY <1>1, <2>1, <2>3, <3>1, Zenon
  <2> QED BY ONLY <2>2, <2>3, Zenon
<1>6. PICK a \in Group : a = l \o h
  BY ONLY GroupParts, h \in Group, l \in Group, Zenon
<1>7. BeforeVui(s) \in Group /\ BeforeVui(s) \o t = a \o x
  <2>1. IsWithFrameNum(s, a, t)
    BY ONLY FrameNumFieldsFrom, ValidSps(s), t \in Group, a \in Group, Zenon
  <2>2. BeforeVui(s) = WithFrameNum(s, a)
    BY ONLY <1>2, <1>3, <1>6, Zenon DEF BeforeVui
  <2> QED BY ONLY <1>1, <2>1, <2>2, Zenon DEF IsWithFrameNum
<1>8. a \o x = l \o f /\ l \o f \in Group
  <2>1. Regroups(l, h, x)
    BY ONLY GroupRegroups, l \in Group, h \in Group, x \in Group, Zenon
  <2> QED BY ONLY <1>4, <1>6, <2>1, GroupParts, l \in Group, f \in Group, Zenon DEF Regroups
<1>9. FromLevels(s, t) = l \o f
  BY ONLY <1>2, <1>5, Zenon DEF FromLevels
<1> QED BY ONLY <1>7, <1>8, <1>9, Zenon DEF IsBeforeVui

\* The fields of the VUI, if there is one.
IsVuiFlat(w, x) == FlattenSeq([i \in DOMAIN w |-> VuiFields(w[i])]) = x

LEMMA VuiFlat ==
    ASSUME NEW w, NEW S, w \in Seq(S), Len(w) = 1, VuiParts(w[1])
    PROVE  IsVuiFlat(w, FromVui(w[1]))
<1>1. PICK x \in Group : x = FromVui(w[1]) /\ x = VuiFields(w[1])
  BY ONLY VuiFieldsFrom, VuiFromGroups, VuiParts(w[1]) DEF VuiFroms
<1>2. PICK ss : ss = [i \in DOMAIN w |-> VuiFields(w[i])]
  BY Zenon
<1>3. DOMAIN w = 1 .. 1
  BY ONLY w \in Seq(S), Len(w) = 1
<1>4. ss \in Seq(Seq(Fields)) /\ Len(ss) = 1 /\ ss[1] = x
  <2>1. x \in Seq(Fields)
    BY ONLY x \in Group, Zenon DEF Group
  <2>2. ss = [i \in 1 .. 1 |-> ss[i]] /\ ss[1] = x
    BY ONLY <1>1, <1>2, <1>3
  <2> QED BY ONLY <2>1, <2>2
<1>5. PICK t : FlatTails(t, Fields, ss)
  BY ONLY <1>4, FlattenTails, Zenon
<1>6. /\ t[0] = FlattenSeq(ss) /\ t[Len(ss)] = <<>>
      /\ \A i \in 1 .. Len(ss) : t[i - 1] = ss[i] \o t[i]
  BY ONLY <1>5, Zenon DEF FlatTails
<1>7. t[0] = x \o <<>>
  <2>1. t[1 - 1] = ss[1] \o t[1] /\ 1 - 1 = 0
    <3>1. 1 \in 1 .. Len(ss) /\ 1 - 1 = 0
      <4>1. Len(ss) = 1
        BY ONLY <1>4, Zenon
      <4> QED BY ONLY <4>1
    <3>2. t[1 - 1] = ss[1] \o t[1]
      BY ONLY <1>6, <3>1, Zenon
    <3> QED BY ONLY <3>1, <3>2
  <2> QED BY ONLY <1>4, <1>6, <2>1, Zenon
<1>8. FlattenSeq(ss) = x
  BY ONLY <1>6, <1>7, EmptyGroup, x \in Group, Zenon
<1> QED BY ONLY <1>1, <1>2, <1>8, Zenon DEF IsVuiFlat

LEMMA NoVuiFlat == IsVuiFlat(<<>>, <<>>)
<1>1. PICK ss : ss = [i \in DOMAIN <<>> |-> VuiFields(<<>>[i])]
  BY Zenon
<1>2. ss \in Seq(Seq(Fields)) /\ Len(ss) = 0
  BY ONLY <1>1
<1>3. PICK t : FlatTails(t, Fields, ss)
  BY ONLY <1>2, FlattenTails, Zenon
<1>4. t[0] = FlattenSeq(ss) /\ t[0] = <<>>
  BY ONLY <1>2, <1>3, Zenon DEF FlatTails
<1> QED BY ONLY <1>1, <1>4, Zenon DEF IsVuiFlat

\* The fields of the set that was sent, and of the one it is to become.
AreFields(s) ==
    /\ SpsUnit(s) = Unit(96 + SpsType, FromLevels(s, OldVui(s)))
    /\ NewUnit(s) = Unit(96 + SpsType, FromLevels(s, PutVui(s)))
    /\ FromLevels(s, OldVui(s)) \in Group /\ FromLevels(s, PutVui(s)) \in Group

LEMMA SpsFieldsFrom ==
    ASSUME NEW s, ValidSps(s)
    PROVE  AreFields(s)
<1>1. PICK o \in Group, p \in Group : o = OldVui(s) /\ p = PutVui(s)
  BY ONLY SetParts, ValidSps(s), Zenon DEF IsSet
<1>2. IsBeforeVui(s, o) /\ IsBeforeVui(s, p)
  BY ONLY BeforeVuiFrom, ValidSps(s), o \in Group, p \in Group, Zenon
<1>3. /\ BeforeVui(s) \in Group
      /\ BeforeVui(s) \o o = FromLevels(s, o) /\ FromLevels(s, o) \in Group
      /\ BeforeVui(s) \o p = FromLevels(s, p) /\ FromLevels(s, p) \in Group
  BY ONLY <1>2, Zenon DEF IsBeforeVui
<1>4. ASSUME NEW x PROVE SpsFields(x) = BeforeVui(x) \o <<Flag(x.vui # <<>>)>>
                            \o FlattenSeq([i \in DOMAIN x.vui |-> VuiFields(x.vui[i])])
  BY ONLY Zenon DEF SpsFields, BeforeVui, WithFrameNum, Levels, Stepped
<1>5. s.vui \in Seq(Vuis) /\ (s.vui # <<>> => Len(s.vui) = 1 /\ VuiParts(s.vui[1]))
  <2>1. s.vui \in Seq(Vuis)
    BY ONLY ValidSps(s) DEF ValidSps, ParameterSets
  <2>2. s.vui # <<>> => Len(s.vui) = 1 /\ VuiParts(s.vui[1])
    BY ONLY NewVuiOf, ValidSps(s), Zenon DEF IsUnordered
  <2> QED BY ONLY <2>1, <2>2, Zenon
<1>6. VuiParts(NewVui(s))
  <2>1. CASE s.vui = <<>>
    BY ONLY <2>1, NewVuiOf, ValidSps(s), Zenon DEF IsUnordered
  <2>2. CASE s.vui # <<>>
    BY ONLY <2>2, NewVuiOf, ValidSps(s), Zenon DEF IsUnordered
  <2> QED BY ONLY <2>1, <2>2, Zenon
<1>7. SpsFields(s) = FromLevels(s, o)
  <2>1. PICK v \in Group : v = FlattenSeq([i \in DOMAIN s.vui |-> VuiFields(s.vui[i])])
                           /\ v = (IF s.vui = <<>> THEN <<>> ELSE FromVui(s.vui[1]))
    <3>1. CASE s.vui = <<>>
      BY ONLY <3>1, NoVuiFlat, EmptyGroup, Zenon DEF IsVuiFlat
    <3>2. CASE s.vui # <<>>
      <4>1. FromVui(s.vui[1]) \in Group
        BY ONLY <1>5, <3>2, VuiFromGroups, Zenon DEF VuiFroms
      <4>2. IsVuiFlat(s.vui, FromVui(s.vui[1]))
        BY ONLY <1>5, <3>2, VuiFlat, Zenon
      <4> QED BY ONLY <3>2, <4>1, <4>2, Zenon DEF IsVuiFlat
    <3> QED BY ONLY <3>1, <3>2, Zenon
  <2>2. PICK b \in Group : b = <<Flag(s.vui # <<>>)>>
    BY ONLY FlagGroup, Zenon
  <2>3. Regroups(BeforeVui(s), b, v)
    BY ONLY <1>3, GroupRegroups, b \in Group, v \in Group, Zenon
  <2>4. o = b \o v
    BY ONLY <1>1, <2>1, <2>2, Zenon DEF OldVui
  <2>5. SpsFields(s) = (BeforeVui(s) \o b) \o v
    BY ONLY <1>4, <2>1, <2>2, Zenon
  <2> QED BY ONLY <1>3, <2>3, <2>4, <2>5, Zenon DEF Regroups
<1>8. PICK n, q : n = NewVui(s) /\ q = Patched(s)
  BY Zenon
<1>9. q = [s EXCEPT !.vui = <<n>>]
  BY ONLY <1>8, Zenon DEF Patched, NewVui
<1>10. q.profile = s.profile /\ q.level = s.level /\ q.chroma = s.chroma /\ q.lists = s.lists
  BY ONLY <1>9, ValidSps(s) DEF ValidSps, ParameterSets
<1>11. q.poc = s.poc /\ q.refs = s.refs /\ q.width = s.width /\ q.interlaced = s.interlaced
  BY ONLY <1>9, ValidSps(s) DEF ValidSps, ParameterSets
<1>12. q.crop = s.crop /\ q.vui = <<n>>
  BY ONLY <1>9, ValidSps(s) DEF ValidSps, ParameterSets
<1>13. BeforeVui(q) = BeforeVui(s)
  BY ONLY <1>10, <1>11, <1>12, Zenon DEF BeforeVui, WithFrameNum, Levels, Stepped, HighFields
<1>14. SpsFields(q) = FromLevels(s, p)
  <2>1. PICK w : w = <<n>>
    BY Zenon
  <2>2. w \in Seq({n}) /\ Len(w) = 1 /\ w[1] = n /\ w # <<>>
    BY ONLY <2>1
  <2>3. PICK v \in Group : v = FromVui(n)
    BY ONLY <1>6, <1>8, VuiFromGroups, Zenon DEF VuiFroms
  <2>4. IsVuiFlat(w, v)
    BY ONLY <1>6, <1>8, <2>2, <2>3, VuiFlat, Zenon
  <2>5. PICK b \in Group : b = <<Flag(TRUE)>> /\ b = <<Flag(w # <<>>)>>
    <3>1. (w # <<>>) = TRUE
      BY ONLY <2>2, Zenon
    <3> QED BY ONLY <3>1, FlagGroup, TRUE \in BOOLEAN, Zenon
  <2>6. SpsFields(q) = (BeforeVui(s) \o b) \o v
    BY ONLY <1>4, <1>12, <1>13, <2>1, <2>4, <2>5, Zenon DEF IsVuiFlat
  <2>7. Regroups(BeforeVui(s), b, v)
    BY ONLY <1>3, GroupRegroups, b \in Group, v \in Group, Zenon
  <2>8. p = b \o v
    BY ONLY <1>1, <1>8, <2>3, <2>5, Zenon DEF PutVui
  <2> QED BY ONLY <1>3, <2>6, <2>7, <2>8, Zenon DEF Regroups
<1> QED BY ONLY <1>1, <1>3, <1>7, <1>8, <1>14, Zenon DEF AreFields, SpsUnit, NewUnit

-----------------------------------------------------------------------------
(* The first part.                                                         *)

LEMMA HeaderByte == 96 + SpsType \in Byte /\ 96 + SpsType > 3
BY ONLY DEF SpsType, Byte

LEMMA BeginPart ==
    ASSUME NEW CONSTANT s, ValidSps(s), NEW nalu \in Bytes, UpToZeros(nalu, SpsUnit(s)), Begin(nalu)
    PROVE  RewriteAt(s)'
<1>1. PICK x \in Group, y \in Group : x = OldVui(s) /\ y = PutVui(s)
  BY ONLY SetParts, ValidSps(s), Zenon DEF IsSet
<1>2. PICK header \in Byte : header = 96 + SpsType /\ header > 3
  BY ONLY HeaderByte
<1>3. PICK src \in Group, tgt \in Group :
        /\ src = FromLevels(s, x) /\ tgt = FromLevels(s, y)
        /\ SpsUnit(s) = Unit(header, src) /\ NewUnit(s) = Unit(header, tgt)
  <2>1. AreFields(s)
    BY ONLY SpsFieldsFrom, ValidSps(s), Zenon
  <2> QED BY ONLY <1>1, <1>2, <2>1, Zenon DEF AreFields
<1>4. PICK unit : unit = NewUnit(s)
  BY Zenon
<1>5. ReadsTo(NewReader(Tail(nalu)), src) /\ Head(nalu) = header
  <2>1. UpToZeros(nalu, Unit(header, src))
    BY ONLY <1>3, UpToZeros(nalu, SpsUnit(s)), Zenon
  <2> QED BY ONLY <1>2, <2>1, BodyRead, nalu \in Bytes, src \in Group, header \in Byte
<1>6. WritesTo(WriteBits(NewWriter, header, 8), tgt, unit)
  <2>1. WritesTo(WriteBits(NewWriter, header, 8), tgt, Unit(header, tgt))
    BY ONLY <1>2, HeaderWritten, tgt \in Group, header \in Byte
  <2> QED BY ONLY <1>3, <1>4, <2>1, Zenon
<1>7. PICK start : start = [reader |-> NewReader(Tail(nalu)),
                            writer |-> WriteBits(NewWriter, Head(nalu), 8), vals |-> <<>>]
  BY Zenon
<1>8. PICK r, w : r = NewReader(Tail(nalu)) /\ w = WriteBits(NewWriter, Head(nalu), 8)
  BY Zenon
<1>9. ReadsTo(r, src) /\ WritesTo(w, tgt, unit) /\ start = [reader |-> r, writer |-> w, vals |-> <<>>]
  BY ONLY <1>5, <1>6, <1>7, <1>8, Zenon
<1>10. At(start, src, tgt, unit)
  <2>1. start.reader = r /\ start.writer = w
    BY ONLY <1>9
  <2>2. r \in Readers(r.buffer) /\ w \in Writers
    BY ONLY <1>9, ReaderParts, Zenon DEF WritesTo
  <2>3. start \in Cursors(r.buffer)
    BY ONLY <1>9, <2>2 DEF Cursors
  <2> QED BY ONLY <1>9, <2>1, <2>3, Zenon DEF At
<1>11. PICK g : IsLevels(g, s)
  BY ONLY LevelsGroup, ValidSps(s), Zenon
<1>12. /\ g \in Group /\ g = Levels(s) /\ Shape(g, <<u(8), u(8), u(8), ue>>) /\ g # <<>> /\ Len(g) = 4
       /\ g[1].v = s.profile
  BY ONLY <1>11, Zenon DEF IsLevels
<1>13. PICK xs, ys : /\ xs = IF s.profile \in HIGH_PROFILES THEN FromHigh(s, x) ELSE FromFrameNum(s, x)
                     /\ ys = IF s.profile \in HIGH_PROFILES THEN FromHigh(s, y) ELSE FromFrameNum(s, y)
                     /\ xs \in Group /\ ys \in Group
  <2>1. PICK d : IsDepths(d, s)
    BY ONLY DepthsGroup, Zenon
  <2>2. F(ue, s.chroma) \in Fields
    BY ONLY SetParts, ValidSps(s), Zenon DEF IsSet
  <2>3. ASSUME NEW t \in Group PROVE FromHigh(s, t) \in Group
    <3>1. PICK x0, x1, x2 : IsHigh(s, t, d, x0, x1, x2)
      BY ONLY <2>1, HighParts, ValidSps(s), t \in Group, Zenon
    <3> QED BY ONLY <2>2, <3>1, SingleGroup, GroupParts, Zenon DEF IsHigh
  <2>4. /\ FromHigh(s, x) \in Group /\ FromHigh(s, y) \in Group
        /\ FromFrameNum(s, x) \in Group /\ FromFrameNum(s, y) \in Group
    BY ONLY <2>3, FrameNumGroups, ValidSps(s), x \in Group, y \in Group, Zenon
  <2> QED BY ONLY <2>4, Zenon
<1>14. At(start, g \o xs, g \o ys, unit)
  BY ONLY <1>3, <1>10, <1>12, <1>13, Zenon DEF FromLevels
<1>15. PICK c : /\ c = Copy(start, <<u(8), u(8), u(8), ue>>) /\ At(c, xs, ys, unit)
                /\ c.vals[1] = s.profile
  <2>1. PICK d \in Seq(Descs) : d = <<u(8), u(8), u(8), ue>>
    BY ONLY TupleDescs, Zenon
  <2>2. PICK c : c = Copy(start, d)
    BY Zenon
  <2>3. Over(start, c, g, xs, ys, unit)
    BY ONLY <1>12, <1>13, <1>14, <2>1, <2>2, GroupCopied, d \in Seq(Descs), Zenon
  <2>4. ValsAre(c.vals, g, Len(g))
    BY ONLY <2>3, Zenon DEF Over
  <2>5. c.vals[1] = s.profile
    <3>1. \A i \in 1 .. Len(g) : c.vals[i] = g[i].v
      BY ONLY <2>4, Zenon DEF ValsAre
    <3>2. 1 \in 1 .. Len(g)
      <4>1. PICK n \in Nat : n = 4 /\ Len(g) = n
        BY ONLY <1>12
      <4> QED BY ONLY <4>1
    <3> QED BY ONLY <1>12, <3>1, <3>2, Zenon
  <2> QED BY ONLY <2>1, <2>2, <2>3, <2>5, Zenon DEF Over
<1>16. PICK next : next = IF s.profile \in HIGH_PROFILES THEN "high" ELSE "frame_num"
  BY Zenon
<1>17. Take(c, next) /\ hrd' = FALSE
  BY ONLY <1>7, <1>15, <1>16, Begin(nalu), Zenon DEF Begin
<1>18. pc' = next /\ Between(xs, ys, s)'
  <2>1. At(c, xs, ys, NewUnit(s)) /\ Take(c, next)
    BY ONLY <1>4, <1>15, <1>17, Zenon
  <2> QED BY ONLY <2>1, TakeBetween, Zenon
<1>19. CASE s.profile \in HIGH_PROFILES
  <2>1. pc' = "high" /\ ~hrd' /\ Between(FromHigh(s, OldVui(s)), FromHigh(s, PutVui(s)), s)'
    BY ONLY <1>1, <1>13, <1>16, <1>17, <1>18, <1>19, Zenon
  <2> QED BY ONLY <2>1, Zenon DEF RewriteAt
<1>20. CASE s.profile \notin HIGH_PROFILES
  <2>1. pc' = "frame_num" /\ ~hrd'
        /\ Between(FromFrameNum(s, OldVui(s)), FromFrameNum(s, PutVui(s)), s)'
    BY ONLY <1>1, <1>13, <1>16, <1>17, <1>18, <1>20, Zenon
  <2> QED BY ONLY <2>1, Zenon DEF RewriteAt
<1> QED BY ONLY <1>19, <1>20, Zenon
-----------------------------------------------------------------------------
(* The rewriter over a whole set.                                          *)

\* Each part leaves the rewriter at the fields of the next.
LEMMA RewriteStep ==
    ASSUME NEW CONSTANT s, ValidSps(s), ~EndsEarly(s), SpsTyped, RewriteAt(s), RewriteSps
    PROVE  RewriteAt(s)'
<1>1. CASE CopyHighProfile
  BY ONLY ValidSps(s), SpsTyped, RewriteAt(s), <1>1, HighPart
<1>2. CASE CopyScalingList
  BY ONLY ValidSps(s), ~EndsEarly(s), SpsTyped, RewriteAt(s), <1>2, ListPart
<1>3. CASE CopyPicOrderCnt
  BY ONLY ValidSps(s), SpsTyped, RewriteAt(s), <1>3, PicOrderCntPart
<1>4. CASE CopyPicture
  BY ONLY ValidSps(s), SpsTyped, RewriteAt(s), <1>4, PicturePart
<1>5. CASE CopyVuiFlag
  BY ONLY ValidSps(s), SpsTyped, RewriteAt(s), <1>5, VuiFlagPart
<1>6. CASE CopyVui
  BY ONLY ValidSps(s), SpsTyped, RewriteAt(s), <1>6, VuiPart
<1>7. CASE CopyHrd("nal_hrd", "vcl_hrd")
  BY ONLY ValidSps(s), SpsTyped, RewriteAt(s), <1>7, NalHrdPart
<1>8. CASE CopyHrd("vcl_hrd", "restriction")
  BY ONLY ValidSps(s), SpsTyped, RewriteAt(s), <1>8, VclHrdPart
<1>9. CASE CopyRestriction
  BY ONLY ValidSps(s), SpsTyped, RewriteAt(s), <1>9, RestrictionPart
<1>10. CASE Finish
  BY ONLY RewriteAt(s), <1>10, FinishPart
<1> QED BY <1>1, <1>2, <1>3, <1>4, <1>5, <1>6, <1>7, <1>8, <1>9, <1>10 DEF RewriteSps

\* The unit nalus begins with, behind k others.
CurrentAt(k) ==
    /\ Len(input) \in Nat /\ Len(nalus) = Len(input) - k
    /\ out = <<>> => k = 0
    /\ nalus = <<>> <=> k = Len(input)
    /\ pc \in SpsParts \cup {"rewritten", "panicked"} => k < Len(input) /\ Current.sps # <<>>
    /\ k < Len(input) =>
        /\ k + 1 \in 1 .. Len(input) /\ Current = input[k + 1]
        /\ Head(nalus) = Found(input, k + 1) /\ Head(nalus) \in Bytes
        /\ Len(Tail(nalus)) = Len(input) - (k + 1)
        /\ nal_unit_type(Head(nalus)) = Sps <=> Current.sps # <<>>
        /\ Current.sps # <<>> =>
            ValidSps(Current.sps[1]) /\ UpToZeros(Head(nalus), SpsUnit(Current.sps[1]))

\* The sets of a frame.
LEMMA FrameSets ==
    ASSUME NEW f \in Frames, NEW i \in 1 .. Len(f), f[i].sps # <<>>
    PROVE  ValidSps(f[i].sps[1]) /\ Len(f[i].sps) = 1
<1>1. Len(f) \in Nat /\ DOMAIN f = 1 .. Len(f)
  BY FrameParts
<1>2. i \in DOMAIN f
  BY <1>1
<1>3. /\ f[i].sps \in Seq(ParameterSets) /\ Len(f[i].sps) <= 1
      /\ f[i].sps # <<>> => ValidSps(f[i].sps[1])
  BY ONLY <1>2, f \in Frames, FramesAssumption, Zenon
<1>4. PICK x \in Seq(ParameterSets) : x = f[i].sps /\ Len(x) <= 1 /\ x # <<>>
  BY <1>3, Zenon
<1>5. Len(x) = 1
  <2>1. \A S : \A q \in Seq(S) : Len(q) \in Nat /\ (Len(q) = 0 => q = <<>>)
    OBVIOUS
  <2>2. PICK n \in Nat : n = Len(x) /\ n # 0 /\ n <= 1
    BY ONLY <1>4, <2>1, x \in Seq(ParameterSets), Zenon
  <2>3. n = 1
    BY ONLY <2>2, n \in Nat
  <2> QED BY ONLY <2>2, <2>3, Zenon
<1> QED BY <1>3, <1>4, <1>5, Zenon

LEMMA AtCurrent ==
    ASSUME FrameInv, pc # "split"
    PROVE  \E k \in 0 .. Len(input) : CurrentAt(k)
<1>1. PICK k \in 0 .. Len(input) :
             /\ Len(input) \in Nat
             /\ nalus = SubSeq(FoundUnits(input), k + 1, Len(input))
             /\ out = <<>> => k = 0
             /\ nalus = <<>> <=> k = Len(input)
             /\ pc \in SpsParts \cup {"rewritten", "panicked"} =>
                 k < Len(input) /\ out # <<>> /\ input[k + 1].sps # <<>>
             /\ k < Len(input) =>
                 /\ k + 1 \in 1 .. Len(input)
                 /\ Head(nalus) = Found(input, k + 1) /\ Head(nalus) \in Bytes /\ Head(nalus) # <<>>
                 /\ Tail(nalus) = SubSeq(FoundUnits(input), (k + 1) + 1, Len(input))
                 /\ k + 1 \in 0 .. Len(input)
                 /\ nal_unit_type(Head(nalus)) = Sps <=> input[k + 1].sps # <<>>
  BY ONLY FrameInv, pc # "split", AtUnit, Zenon
<1>2. input \in Frames
  BY DEF FrameInv
<1>3. PICK found \in Seq(Bytes \ {<<>>}), n \in Nat :
        found = FoundUnits(input) /\ n = Len(input) /\ Len(found) = n
  BY ONLY <1>1, <1>2, FoundUnitsType, Zenon
<1>4. nalus = SubSeq(found, k + 1, n) /\ k \in 0 .. n
  BY ONLY <1>1, <1>3, Zenon
<1>5. Len(nalus) = n - k
  BY ONLY <1>3, <1>4
<1>6. Len(input) - Len(nalus) + 1 = k + 1
  <2>1. PICK a : a = Len(nalus) /\ a = n - k
    BY ONLY <1>5, Zenon
  <2>2. n - a + 1 = k + 1
    BY ONLY <2>1, <1>4, n \in Nat
  <2> QED BY ONLY <1>3, <2>1, <2>2, Zenon
<1>7. Current = input[k + 1]
  BY ONLY <1>6, Zenon DEF Current
<1>8. ASSUME k < Len(input)
      PROVE  /\ Len(Tail(nalus)) = Len(input) - (k + 1)
             /\ Current.sps # <<>> =>
                 ValidSps(Current.sps[1]) /\ UpToZeros(Head(nalus), SpsUnit(Current.sps[1]))
  <2>1. Len(Tail(nalus)) = n - (k + 1)
    <3>1. PICK t : t = Tail(nalus) /\ t = SubSeq(found, (k + 1) + 1, n) /\ k + 1 \in 0 .. n
      BY ONLY <1>1, <1>3, <1>8, Zenon
    <3>2. PICK j \in 0 .. n : j = k + 1
      BY ONLY <3>1, Zenon
    <3>3. t = SubSeq(found, j + 1, n)
      BY ONLY <3>1, <3>2, Zenon
    <3>4. Len(t) = n - j
      BY ONLY <1>3, <3>2, <3>3
    <3> QED BY ONLY <3>1, <3>2, <3>4, Zenon
  <2>2. ASSUME Current.sps # <<>>
        PROVE  ValidSps(Current.sps[1]) /\ UpToZeros(Head(nalus), SpsUnit(Current.sps[1]))
    <3>1. PICK i \in 1 .. Len(input) : i = k + 1 /\ Head(nalus) = Found(input, i)
      BY ONLY <1>1, <1>8, Zenon
    <3>2. input[i].sps # <<>> /\ Current = input[i]
      BY ONLY <1>7, <2>2, <3>1, Zenon
    <3>3. ValidSps(input[i].sps[1])
      BY ONLY <1>2, <3>2, FrameSets
    <3>4. input[i].unit = SpsUnit(input[i].sps[1])
      BY ONLY <1>2, <3>2, FrameParts, i \in 1 .. Len(input), Zenon
    <3>5. UpToZeros(Found(input, i), input[i].unit)
      BY ONLY <1>2, FoundType, i \in 1 .. Len(input)
    <3> QED BY ONLY <3>1, <3>2, <3>3, <3>4, <3>5, Zenon
  <2> QED BY ONLY <1>3, <2>1, <2>2, Zenon
<1> QED BY ONLY <1>1, <1>3, <1>5, <1>7, <1>8, Zenon DEF CurrentAt

-----------------------------------------------------------------------------
(* The set that is rewritten.                                              *)

(* Inductive: the rewriter is where the set that was sent and the set it is *)
(* to become have it, and so it has not panicked.                          *)
RewriteInv ==
    pc \in SpsParts \cup {"rewritten", "panicked"} =>
        (~EndsEarly(Current.sps[1]) => RewriteAt(Current.sps[1]))

LEMMA BeginRewrites == FrameInv /\ BeginSps => RewriteInv'
<1> SUFFICES ASSUME FrameInv, BeginSps PROVE RewriteInv'
  OBVIOUS
<1>1. /\ pc = "units" /\ nalus # <<>> /\ nal_unit_type(Head(nalus)) = Sps /\ Begin(Head(nalus))
      /\ UNCHANGED <<input, nalus>>
  BY DEF BeginSps
<1>2. PICK k \in 0 .. Len(input) : CurrentAt(k)
  <2>1. pc # "split"
    BY <1>1
  <2> QED BY ONLY FrameInv, <2>1, AtCurrent
<1>3. k < Len(input)
  <2>1. k # Len(input) /\ Len(input) \in Nat
    BY ONLY <1>1, <1>2, Zenon DEF CurrentAt
  <2> QED BY <2>1
<1>4. PICK s, nalu : s = Current.sps[1] /\ nalu = Head(nalus)
  BY Zenon
<1>5. ValidSps(s) /\ nalu \in Bytes /\ UpToZeros(nalu, SpsUnit(s)) /\ Begin(nalu)
  BY ONLY <1>1, <1>2, <1>3, <1>4, Zenon DEF CurrentAt
<1>6. RewriteAt(s)'
  BY ONLY <1>5, BeginPart
<1>7. Current' = Current
  BY ONLY <1>1, Zenon DEF Current
<1>8. (Current.sps[1])' = s
  BY ONLY <1>4, <1>7, Zenon
<1> QED BY ONLY <1>6, <1>8, Zenon DEF RewriteInv

\* The parts of a set follow each other on one unit.
LEMMA RewriteMoves ==
    ASSUME RewriteSps
    PROVE  pc \in SpsParts /\ pc' \in SpsParts \cup {"rewritten", "panicked"}
BY DEF RewriteSps, CopyHighProfile, CopyScalingList, CopyPicOrderCnt, CopyPicture, CopyVuiFlag,
       CopyVui, CopyHrd, CopyRestriction, Finish, Take, SpsParts

LEMMA RewriteKeepsPlace ==
    FrameInv /\ RewriteInv /\ RewriteSps /\ UNCHANGED frameVars => RewriteInv'
<1> SUFFICES ASSUME FrameInv, RewriteInv, RewriteSps, UNCHANGED frameVars PROVE RewriteInv'
  OBVIOUS
<1>1. UNCHANGED <<input, nalus>>
  BY DEF frameVars
<1>2. pc \in SpsParts \cup {"rewritten", "panicked"} /\ pc # "split"
  BY RewriteMoves DEF SpsParts
<1>3. PICK k \in 0 .. Len(input) : CurrentAt(k)
  BY ONLY FrameInv, <1>2, AtCurrent
<1>4. PICK s : s = Current.sps[1]
  BY Zenon
<1>5. ValidSps(s)
  BY ONLY <1>2, <1>3, <1>4, Zenon DEF CurrentAt
<1>6. Current' = Current
  BY ONLY <1>1, Zenon DEF Current
<1>7. (Current.sps[1])' = s
  BY ONLY <1>4, <1>6, Zenon
<1>8. ASSUME ~EndsEarly(s) PROVE RewriteAt(s)'
  <2>1. RewriteAt(s)
    BY ONLY <1>2, <1>4, <1>8, RewriteInv, Zenon DEF RewriteInv
  <2>2. SpsTyped
    BY DEF FrameInv
  <2> QED BY ONLY <1>5, <1>8, <2>1, <2>2, RewriteSps, RewriteStep
<1> QED BY ONLY <1>7, <1>8, Zenon DEF RewriteInv

LEMMA RewriteInvStep == FrameInv /\ RewriteInv /\ [Next]_vars => RewriteInv'
<1> SUFFICES ASSUME FrameInv, RewriteInv, [Next]_vars PROVE RewriteInv'
  OBVIOUS
<1>1. CASE BeginSps
  BY <1>1, BeginRewrites
<1>2. CASE RewriteSps /\ UNCHANGED frameVars
  BY <1>2, RewriteKeepsPlace
<1>3. CASE SplitUnit \/ SplitEnd \/ PassUnit \/ EndSps \/ SendFrame
  <2>1. pc' \notin SpsParts \cup {"rewritten", "panicked"}
    BY <1>3 DEF SplitUnit, SplitEnd, PassUnit, EndSps, SendFrame, SpsParts
  <2> QED BY ONLY <2>1, Zenon DEF RewriteInv
<1>4. CASE UNCHANGED vars
  <2>1. UNCHANGED <<input, nalus, pc, reader, writer, chroma_format_idc, list, max_num_ref_frames, hrd>>
    BY <1>4 DEF vars, frameVars, spsVars
  <2>2. Current' = Current
    BY ONLY <2>1, Zenon DEF Current
  <2>3. PICK s : s = Current.sps[1]
    BY Zenon
  <2>4. (Current.sps[1])' = s
    BY ONLY <2>2, <2>3, Zenon
  <2>5. RewriteAt(s)' <=> RewriteAt(s)
    BY ONLY <2>1 DEF RewriteAt, Between
  <2> QED BY ONLY RewriteInv, <2>1, <2>3, <2>4, <2>5, Zenon DEF RewriteInv
<1> QED BY <1>1, <1>2, <1>3, <1>4 DEF Next

(* What the rewriter makes of a set is the encoding of the set with the new *)
(* VUI, byte for byte, for every set whose scaling lists are whole: each   *)
(* field behind the VUI's flag lands at other bits than it came from, with *)
(* other emulation bytes (sps_vui.rs:14-263, annexb_rw.rs).                *)
THEOREM SpsPatchedHolds == Spec => []SpsPatched
<1>1. Init => RewriteInv
  BY DEF Init, RewriteInv, SpsParts
<1>2. FrameInv /\ RewriteInv => SpsPatched
  <2> SUFFICES ASSUME FrameInv, RewriteInv, pc = "rewritten", NEW s, s = Current.sps[1], ~EndsEarly(s)
               PROVE  writer.arr = SpsUnit(Patched(s))
    BY Zenon DEF SpsPatched
  <2>1. RewriteAt(s)
    <3>1. pc \in SpsParts \cup {"rewritten", "panicked"}
      OBVIOUS
    <3> QED BY ONLY <3>1, RewriteInv, s = Current.sps[1], ~EndsEarly(s), Zenon DEF RewriteInv
  <2> QED BY ONLY <2>1, pc = "rewritten" DEF RewriteAt, NewUnit
<1> QED BY <1>1, <1>2, FrameInvariant, RewriteInvStep, PTL DEF Spec

(* The rewriter panics on no set whose scaling lists are whole: it never    *)
(* reads past the end of the unit (annexb_rw.rs:31, sps_vui.rs:71).         *)
THEOREM PanicsOnEarlyEndHolds == Spec => []PanicsOnEarlyEnd
<1>1. Init => RewriteInv
  BY DEF Init, RewriteInv, SpsParts
<1>2. RewriteInv => PanicsOnEarlyEnd
  <2> SUFFICES ASSUME RewriteInv, pc = "panicked", ~EndsEarly(Current.sps[1]) PROVE FALSE
    BY DEF PanicsOnEarlyEnd
  <2>1. RewriteAt(Current.sps[1])
    BY Zenon DEF RewriteInv
  <2> QED BY ONLY <2>1, pc = "panicked" DEF RewriteAt
<1> QED BY <1>1, <1>2, FrameInvariant, RewriteInvStep, PTL DEF Spec

-----------------------------------------------------------------------------
(* The frame that is sent.                                                 *)

\* No set of the frame has a scaling list that ends early.
Whole(f) == \A i \in DOMAIN f : \A s \in Range(f[i].sps) : ~EndsEarly(s)

\* What goes out for a unit.
Outgoing(f, i) == IF f[i].sps # <<>> THEN NewUnit(f[i].sps[1]) ELSE Found(f, i)

\* h[i] is what has gone out for the first i units.
Heads(h, f) ==
    /\ h \in [0 .. Len(f) -> Bytes] /\ h[0] = <<>>
    /\ \A i \in 1 .. Len(f) : h[i] = h[i - 1] \o (START_CODE \o Outgoing(f, i))
    /\ h[Len(f)] = FlattenSeq([i \in DOMAIN f |-> START_CODE \o Outgoing(f, i)])

LEMMA UnitType ==
    ASSUME NEW s, ValidSps(s)
    PROVE  NewUnit(s) \in Bytes
<1>1. PICK fs \in Group : NewUnit(s) = Unit(96 + SpsType, fs)
  <2>1. AreFields(s)
    BY ONLY SpsFieldsFrom, ValidSps(s), Zenon
  <2> QED BY ONLY <2>1, Zenon DEF AreFields
<1>2. PICK header \in Byte : header = 96 + SpsType /\ header > 3
  BY ONLY HeaderByte
<1>3. PICK bits, V, y, U, m : CodedUnit(bits, V, y, U, m, header, fs)
  BY ONLY <1>2, UnitCoded, fs \in Group, header \in Byte, Zenon
<1>4. Coded(bits, V, y, U, m) /\ U[m + 1] = Unit(header, fs)
  BY ONLY <1>3, Zenon DEF CodedUnit
<1>5. IsHeader(U, m, y[1])
  BY ONLY <1>4, HeaderFirst, Zenon
<1>6. U[m + 1] \in Bytes
  BY ONLY <1>5, Zenon DEF IsHeader
<1> QED BY ONLY <1>1, <1>2, <1>4, <1>6, Zenon

LEMMA OutgoingType ==
    ASSUME NEW f \in Frames, NEW i \in 1 .. Len(f)
    PROVE  Outgoing(f, i) \in Bytes /\ START_CODE \o Outgoing(f, i) \in Bytes
<1>1. Outgoing(f, i) \in Bytes
  <2>1. CASE f[i].sps # <<>>
    <3>1. ValidSps(f[i].sps[1])
      BY ONLY <2>1, FrameSets, f \in Frames, i \in 1 .. Len(f), Zenon
    <3>2. NewUnit(f[i].sps[1]) \in Bytes
      BY ONLY <3>1, UnitType, Zenon
    <3> QED BY ONLY <2>1, <3>2, Zenon DEF Outgoing
  <2>2. CASE f[i].sps = <<>>
    <3>1. Found(f, i) \in Bytes
      BY ONLY FoundType, f \in Frames, i \in 1 .. Len(f)
    <3> QED BY ONLY <2>2, <3>1, Zenon DEF Outgoing
  <2> QED BY <2>1, <2>2, Zenon
<1>2. START_CODE \in Bytes
  BY DEF START_CODE, Byte, Bytes
<1>3. PICK a \in Seq(Byte), b \in Seq(Byte) : a = START_CODE /\ b = Outgoing(f, i)
  BY ONLY <1>1, <1>2, Zenon DEF Bytes
<1>4. a \o b \in Seq(Byte)
  BY ConcatType
<1> QED BY ONLY <1>1, <1>3, <1>4, Zenon DEF Bytes

LEMMA FrameHeads ==
    ASSUME NEW f \in Frames
    PROVE  \E h : Heads(h, f)
<1>1. Len(f) \in Nat /\ DOMAIN f = 1 .. Len(f)
  BY FrameParts
<1>2. PICK n \in Nat : n = Len(f)
  BY <1>1
<1>3. PICK ss : ss = [i \in DOMAIN f |-> START_CODE \o Outgoing(f, i)]
  BY Zenon
<1>4. \A i \in 1 .. n : ss[i] = START_CODE \o Outgoing(f, i) /\ ss[i] \in Bytes
  BY ONLY <1>1, <1>2, <1>3, OutgoingType, f \in Frames, Zenon
<1>5. ss \in Seq(Seq(Byte)) /\ Len(ss) = n
  <2>1. ss \in [1 .. n -> Seq(Byte)]
    <3>1. ss = [i \in 1 .. n |-> ss[i]]
      BY ONLY <1>1, <1>2, <1>3, Zenon
    <3> QED BY ONLY <1>4, <3>1, Zenon DEF Bytes
  <2> QED BY ONLY <2>1, n \in Nat, SMT
<1>6. CASE n = 0
  <2>1. ss = <<>>
    BY ONLY <1>5, <1>6
  <2>2. FlattenSeq(ss) = <<>>
    <3>1. PICK t : FlatTails(t, Byte, ss)
      BY ONLY <1>5, FlattenTails, Zenon
    <3>2. t[0] = FlattenSeq(ss) /\ t[n] = <<>>
      BY ONLY <1>5, <3>1, Zenon DEF FlatTails
    <3> QED BY ONLY <1>6, <3>2, Zenon
  <2>3. PICK h : h = [i \in 0 .. 0 |-> <<>>]
    BY Zenon
  <2>4. h \in [0 .. 0 -> Bytes] /\ h[0] = <<>>
    BY <2>3 DEF Bytes
  <2>5. \A i \in 1 .. n : h[i] = h[i - 1] \o (START_CODE \o Outgoing(f, i))
    BY <1>6
  <2> QED BY ONLY <1>2, <1>3, <1>6, <2>2, <2>4, <2>5, Zenon DEF Heads
<1>7. CASE n # 0
  <2>1. ss # <<>>
    BY ONLY <1>5, <1>7, n \in Nat
  <2>2. PICK g : /\ g \in [1 .. Len(ss) -> Seq(Byte)]
                 /\ g[1] = ss[1]
                 /\ \A i \in 2 .. Len(ss) : g[i] = g[i - 1] \o ss[i]
                 /\ FlattenSeq(ss) = g[Len(ss)]
    BY ONLY <1>5, <2>1, FlattenHeads, Zenon
  <2>3. PICK h : h = [i \in 0 .. n |-> IF i = 0 THEN <<>> ELSE g[i]]
    BY Zenon
  <2>4. g \in [1 .. n -> Seq(Byte)] /\ g[1] = ss[1] /\ FlattenSeq(ss) = g[n]
    BY ONLY <1>5, <2>2, Zenon
  <2>5. h[0] = <<>> /\ \A i \in 1 .. n : h[i] = g[i]
    BY ONLY <2>3, n \in Nat
  <2>6. h \in [0 .. n -> Bytes]
    <3>1. \A i \in 0 .. n : i = 0 \/ i \in 1 .. n
      OBVIOUS
    <3>2. <<>> \in Bytes
      BY DEF Bytes
    <3>3. \A i \in 0 .. n : (IF i = 0 THEN <<>> ELSE g[i]) \in Bytes
      BY ONLY <2>4, <3>1, <3>2, Zenon DEF Bytes
    <3> QED BY ONLY <2>3, <3>3, Zenon
  <2>7. ASSUME NEW i \in 1 .. n PROVE h[i] = h[i - 1] \o (START_CODE \o Outgoing(f, i))
    <3>1. CASE i = 1
      <4>1. ss[1] \in Seq(Byte)
        BY ONLY <1>4, <3>1, i \in 1 .. n, Zenon DEF Bytes
      <4>2. <<>> \o ss[1] = ss[1]
        BY ONLY <4>1
      <4>3. i - 1 = 0
        BY <3>1
      <4> QED BY ONLY <1>4, <2>4, <2>5, <3>1, <4>2, <4>3, i \in 1 .. n, Zenon
    <3>2. CASE i # 1
      <4>1. i \in 2 .. Len(ss) /\ i - 1 \in 1 .. n
        BY <1>5, <3>2
      <4> QED BY ONLY <1>4, <2>2, <2>5, <4>1, i \in 1 .. n, Zenon
    <3> QED BY <3>1, <3>2
  <2>8. h[n] = FlattenSeq(ss)
    <3>1. n \in 1 .. n
      BY <1>7
    <3> QED BY ONLY <2>4, <2>5, <3>1, Zenon
  <2> QED BY ONLY <1>2, <1>3, <2>5, <2>6, <2>7, <2>8, Zenon DEF Heads
<1> QED BY <1>6, <1>7

\* The first k units are out, and the rewriter has the next one if it is at work.
SentAt(h, k) ==
    /\ Heads(h, input) /\ k \in 0 .. Len(input) /\ Len(nalus) = Len(input) - k
    /\ pc \in {"units", "sent"} => out = h[k]
    /\ pc \in SpsParts \cup {"rewritten"} => out = h[k] \o START_CODE
    /\ pc = "sent" => k = Len(input)

(* Inductive: out is what goes out for the units that nalus no longer has.  *)
SentInv == pc # "split" /\ Whole(input) => \E h, k : SentAt(h, k)

\* What is known of the next unit.
LEMMA SentCurrent ==
    ASSUME FrameInv, pc # "split", NEW h, NEW k, SentAt(h, k)
    PROVE  CurrentAt(k)
<1>1. PICK i \in 0 .. Len(input) : CurrentAt(i)
  BY ONLY FrameInv, pc # "split", AtCurrent
<1>2. PICK a : a = Len(nalus)
  BY Zenon
<1>a. PICK n \in Nat : n = Len(input) /\ a = n - i
  BY ONLY <1>1, <1>2, Zenon DEF CurrentAt
<1>3. a = n - k /\ k \in 0 .. n
  BY ONLY <1>2, <1>a, SentAt(h, k), Zenon DEF SentAt
<1>4. i \in 0 .. n
  BY ONLY <1>a, i \in 0 .. Len(input), Zenon
<1>5. i = k
  BY ONLY <1>a, <1>3, <1>4, n \in Nat
<1> QED BY ONLY <1>1, <1>5, Zenon

\* The unit j goes out whole.
Follows(h, f, i, j) == j \in 0 .. Len(f) /\ (h[i] \o START_CODE) \o Outgoing(f, j) = h[j]

LEMMA HeadNext ==
    ASSUME NEW f \in Frames, NEW h, Heads(h, f), NEW i \in 0 .. Len(f), i < Len(f), NEW j, j = i + 1
    PROVE  Follows(h, f, i, j)
<1>1. Len(f) \in Nat
  BY FrameParts
<1>2. j \in 1 .. Len(f) /\ j \in 0 .. Len(f) /\ j - 1 = i
  BY ONLY <1>1, j = i + 1, i < Len(f), i \in 0 .. Len(f)
<1>3. h[i] \in Bytes /\ h[j] = h[i] \o (START_CODE \o Outgoing(f, j))
  BY ONLY <1>2, Heads(h, f), i \in 0 .. Len(f), Zenon DEF Heads
<1>4. START_CODE \in Bytes
  BY DEF START_CODE, Byte, Bytes
<1>5. Outgoing(f, j) \in Bytes
  BY ONLY <1>2, OutgoingType, f \in Frames
<1>6. Regroups(h[i], START_CODE, Outgoing(f, j))
  BY ONLY <1>3, <1>4, <1>5, Regrouping, Zenon DEF Bytes
<1> QED BY ONLY <1>2, <1>3, <1>6, Zenon DEF Regroups, Follows

LEMMA SplitEndSent == FrameInv /\ SplitEnd => SentInv'
<1> SUFFICES ASSUME FrameInv, SplitEnd PROVE SentInv'
  OBVIOUS
<1>1. pc = "split" /\ pc' = "units" /\ UNCHANGED <<input, nalus, out>>
  BY DEF SplitEnd, frameVars
<1>2. out = <<>> /\ input \in Frames
  BY ONLY FrameInv, <1>1, Zenon DEF FrameInv
<1>3. FrameInv'
  BY SplitEndKeeps
<1>4. nalus = FoundUnits(input)
  <2>1. PICK k \in 0 .. Len(input') : /\ nalus' = SubSeq(FoundUnits(input'), k + 1, Len(input'))
                                      /\ out' = <<>> => k = 0
    BY ONLY <1>1, <1>3 DEF FrameInv
  <2>2. k = 0 /\ nalus = SubSeq(FoundUnits(input), 0 + 1, Len(input))
    BY ONLY <1>1, <1>2, <2>1, Zenon
  <2>3. FoundUnits(input) \in Seq(Bytes \ {<<>>}) /\ Len(FoundUnits(input)) = Len(input)
    BY ONLY <1>2, FoundUnitsType, Zenon
  <2>4. SubSeq(FoundUnits(input), 1, Len(FoundUnits(input))) = FoundUnits(input)
    BY ONLY <2>3, WholeSubSeq, Zenon
  <2>5. 0 + 1 = 1
    OBVIOUS
  <2> QED BY ONLY <2>2, <2>3, <2>4, <2>5, Zenon
<1>5. Len(nalus) = Len(input) - 0 /\ 0 \in 0 .. Len(input)
  <2>1. PICK n \in Nat : n = Len(input) /\ Len(nalus) = n
    <3>1. Len(input) \in Nat
      BY ONLY <1>2, FrameParts
    <3> QED BY ONLY <1>2, <1>4, <3>1, FoundUnitsType, Zenon
  <2>2. n = n - 0 /\ 0 \in 0 .. n
    OBVIOUS
  <2> QED BY ONLY <2>1, <2>2, Zenon
<1>6. PICK h : Heads(h, input)
  BY ONLY <1>2, FrameHeads, Zenon
<1>7. h[0] = <<>>
  BY ONLY <1>6, Zenon DEF Heads
<1>8. pc' \notin SpsParts \cup {"rewritten"} /\ pc' # "sent"
  BY <1>1 DEF SpsParts
<1>9. SentAt(h, 0)'
  <2>1. Heads(h, input')
    BY ONLY <1>1, <1>6, Zenon
  <2>2. Len(nalus') = Len(input') - 0 /\ 0 \in 0 .. Len(input') /\ out' = h[0]
    BY ONLY <1>1, <1>2, <1>5, <1>7, Zenon
  <2> QED BY ONLY <1>8, <2>1, <2>2, Zenon DEF SentAt
<1> QED BY ONLY <1>9, Zenon DEF SentInv

\* Behind a unit that went out.
LEMMA NextSent ==
    ASSUME FrameInv, NEW h, NEW k, SentAt(h, k), CurrentAt(k), k < Len(input),
           out' = (h[k] \o START_CODE) \o Outgoing(input, k + 1),
           nalus' = Tail(nalus), UNCHANGED input, pc' = "units"
    PROVE  SentAt(h, k + 1)'
<1>1. input \in Frames
  BY DEF FrameInv
<1>2. Heads(h, input) /\ k \in 0 .. Len(input)
  BY ONLY SentAt(h, k), Zenon DEF SentAt
<1>3. PICK j : j = k + 1
  BY Zenon
<1>4. j \in 0 .. Len(input) /\ (h[k] \o START_CODE) \o Outgoing(input, j) = h[j]
  <2>1. Follows(h, input, k, j)
    BY ONLY <1>1, <1>2, <1>3, k < Len(input), HeadNext, Zenon
  <2> QED BY ONLY <2>1, Zenon DEF Follows
<1>5. Len(Tail(nalus)) = Len(input) - j
  BY ONLY <1>3, CurrentAt(k), k < Len(input), Zenon DEF CurrentAt
<1>6. pc' \notin SpsParts \cup {"rewritten"} /\ pc' # "sent"
  BY DEF SpsParts
<1>7. /\ Heads(h, input') /\ j \in 0 .. Len(input') /\ Len(nalus') = Len(input') - j
      /\ out' = h[j]
  BY ONLY <1>2, <1>3, <1>4, <1>5, UNCHANGED input, nalus' = Tail(nalus),
          out' = (h[k] \o START_CODE) \o Outgoing(input, k + 1), Zenon
<1>8. SentAt(h, j)'
  BY ONLY <1>3, <1>6, <1>7, Zenon DEF SentAt
<1> QED BY ONLY <1>3, <1>8, Zenon

LEMMA PassUnitSent ==
    ASSUME FrameInv, SentInv, PassUnit, Whole(input)
    PROVE  SentInv'
<1>1. /\ pc = "units" /\ pc' = "units" /\ nalus # <<>> /\ nal_unit_type(Head(nalus)) # Sps
      /\ out' = out \o START_CODE \o Head(nalus) /\ nalus' = Tail(nalus) /\ UNCHANGED input
  BY DEF PassUnit
<1>2. pc # "split"
  BY <1>1
<1>3. PICK h, k : SentAt(h, k)
  BY ONLY SentInv, Whole(input), <1>2, Zenon DEF SentInv
<1>4. CurrentAt(k)
  BY ONLY FrameInv, <1>2, <1>3, SentCurrent
<1>5. k < Len(input)
  <2>1. k # Len(input) /\ k \in 0 .. Len(input) /\ Len(input) \in Nat
    BY ONLY <1>1, <1>3, <1>4, Zenon DEF CurrentAt, SentAt
  <2> QED BY ONLY <2>1
<1>6. Head(nalus) = Outgoing(input, k + 1)
  <2>1. /\ Current = input[k + 1] /\ Head(nalus) = Found(input, k + 1)
        /\ nal_unit_type(Head(nalus)) = Sps <=> Current.sps # <<>>
    BY ONLY <1>4, <1>5, Zenon DEF CurrentAt
  <2> QED BY ONLY <1>1, <2>1, Zenon DEF Outgoing
<1>7. out = h[k]
  BY ONLY <1>1, <1>3, Zenon DEF SentAt
<1>8. out' = (h[k] \o START_CODE) \o Outgoing(input, k + 1)
  BY ONLY <1>1, <1>6, <1>7, Zenon
<1>9. SentAt(h, k + 1)'
  BY ONLY FrameInv, <1>1, <1>3, <1>4, <1>5, <1>8, NextSent
<1> QED BY ONLY <1>9, Zenon DEF SentInv

LEMMA EndSpsSent ==
    ASSUME FrameInv, RewriteInv, SentInv, EndSps, Whole(input)
    PROVE  SentInv'
<1>1. /\ pc = "rewritten" /\ pc' = "units" /\ out' = out \o writer.arr /\ nalus' = Tail(nalus)
      /\ UNCHANGED input
  BY DEF EndSps
<1>2. pc # "split" /\ pc \in SpsParts \cup {"rewritten"} /\ pc \in SpsParts \cup {"rewritten", "panicked"}
  BY <1>1
<1>3. PICK h, k : SentAt(h, k)
  BY ONLY SentInv, Whole(input), <1>2, Zenon DEF SentInv
<1>4. CurrentAt(k)
  BY ONLY FrameInv, <1>2, <1>3, SentCurrent
<1>5. k < Len(input) /\ Current.sps # <<>> /\ Current = input[k + 1] /\ k + 1 \in 1 .. Len(input)
  BY ONLY <1>2, <1>4, Zenon DEF CurrentAt
<1>6. PICK s : s = Current.sps[1]
  BY Zenon
<1>7. ~EndsEarly(s)
  <2>1. input \in Frames
    BY DEF FrameInv
  <2>2. PICK i : i = k + 1 /\ i \in 1 .. Len(input) /\ input[i].sps # <<>> /\ s = input[i].sps[1]
    BY ONLY <1>5, <1>6, Zenon
  <2>3. Len(input[i].sps) = 1 /\ DOMAIN input = 1 .. Len(input)
    BY ONLY <2>1, <2>2, FrameSets, FrameParts
  <2>4. input[i].sps \in Seq(ParameterSets)
    BY ONLY <2>1, <2>2, <2>3, FramesAssumption, Zenon
  <2>5. s \in Range(input[i].sps)
    BY ONLY <2>2, <2>3, <2>4 DEF Range
  <2> QED BY ONLY <2>2, <2>3, <2>5, Whole(input), Zenon DEF Whole
<1>8. writer.arr = Outgoing(input, k + 1)
  <2>1. RewriteAt(s)
    BY ONLY <1>2, <1>6, <1>7, RewriteInv, Zenon DEF RewriteInv
  <2>2. writer.arr = NewUnit(s)
    BY ONLY <1>1, <2>1 DEF RewriteAt
  <2> QED BY ONLY <1>5, <1>6, <2>2, Zenon DEF Outgoing
<1>9. out' = (h[k] \o START_CODE) \o Outgoing(input, k + 1)
  <2>1. out = h[k] \o START_CODE
    BY ONLY <1>2, <1>3, Zenon DEF SentAt
  <2> QED BY ONLY <1>1, <1>8, <2>1, Zenon
<1>10. SentAt(h, k + 1)'
  BY ONLY FrameInv, <1>1, <1>3, <1>4, <1>5, <1>9, NextSent
<1> QED BY ONLY <1>10, Zenon DEF SentInv

LEMMA SentInvStep == FrameInv /\ RewriteInv /\ SentInv /\ [Next]_vars => SentInv'
<1> SUFFICES ASSUME FrameInv, RewriteInv, SentInv, [Next]_vars, pc' # "split", Whole(input)'
             PROVE  \E h, k : SentAt(h, k)'
  BY DEF SentInv
<1>1. UNCHANGED input
  BY DEF Next, SplitUnit, SplitEnd, PassUnit, BeginSps, EndSps, SendFrame, vars, frameVars
<1>2. Whole(input)
  BY ONLY <1>1, Whole(input)', Zenon DEF Whole
<1>3. SentInv' => \E h, k : SentAt(h, k)'
  BY ONLY pc' # "split", Whole(input)', Zenon DEF SentInv
<1>4. CASE SplitUnit
  BY <1>4 DEF SplitUnit
<1>5. CASE SplitEnd
  BY ONLY FrameInv, <1>3, <1>5, SplitEndSent, Zenon
<1>6. CASE PassUnit
  BY ONLY FrameInv, SentInv, <1>2, <1>3, <1>6, PassUnitSent, Zenon
<1>7. CASE EndSps
  BY ONLY FrameInv, RewriteInv, SentInv, <1>2, <1>3, <1>7, EndSpsSent, Zenon
<1>8. ASSUME pc # "split" PROVE \E h, k : SentAt(h, k)
  BY ONLY SentInv, <1>2, <1>8, Zenon DEF SentInv
<1>9. CASE BeginSps
  <2>1. pc = "units" /\ out' = out \o START_CODE /\ UNCHANGED nalus /\ Begin(Head(nalus))
    BY <1>9 DEF BeginSps
  <2>2. PICK h, k : SentAt(h, k)
    BY <1>8, <2>1
  <2>3. pc' \in {"high", "frame_num", "panicked"}
    BY <2>1 DEF Begin, Take
  <2>4. pc' \notin {"units", "sent"}
    BY <2>3
  <2>5. out = h[k]
    BY ONLY <2>1, <2>2, Zenon DEF SentAt
  <2>6. SentAt(h, k)'
    BY ONLY <1>1, <2>1, <2>2, <2>4, <2>5, Zenon DEF SentAt
  <2> QED BY ONLY <2>6, Zenon
<1>10. CASE RewriteSps /\ UNCHANGED frameVars
  <2>1. UNCHANGED <<nalus, out>>
    BY <1>10 DEF frameVars
  <2>2. pc \in SpsParts /\ pc' \in SpsParts \cup {"rewritten", "panicked"}
    BY <1>10, RewriteMoves
  <2>3. pc # "split" /\ pc \in SpsParts \cup {"rewritten"} /\ pc' \notin {"units", "sent"}
    BY ONLY <2>2 DEF SpsParts
  <2>4. PICK h, k : SentAt(h, k)
    BY ONLY <1>8, <2>3, Zenon
  <2>5. SentAt(h, k)'
    BY ONLY <1>1, <2>1, <2>3, <2>4, Zenon DEF SentAt
  <2> QED BY ONLY <2>5, Zenon
<1>11. CASE SendFrame
  <2>1. pc = "units" /\ pc' = "sent" /\ nalus = <<>> /\ UNCHANGED <<nalus, out>>
    BY <1>11 DEF SendFrame, frameVars
  <2>2. PICK h, k : SentAt(h, k)
    BY <1>8, <2>1
  <2>3. CurrentAt(k)
    <3>1. pc # "split"
      BY <2>1
    <3> QED BY ONLY FrameInv, <2>2, <3>1, SentCurrent
  <2>4. k = Len(input)
    BY ONLY <2>1, <2>3, Zenon DEF CurrentAt
  <2>5. pc' \notin SpsParts \cup {"rewritten"} /\ pc' \in {"units", "sent"} /\ pc \in {"units", "sent"}
    BY <2>1 DEF SpsParts
  <2>6. SentAt(h, k)'
    BY ONLY <1>1, <2>1, <2>2, <2>4, <2>5, Zenon DEF SentAt
  <2> QED BY ONLY <2>6, Zenon
<1>12. CASE UNCHANGED vars
  <2>1. UNCHANGED <<nalus, out, pc>>
    BY <1>12 DEF vars, frameVars
  <2>2. PICK h, k : SentAt(h, k)
    BY ONLY <1>8, <2>1, pc' # "split", Zenon
  <2>3. SentAt(h, k)'
    BY ONLY <1>1, <2>1, <2>2, Zenon DEF SentAt
  <2> QED BY ONLY <2>3, Zenon
<1> QED BY <1>4, <1>5, <1>6, <1>7, <1>9, <1>10, <1>11, <1>12 DEF Next

(* A frame whose sets have whole scaling lists goes out as the units of the *)
(* frame, each once and in order behind one start code, with the rewritten *)
(* sets in the places of the old ones and no byte of the others changed    *)
(* (webrtc.rs:384-428).                                                    *)
THEOREM FrameSentHolds == Spec => []FrameSent
<1>1. Init => RewriteInv /\ SentInv
  BY DEF Init, RewriteInv, SentInv, SpsParts
<1>2. FrameInv /\ SentInv => FrameSent
  <2> SUFFICES ASSUME FrameInv, SentInv, pc = "sent",
                      \A i \in DOMAIN input : \A s \in Range(input[i].sps) : ~EndsEarly(s)
               PROVE  out = FlattenSeq([i \in DOMAIN input |-> START_CODE \o SentUnit(i)])
    BY Zenon DEF FrameSent
  <2>1. Whole(input) /\ pc # "split"
    BY Zenon DEF Whole
  <2>2. PICK h, k : SentAt(h, k)
    BY ONLY SentInv, <2>1, Zenon DEF SentInv
  <2>3. k = Len(input) /\ Heads(h, input) /\ out = h[k]
    <3>1. pc \in {"units", "sent"}
      OBVIOUS
    <3> QED BY ONLY <2>2, <3>1, pc = "sent", Zenon DEF SentAt
  <2>4. out = FlattenSeq([i \in DOMAIN input |-> START_CODE \o Outgoing(input, i)])
    BY ONLY <2>3, Zenon DEF Heads
  <2>5. \A i \in DOMAIN input : Outgoing(input, i) = SentUnit(i)
    BY Zenon DEF Outgoing, SentUnit, NewUnit, Found
  <2>6. [i \in DOMAIN input |-> START_CODE \o Outgoing(input, i)]
          = [i \in DOMAIN input |-> START_CODE \o SentUnit(i)]
    BY ONLY <2>5, Zenon
  <2> QED BY ONLY <2>4, <2>6, Zenon
<1> QED BY <1>1, <1>2, FrameInvariant, RewriteInvStep, SentInvStep, PTL DEF Spec
=============================================================================
