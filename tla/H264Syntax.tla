------------------------------ MODULE H264Syntax ------------------------------
(***************************************************************************)
(* What an H264 encoder sends: the syntax of a sequence parameter set and  *)
(* its encoding (ITU-T H.264, 7.3.2.1.1, 7.4.1, 9.1, E.1), written from the *)
(* standard as the reference that the rewriter is checked against.         *)
(*                                                                         *)
(* A field is a descriptor with a value.  An optional group of fields is   *)
(* its sequence of fields, empty when the group is absent.                 *)
(***************************************************************************)
EXTENDS Integers, Sequences, SequencesExt

u(n) == [code |-> "u", n |-> n]
ue == [code |-> "ue", n |-> 0]
se == [code |-> "se", n |-> 0]

F(f, v) == [f |-> f, v |-> v]

Repeat(n, x) == [i \in 1 .. n |-> x]

HighProfiles == {100, 110, 122, 244, 44, 83, 86, 118, 128, 138, 139, 134, 135}

SpsType == 7

-----------------------------------------------------------------------------
(* Fields to bits to bytes.                                                *)

Binary(v, n) == [i \in 1 .. n |-> IF n - i > 30 THEN 0 ELSE (v \div 2^(n - i)) % 2]

\* As many zeros as bits follow the leading one of v + 1 (9.1).
UeBits(v) ==
    LET k == CHOOSE k \in 0 .. 30 : 2^k <= v + 1 /\ (k = 30 \/ v + 1 < 2^(k + 1))
    IN Repeat(k, 0) \o Binary(v + 1, k + 1)

\* The place of v among 0, 1, -1, 2, -2, ... (9.1.1).
CodeNum(v) == IF v <= 0 THEN -2 * v ELSE 2 * v - 1

FieldBits(x) ==
    CASE x.f.code = "u"  -> Binary(x.v, x.f.n)
      [] x.f.code = "ue" -> UeBits(x.v)
      [] x.f.code = "se" -> UeBits(CodeNum(x.v))

\* The stop bit, and zeros up to the end of the byte.
RbspBits(fields) ==
    LET bits == Append(FlattenSeq([i \in DOMAIN fields |-> FieldBits(fields[i])]), 1)
    IN bits \o Repeat((8 - (Len(bits) % 8)) % 8, 0)

ByteOf(bits, i) ==
    LET value[k \in 0 .. 8] == IF k = 0 THEN 0 ELSE 2 * value[k - 1] + bits[8 * (i - 1) + k]
    IN value[8]

Rbsp(fields) ==
    LET bits == RbspBits(fields) IN [i \in 1 .. Len(bits) \div 8 |-> ByteOf(bits, i)]

\* No three bytes of a unit are 00 00 00 to 00 00 03: a 03 comes between (7.4.1).
Escaped(bytes) ==
    LET upto[i \in 0 .. Len(bytes)] ==
            IF i = 0 THEN <<>>
            ELSE LET before == upto[i - 1]
                     escape == bytes[i] <= 3 /\ IsSuffix(<<0, 0>>, before)
                 IN before \o (IF escape THEN <<3>> ELSE <<>>) \o <<bytes[i]>>
    IN upto[Len(bytes)]

\* A unit with its header byte.
Unit(header, fields) == Escaped(<<header>> \o Rbsp(fields))

-----------------------------------------------------------------------------
(* The sequence parameter set.                                             *)

Flag(b) == F(u(1), IF b THEN 1 ELSE 0)

Opt(group) == <<Flag(group # <<>>)>> \o group

\* Of a present list each delta, up to the one that makes the next scale 0.
ListFields(deltas) == Opt([i \in 1 .. Len(deltas) |-> F(se, deltas[i])])

ScalingFields(lists) ==
    <<Flag(lists # <<>>)>> \o FlattenSeq([i \in DOMAIN lists |-> ListFields(lists[i])])

HighFields(s) ==
    <<F(ue, s.chroma)>>
    \o (IF s.chroma = 3 THEN <<Flag(FALSE)>> ELSE <<>>)
    \o <<F(ue, 0), F(ue, 2), Flag(FALSE)>>
    \o ScalingFields(s.lists)

HasHrd(v) == v.nal_hrd # <<>> \/ v.vcl_hrd # <<>>

VuiFields(v) ==
    Opt(v.aspect) \o Opt(v.overscan) \o Opt(v.signal) \o Opt(v.chroma_loc) \o Opt(v.timing)
    \o Opt(v.nal_hrd) \o Opt(v.vcl_hrd) \o (IF HasHrd(v) THEN <<Flag(TRUE)>> ELSE <<>>)
    \o <<Flag(v.pic_struct)>> \o Opt(v.restriction)

\* s.vui is a sequence of at most one record.
SpsFields(s) ==
    <<F(u(8), s.profile), F(u(8), 0), F(u(8), s.level), F(ue, 0)>>
    \o (IF s.profile \in HighProfiles THEN HighFields(s) ELSE <<>>)
    \o <<F(ue, 0)>> \o s.poc
    \o <<F(ue, s.refs), Flag(FALSE), F(ue, s.width), F(ue, 3), Flag(~s.interlaced)>>
    \o (IF s.interlaced THEN <<Flag(TRUE)>> ELSE <<>>)
    \o <<Flag(TRUE)>> \o Opt(s.crop)
    \o <<Flag(s.vui # <<>>)>> \o FlattenSeq([i \in DOMAIN s.vui |-> VuiFields(s.vui[i])])

SpsUnit(s) == Unit(96 + SpsType, SpsFields(s))

\* Lists have 16 deltas, and the chroma ones after the sixth 64.
EndsEarly(s) ==
    \E i \in DOMAIN s.lists :
        s.lists[i] # <<>> /\ Len(s.lists[i]) < (IF i <= 6 THEN 16 ELSE 64)

-----------------------------------------------------------------------------
(* The same parameter set for playback without reordering.                 *)

EmptyVui == [aspect |-> <<>>, overscan |-> <<>>, signal |-> <<>>, chroma_loc |-> <<>>,
             timing |-> <<>>, nal_hrd |-> <<>>, vcl_hrd |-> <<>>, pic_struct |-> FALSE,
             restriction |-> <<>>]

\* motion_vectors_over_pic_boundaries_flag and the limits a decoder infers.
InferredLimits == <<F(u(1), 1), F(ue, 2), F(ue, 1), F(ue, 16), F(ue, 16)>>

\* max_num_reorder_frames = 0, max_dec_frame_buffering = max_num_ref_frames.
Unordered(v, refs) ==
    LET limits == IF v.restriction = <<>> THEN InferredLimits
                  ELSE SubSeq(v.restriction, 1, 5)
    IN [v EXCEPT !.signal = <<>>, !.restriction = limits \o <<F(ue, 0), F(ue, refs)>>]

Patched(s) ==
    [s EXCEPT !.vui = <<Unordered(IF @ = <<>> THEN EmptyVui ELSE @[1], s.refs)>>]

-----------------------------------------------------------------------------
(* The byte stream (Annex B).                                              *)

StartCodeAt(bytes, i) ==
    i + 2 \in DOMAIN bytes /\ bytes[i] = 0 /\ bytes[i + 1] = 0 /\ bytes[i + 2] = 1

\* A unit's bytes: nothing in them is taken for the zeros of a start code.
NoEmulation(bytes) ==
    \A i \in 1 .. Len(bytes) - 2 :
        ~(bytes[i] = 0 /\ bytes[i + 1] = 0 /\ bytes[i + 2] <= 2)

WellFormed(bytes) == bytes # <<>> /\ NoEmulation(bytes) /\ bytes[Len(bytes)] # 0
=============================================================================
