------------------------------ MODULE H264Frame ------------------------------
(***************************************************************************)
(* What WebRtcWrapper::send_video_frame does to an H264 frame before it is  *)
(* encrypted (rewrite_h264_sps_vui, src/src/voice/webrtc.rs:384): the frame *)
(* is split into units, and every unit goes out behind a start code, a      *)
(* sequence parameter set after its VUI was rewritten.                     *)
(*                                                                         *)
(* A frame comes from an encoder, as units between start codes; zeros may   *)
(* precede a code, and a unit is one of those of H264Syntax.               *)
(***************************************************************************)
EXTENDS AnnexB, SpsVui

\* n zeros and a one; a code has two zeros or three, the rest are padding.
StartCode(n) == Append(Repeat(n, 0), 1)

-----------------------------------------------------------------------------
(* The parameter sets of an encoder, as far as the rewriter relies on them. *)

\* TLC's largest integer, which bounds the values here.
Largest == 2147483647

FitsUe(v) == v \in Nat /\ v < Largest /\ (WordBits < 31 => v + 1 < 2^WordBits)

Fits(x) ==
    \/ x.f = ue /\ FitsUe(x.v)
    \/ x.f = se /\ FitsUe(CodeNum(x.v))
    \/ x.f.code = "u" /\ x.v \in Nat /\ x.v <= Largest /\ (x.f.n < 31 => x.v < 2^x.f.n)

Fields == {x \in [f : {u(n) : n \in 1 .. 32} \cup {ue, se}, v : Int] : Fits(x)}

Shape(group, ds) == Len(group) = Len(ds) /\ \A i \in DOMAIN ds : group[i].f = ds[i]

\* cpb_cnt_minus1 + 1 buffers.
HrdShape(buffers) ==
    <<ue, u(4), u(4)>> \o FlattenSeq(Repeat(buffers, <<ue, ue, u(1)>>)) \o Repeat(4, u(5))

Group == Seq(Fields)

Vuis == [aspect : Group, overscan : Group, signal : Group, chroma_loc : Group, timing : Group,
         nal_hrd : Group, vcl_hrd : Group, pic_struct : BOOLEAN, restriction : Group]

ValidVui(v) ==
    /\ v \in Vuis
    /\ \/ v.aspect = <<>>
       \/ Shape(v.aspect, <<u(8)>>) /\ v.aspect[1].v # 255
       \/ Shape(v.aspect, <<u(8), u(16), u(16)>>) /\ v.aspect[1].v = 255
    /\ v.overscan = <<>> \/ Shape(v.overscan, <<u(1)>>)
    /\ \/ v.signal = <<>>
       \/ Shape(v.signal, <<u(3), u(1), u(1)>>) /\ v.signal[3].v = 0
       \/ Shape(v.signal, <<u(3), u(1), u(1), u(8), u(8), u(8)>>) /\ v.signal[3].v = 1
    /\ v.chroma_loc = <<>> \/ Shape(v.chroma_loc, <<ue, ue>>)
    /\ v.timing = <<>> \/ Shape(v.timing, <<u(32), u(32), u(1)>>)
    /\ \A g \in {v.nal_hrd, v.vcl_hrd} : g = <<>> \/ Shape(g, HrdShape(g[1].v + 1))
    /\ v.restriction = <<>> \/ Shape(v.restriction, <<u(1), ue, ue, ue, ue, ue, ue>>)

ParameterSets ==
    [profile : Byte, level : Byte, chroma : Nat, lists : Seq(Seq(Int)), poc : Group, refs : Nat,
     width : Nat, interlaced : BOOLEAN, crop : Group, vui : Seq(Vuis)]

\* The profiles that have scaling lists to the standard have them to the code.
ValidSps(s) ==
    /\ s \in ParameterSets
    /\ s.profile \in HIGH_PROFILES <=> s.profile \in HighProfiles
    /\ {F(ue, s.chroma), F(ue, s.refs), F(ue, s.width)} \subseteq Fields
    /\ s.lists # <<>> => Len(s.lists) = (IF s.chroma # 3 THEN 8 ELSE 12)
    /\ \A i \in DOMAIN s.lists :
        /\ Len(s.lists[i]) <= (IF i <= 6 THEN 16 ELSE 64)
        /\ \A d \in Range(s.lists[i]) : F(se, d) \in Fields
    /\ \/ Shape(s.poc, <<ue, ue>>) /\ s.poc[1].v = 0
       \/ /\ s.poc[1].v = 1 /\ Len(s.poc) >= 5
          /\ Shape(s.poc, <<ue, u(1), se, se, ue>> \o Repeat(s.poc[5].v, se))
       \/ Shape(s.poc, <<ue>>) /\ s.poc[1].v > 1
    /\ s.crop = <<>> \/ Shape(s.crop, Repeat(4, ue))
    /\ Len(s.vui) \in 0 .. 1 /\ \A v \in Range(s.vui) : ValidVui(v)

-----------------------------------------------------------------------------
CONSTANT
    Frames      \* sequences of [code, unit, sps], where sps is at most one set

ASSUME FramesAssumption ==
    \A f \in Frames : f \in Seq(Range(f)) /\ \A i \in DOMAIN f :
        /\ f[i].unit \in Seq(Byte) /\ WellFormed(f[i].unit)
        /\ f[i].sps \in Seq(ParameterSets) /\ Len(f[i].sps) <= 1
        /\ f[i].unit[1] % 32 = SpsType <=> f[i].sps # <<>>
        /\ f[i].sps # <<>> => ValidSps(f[i].sps[1]) /\ f[i].unit = SpsUnit(f[i].sps[1])
        /\ f[i].code \in (IF i = 1 THEN {StartCode(2), StartCode(3)}
                         ELSE {StartCode(n) : n \in 2 .. 5})

VARIABLES
    input,      \* the frame as the encoder made it
    remaining,  \* the bytes split_nalu has not looked at
    nalus,      \* the units found and not yet sent out
    out         \* the bytes of the frame that is sent

frameVars == <<input, remaining, nalus, out>>
vars == <<frameVars, pc, spsVars>>

FrameBytes(f) == FlattenSeq([i \in DOMAIN f |-> f[i].code \o f[i].unit])

Init ==
    /\ input \in Frames
    /\ remaining = FrameBytes(input)
    /\ nalus = <<>>
    /\ out = <<>>
    /\ pc = "split"
    /\ reader = NewReader(<<>>)
    /\ writer = NewWriter
    /\ chroma_format_idc = 0
    /\ list = 0
    /\ max_num_ref_frames = 0
    /\ hrd = FALSE

\* Leaves the first zero of a long start code to the unit before it.
MutantSplitUnit ==
    /\ pc = "split"
    /\ remaining # <<>>
    /\ LET p == find_start_code(remaining)
           nalu == IF p = 0 THEN remaining ELSE SubSeq(remaining, 1, p - 1)
       IN /\ remaining' = SplitRound(remaining).rest
          /\ nalus' = IF nalu = <<>> THEN nalus ELSE Append(nalus, nalu)
    /\ UNCHANGED <<input, out, pc, spsVars>>

\* Keeps empty units.
MutantKeepEmpty ==
    /\ pc = "split"
    /\ remaining # <<>>
    /\ remaining' = SplitRound(remaining).rest
    /\ nalus' = Append(nalus, SplitRound(remaining).nalu)
    /\ UNCHANGED <<input, out, pc, spsVars>>

SplitUnit ==
    /\ pc = "split"
    /\ remaining # <<>>
    /\ LET s == SplitRound(remaining)
       IN /\ remaining' = s.rest
          /\ nalus' = IF s.nalu = <<>> THEN nalus ELSE Append(nalus, s.nalu)
    /\ UNCHANGED <<input, out, pc, spsVars>>

SplitEnd ==
    /\ pc = "split"
    /\ remaining = <<>>
    /\ pc' = "units"
    /\ UNCHANGED <<frameVars, spsVars>>

PassUnit ==
    /\ pc = "units"
    /\ nalus # <<>>
    /\ nal_unit_type(Head(nalus)) # Sps
    /\ out' = out \o START_CODE \o Head(nalus)
    /\ nalus' = Tail(nalus)
    /\ UNCHANGED <<input, remaining, pc, spsVars>>

BeginSps ==
    /\ pc = "units"
    /\ nalus # <<>>
    /\ nal_unit_type(Head(nalus)) = Sps
    /\ Begin(Head(nalus))
    /\ out' = out \o START_CODE
    /\ UNCHANGED <<input, remaining, nalus>>

\* Sends the unit it was given.
MutantEndSps ==
    /\ pc = "rewritten"
    /\ out' = out \o Head(nalus)
    /\ nalus' = Tail(nalus)
    /\ pc' = "units"
    /\ UNCHANGED <<input, remaining, spsVars>>

EndSps ==
    /\ pc = "rewritten"
    /\ out' = out \o writer.arr
    /\ nalus' = Tail(nalus)
    /\ pc' = "units"
    /\ UNCHANGED <<input, remaining, spsVars>>

SendFrame ==
    /\ pc = "units"
    /\ nalus = <<>>
    /\ pc' = "sent"
    /\ UNCHANGED <<frameVars, spsVars>>

Next ==
    \/ SplitUnit
    \/ SplitEnd
    \/ PassUnit
    \/ BeginSps
    \/ RewriteSps /\ UNCHANGED frameVars
    \/ EndSps
    \/ SendFrame

Spec == Init /\ [][Next]_vars

-----------------------------------------------------------------------------
(* Properties.                                                             *)

Bytes == Seq(Byte)

TypeOK ==
    /\ remaining \in Bytes /\ out \in Bytes
    /\ nalus \in Seq(Bytes \ {<<>>})
    /\ pc \in SpsParts \cup {"split", "units", "rewritten", "sent", "panicked"}
    /\ reader.buffer \in Bytes
    /\ reader.byte_offset \in 0 .. Len(reader.buffer)
    /\ reader.bit_offset \in 0 .. 7
    /\ writer.arr \in Bytes
    /\ writer.pending_byte \in Byte
    /\ writer.bit_offset \in 0 .. 7
    /\ list \in 0 .. 12 /\ hrd \in BOOLEAN
    /\ chroma_format_idc \in Nat /\ max_num_ref_frames \in Nat

TrailingZeros(s) == \E n \in 0 .. Len(s) : s = Repeat(n, 0)

\* s is t, or t and zeros behind it.
UpToZeros(s, t) == IsPrefix(t, s) /\ TrailingZeros(SubSeq(s, Len(t) + 1, Len(s)))

(* split_nalu finds the encoder's units, every one and nothing else,        *)
(* whichever start codes stand between them and whatever zeros the units    *)
(* hold; zeros beyond a start code's stay behind the unit before it        *)
(* (annexb.rs:178-231).                                                    *)
UnitsFound ==
    pc = "units" /\ out = <<>> =>
        /\ Len(nalus) = Len(input)
        /\ \A i \in DOMAIN nalus : UpToZeros(nalus[i], input[i].unit)

(* At no moment do the bytes written hold a start code, nor zeros that      *)
(* would make one with what follows: taking the video signal's type out     *)
(* moves every later field to other bits, and so into new bytes.           *)
WriterEscapes == NoEmulation(writer.arr)

\* The unit the sender is at.
Current == input[Len(input) - Len(nalus) + 1]

(* A rewritten set is, byte for byte, the encoding of the set that was sent *)
(* with only the VUI changed: no reordering, as many buffered frames as     *)
(* reference frames, no video signal type (sps_vui.rs:3, 250, 252, 180).    *)
SpsPatched ==
    pc = "rewritten" =>
        LET s == Current.sps[1]
        IN ~EndsEarly(s) => writer.arr = SpsUnit(Patched(s))

(* Only a set with a scaling list that ends early makes the rewriter read   *)
(* past the end of the unit, where it panics (annexb_rw.rs:31, sps_vui.rs:71). *)
PanicsOnEarlyEnd == pc = "panicked" => EndsEarly(Current.sps[1])

\* What goes out for a unit, with the zeros in front of the next one's code.
SentUnit(i) ==
    IF input[i].sps # <<>> THEN SpsUnit(Patched(input[i].sps[1]))
    ELSE input[i].unit
         \o (IF i = Len(input) THEN <<>> ELSE Repeat(Len(input[i + 1].code) - Len(START_CODE), 0))

(* The frame sent has each unit once, in order, behind one start code: the  *)
(* rewritten sets in the places of the old ones, the others untouched.     *)
FrameSent ==
    pc = "sent" /\ (\A i \in DOMAIN input : \A s \in Range(input[i].sps) : ~EndsEarly(s)) =>
        out = FlattenSeq([i \in DOMAIN input |-> START_CODE \o SentUnit(i)])
=============================================================================
