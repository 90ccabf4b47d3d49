-------------------------------- MODULE SpsVui --------------------------------
(***************************************************************************)
(* rewrite_sps_vui (src/src/processing/sps_vui.rs): a sequence parameter    *)
(* set is read field by field and written again, with its VUI changed so   *)
(* that a decoder does not hold frames back to reorder them.               *)
(*                                                                         *)
(* pc is the part of the function that is next; a step is one part.  A      *)
(* part reads and writes fields one after the other, so it is a chain of    *)
(* cursors [reader, writer, vals]: the two ends, and the values read last.  *)
(***************************************************************************)
EXTENDS AnnexBBitstream, H264Syntax

VARIABLES
    pc,
    reader,              \* over the unit behind its header byte
    writer,
    chroma_format_idc,
    list,                \* the scaling lists done
    max_num_ref_frames,
    hrd                  \* a NAL or VCL HRD was present

spsVars == <<reader, writer, chroma_format_idc, list, max_num_ref_frames, hrd>>

HIGH_PROFILES == {100, 110, 122, 244, 44, 83, 86, 118, 128, 138, 144}

SpsParts == {"high", "lists", "frame_num", "picture", "vui?", "vui", "nal_hrd", "vcl_hrd",
             "restriction", "stop"}

-----------------------------------------------------------------------------
(* Cursors.                                                                *)

Read(r, f) ==
    CASE f.code = "u"  -> ReadBits(r, f.n)
      [] f.code = "ue" -> ReadUe(r)
      [] f.code = "se" -> ReadSe(r)

Written(w, f, v) ==
    CASE f.code = "u"  -> WriteBits(w, v, f.n)
      [] f.code = "ue" -> WriteUe(w, v)
      [] f.code = "se" -> WriteSe(w, v)

Cursor == [reader |-> reader, writer |-> writer, vals |-> <<>>]

LastOf(c) == c.vals[Len(c.vals)]

Present(c) == LastOf(c) # 0

\* The cursor after x, a field's value and the reader behind it.
Moved(c, x, f, keep) ==
    [reader |-> x.r,
     writer |-> IF keep /\ x.r.ok THEN Written(c.writer, f, x.val) ELSE c.writer,
     vals   |-> Append(c.vals, x.val)]

\* Nothing happens behind a failed read.
TransferField(c, f, keep) ==
    IF c.reader.ok THEN Moved(c, Read(c.reader, f), f, keep)
    ELSE [c EXCEPT !.vals = Append(@, 0)]

\* Reads the fields, and writes each again if keep.
Transfer(c, fields, keep) ==
    LET upto[i \in 0 .. Len(fields)] ==
            IF i = 0 THEN [c EXCEPT !.vals = <<>>]
            ELSE TransferField(upto[i - 1], fields[i], keep)
    IN upto[Len(fields)]

Copy(c, fields) == Transfer(c, fields, TRUE)

Skip(c, fields) == Transfer(c, fields, FALSE)

CopyIf(c, fields) == IF Present(c) THEN Copy(c, fields) ELSE c

\* Writes what it should leave out.
MutantSkipIf(c, fields) == CopyIf(c, fields)

SkipIf(c, fields) == IF Present(c) THEN Skip(c, fields) ELSE c

Put(c, f, v) == [c EXCEPT !.writer = Written(@, f, v)]

\* Leaves the two ends at the cursor and goes on, unless a read has panicked.
Take(c, next) ==
    /\ reader' = c.reader
    /\ writer' = c.writer
    /\ pc' = IF c.reader.ok THEN next ELSE "panicked"

-----------------------------------------------------------------------------
(* The parts.                                                              *)

\* From the header byte to the set's id.
Begin(unit) ==
    LET start == [reader |-> NewReader(Tail(unit)),
                  writer |-> WriteBits(NewWriter, Head(unit), 8),
                  vals   |-> <<>>]
        c == Copy(start, <<u(8), u(8), u(8), ue>>)
    IN /\ Take(c, IF c.vals[1] \in HIGH_PROFILES THEN "high" ELSE "frame_num")
       /\ chroma_format_idc' = 0
       /\ list' = 0
       /\ max_num_ref_frames' = 0
       /\ hrd' = FALSE

CopyHighProfile ==
    /\ pc = "high"
    /\ LET chroma == Copy(Cursor, <<ue>>)
           plane == IF LastOf(chroma) = 3 THEN Copy(chroma, <<u(1)>>) ELSE chroma
           c == Copy(plane, <<ue, ue, u(1), u(1)>>)
       IN /\ chroma_format_idc' = LastOf(chroma)
          /\ Take(c, IF Present(c) THEN "lists" ELSE "frame_num")
    /\ UNCHANGED <<list, max_num_ref_frames, hrd>>

\* Runs the loop over the deltas once more (0..=size).
MutantScalingList ==
    /\ pc = "lists"
    /\ LET c == CopyIf(Copy(Cursor, <<u(1)>>), Repeat(IF list < 6 THEN 17 ELSE 65, se))
           count == IF chroma_format_idc # 3 THEN 8 ELSE 12
       IN Take(c, IF list + 1 = count THEN "frame_num" ELSE "lists")
    /\ list' = list + 1
    /\ UNCHANGED <<chroma_format_idc, max_num_ref_frames, hrd>>

\* All deltas of a list, also those behind one that makes the scale 0.
CopyScalingList ==
    /\ pc = "lists"
    /\ LET c == CopyIf(Copy(Cursor, <<u(1)>>), Repeat(IF list < 6 THEN 16 ELSE 64, se))
           count == IF chroma_format_idc # 3 THEN 8 ELSE 12
       IN Take(c, IF list + 1 = count THEN "frame_num" ELSE "lists")
    /\ list' = list + 1
    /\ UNCHANGED <<chroma_format_idc, max_num_ref_frames, hrd>>

CopyPicOrderCnt ==
    /\ pc = "frame_num"
    /\ LET c == Copy(Cursor, <<ue, ue>>)
           cycle == Copy(c, <<u(1), se, se, ue>>)
       IN Take(CASE LastOf(c) = 0 -> Copy(c, <<ue>>)
                 [] LastOf(c) = 1 -> Copy(cycle, Repeat(LastOf(cycle), se))
                 [] OTHER        -> c,
               "picture")
    /\ UNCHANGED <<chroma_format_idc, list, max_num_ref_frames, hrd>>

CopyPicture ==
    /\ pc = "picture"
    /\ LET refs == Copy(Cursor, <<ue>>)
           size == Copy(refs, <<u(1), ue, ue, u(1)>>)
           field == IF Present(size) THEN size ELSE Copy(size, <<u(1)>>)
           crop == Copy(field, <<u(1), u(1)>>)
       IN /\ max_num_ref_frames' = LastOf(refs)
          /\ Take(CopyIf(crop, Repeat(4, ue)), "vui?")
    /\ UNCHANGED <<chroma_format_idc, list, hrd>>

(* write_bitstream_restriction                                             *)
PutRestriction(c) ==
    Put(Put(Put(Put(Put(Put(Put(c, u(1), 1), ue, 2), ue, 1), ue, 16), ue, 16), ue, 0),
        ue, max_num_ref_frames)

\* A set without VUI gets one with nothing in it but the restriction.
CopyVuiFlag ==
    /\ pc = "vui?"
    /\ LET flag == Put(Skip(Cursor, <<u(1)>>), u(1), 1)
           minimal == Put(Put(Put(Put(flag, u(2), 0), u(1), 0), u(5), 0), u(1), 1)
       IN IF Present(flag) THEN Take(flag, "vui") ELSE Take(PutRestriction(minimal), "stop")
    /\ UNCHANGED <<chroma_format_idc, list, max_num_ref_frames, hrd>>

\* Up to the timing; the type of the video signal is read and left out.
CopyVui ==
    /\ pc = "vui"
    /\ LET aspect == CopyIf(Copy(Cursor, <<u(1)>>), <<u(8)>>)
           sar == IF LastOf(aspect) = 255 THEN Copy(aspect, <<u(16), u(16)>>) ELSE aspect
           overscan == CopyIf(Copy(sar, <<u(1)>>), <<u(1)>>)
           signal == SkipIf(Put(Skip(overscan, <<u(1)>>), u(1), 0), <<u(3), u(1), u(1)>>)
           colour == SkipIf(signal, <<u(8), u(8), u(8)>>)
           chroma == CopyIf(Copy(colour, <<u(1)>>), <<ue, ue>>)
           timing == CopyIf(Copy(chroma, <<u(1)>>), <<u(32), u(32), u(1)>>)
       IN Take(timing, "nal_hrd")
    /\ UNCHANGED <<chroma_format_idc, list, max_num_ref_frames, hrd>>

(* copy_hrd_parameters                                                     *)
CopyHrdParameters(c) ==
    LET cpb == Copy(c, <<ue>>)
        scales == Copy(cpb, <<u(4), u(4)>>)
        cpbs == Copy(scales, FlattenSeq(Repeat(LastOf(cpb) + 1, <<ue, ue, u(1)>>)))
    IN Copy(cpbs, Repeat(4, u(5)))

CopyHrd(part, next) ==
    /\ pc = part
    /\ LET flag == Copy(Cursor, <<u(1)>>)
       IN /\ Take(IF Present(flag) THEN CopyHrdParameters(flag) ELSE flag, next)
          /\ hrd' = (hrd \/ Present(flag))
    /\ UNCHANGED <<chroma_format_idc, list, max_num_ref_frames>>

CopyRestriction ==
    /\ pc = "restriction"
    /\ LET low_delay == IF hrd THEN Copy(Cursor, <<u(1)>>) ELSE Cursor
           flag == Put(Skip(Copy(low_delay, <<u(1)>>), <<u(1)>>), u(1), 1)
           limits == Copy(flag, <<u(1), ue, ue, ue, ue>>)
           reorder == Put(Skip(limits, <<ue>>), ue, 0)
       IN Take(IF Present(flag) THEN Put(Skip(reorder, <<ue>>), ue, max_num_ref_frames)
               ELSE PutRestriction(flag),
               "stop")
    /\ UNCHANGED <<chroma_format_idc, list, max_num_ref_frames, hrd>>

\* The stop bit and what is pending.
Finish ==
    /\ pc = "stop"
    /\ writer' = FlushFinal(WriteBits(writer, 1, 1))
    /\ pc' = "rewritten"
    /\ UNCHANGED <<reader, chroma_format_idc, list, max_num_ref_frames, hrd>>

RewriteSps ==
    \/ CopyHighProfile
    \/ CopyScalingList
    \/ CopyPicOrderCnt
    \/ CopyPicture
    \/ CopyVuiFlag
    \/ CopyVui
    \/ CopyHrd("nal_hrd", "vcl_hrd")
    \/ CopyHrd("vcl_hrd", "restriction")
    \/ CopyRestriction
    \/ Finish
=============================================================================
