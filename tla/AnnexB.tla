-------------------------------- MODULE AnnexB --------------------------------
(***************************************************************************)
(* Units in a frame (src/src/processing/annexb.rs): where the next start    *)
(* code is, and what kind of unit a first byte announces.                  *)
(***************************************************************************)
EXTENDS Integers, Sequences, FiniteSetsExt

START_CODE == <<0, 0, 0, 1>>

\* Where the first 00 00 01 begins, 0 if there is none.
find_start_code(buf) ==
    LET found == {i \in 1 .. Len(buf) - 2 : SubSeq(buf, i, i + 2) = <<0, 0, 1>>}
    IN IF found = {} THEN 0 ELSE Min(found)

\* One round of split_nalu: the unit in front of the code, and what is behind.
SplitRound(buf) ==
    LET p == find_start_code(buf)
        long == p > 1 /\ buf[p - 1] = 0
    IN IF p = 0 THEN [nalu |-> buf, rest |-> <<>>]
       ELSE [nalu |-> SubSeq(buf, 1, IF long THEN p - 2 ELSE p - 1),
             rest |-> SubSeq(buf, p + 3, Len(buf))]

nal_unit_type(nalu) == nalu[1] % 32

\* H264NalUnitType::Sps
Sps == 7
=============================================================================
