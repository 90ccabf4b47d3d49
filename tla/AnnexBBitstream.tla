---------------------------- MODULE AnnexBBitstream ----------------------------
(***************************************************************************)
(* The bit reader and writer of an H264 unit                               *)
(* (src/src/processing/annexb_rw.rs) as operators on their values.  A       *)
(* reader is [buffer, byte_offset, bit_offset, ok], where ok turns false    *)
(* when the code would panic past the end of the buffer; a writer is        *)
(* [arr, pending_byte, bit_offset].  A loop of the code is a function of    *)
(* how many of its rounds were run.                                        *)
(*                                                                         *)
(* TLC's integers are below 2^31, so that is the bound of the values read   *)
(* and written here; exp-Golomb numbers wrap at the width WordBits.         *)
(***************************************************************************)
EXTENDS Integers, Sequences, FiniteSetsExt

CONSTANT WordBits   \* bits of u32 and i32, 32 in the code

ASSUME WordBitsAssumption == WordBits \in 8 .. 32

Byte == 0 .. 255

\* v >> n, for a value below 2^31.
Shr(v, n) == IF n > 30 THEN 0 ELSE v \div 2^n

-----------------------------------------------------------------------------
(* The reader.                                                             *)

NewReader(buffer) == [buffer |-> buffer, byte_offset |-> 0, bit_offset |-> 0, ok |-> TRUE]

\* The byte `back` places before the one to be read.
ByteAt(r, back) == r.buffer[r.byte_offset + 1 - back]

\* The byte to be read, after the one inserted between 00 00 and 00 to 03.
SkipEmulation(r) ==
    IF /\ r.bit_offset = 0
       /\ r.byte_offset >= 2
       /\ ByteAt(r, 2) = 0 /\ ByteAt(r, 1) = 0 /\ ByteAt(r, 0) = 3
    THEN [r EXCEPT !.byte_offset = @ + 1]
    ELSE r

AtEnd(r) == r.byte_offset >= Len(r.buffer)

\* Takes k bits of the current byte.
TakeBits(s, k) ==
    LET next == s.r.bit_offset + k
    IN [r    |-> [s.r EXCEPT !.bit_offset = next % 8, !.byte_offset = @ + next \div 8],
        left |-> s.left - k,
        val  |-> s.val * 2^k + (Shr(ByteAt(s.r, 0), 8 - next) % 2^k)]

ReadByte(s) ==
    IF AtEnd(s.r) THEN [s EXCEPT !.r.ok = FALSE]
    ELSE TakeBits(s, Min({s.left, 8 - s.r.bit_offset}))

(* One round of read_bits, which takes what is left of the current byte or *)
(* as much of it as is asked for.                                          *)
ReadChunk(s) ==
    IF ~s.r.ok \/ s.left = 0 THEN s
    ELSE ReadByte(IF AtEnd(s.r) THEN s ELSE [s EXCEPT !.r = SkipEmulation(@)])

BitsRead(s) == [r |-> s.r, val |-> IF s.r.ok THEN s.val ELSE 0]

\* A round ends at a byte's end or at the end.
ReadBits(r, count) ==
    LET round[n \in Nat] ==
            IF n = 0 THEN [r |-> r, left |-> count, val |-> 0] ELSE ReadChunk(round[n - 1])
    IN BitsRead(round[(r.bit_offset + count + 7) \div 8])

\* The bits read so far end with b.
CountBit(s, b) == [r |-> b.r, val |-> b.val, zeros |-> s.zeros + 1]

(* Reads bits until one is set, or one cannot be read.                     *)
LeadingZeros(r) ==
    LET round[n \in 0 .. WordBits + 1] ==
            IF n = 0 THEN [r |-> r, val |-> 0, zeros |-> -1]
            ELSE LET s == round[n - 1]
                 IN IF s.val = 1 \/ ~s.r.ok THEN s ELSE CountBit(s, ReadBits(s.r, 1))
    IN round[WordBits + 1]

(* More zeros than the word has bits overflow the shift, which panics too. *)
UeValue(z, info) ==
    IF z.zeros >= WordBits \/ ~info.r.ok
    THEN [r |-> [info.r EXCEPT !.ok = FALSE], val |-> 0]
    ELSE [r |-> info.r, val |-> 2^z.zeros + info.val - 1]

InfoRead(z) == UeValue(z, ReadBits(z.r, z.zeros))

ReadUe(r) == InfoRead(LeadingZeros(r))

\* Even numbers are the negative ones and zero.
ReadSe(r) == [ReadUe(r) EXCEPT !.val = IF @ % 2 = 0 THEN -(@ \div 2) ELSE (@ + 1) \div 2]

-----------------------------------------------------------------------------
(* The writer.                                                             *)

NewWriter == [arr |-> <<>>, pending_byte |-> 0, bit_offset |-> 0]

\* Escapes what would be a start code, and not the zeros of one.
MutantFlush(w) ==
    LET n == Len(w.arr)
        emulates == /\ w.pending_byte = 1
                    /\ n >= 2 /\ w.arr[n - 1] = 0 /\ w.arr[n] = 0
    IN [arr          |-> w.arr \o (IF emulates THEN <<3>> ELSE <<>>) \o <<w.pending_byte>>,
        pending_byte |-> 0,
        bit_offset   |-> 0]

\* The pending byte, behind a 3 when it would look like part of a start code.
Flush(w) ==
    LET n == Len(w.arr)
        emulates == /\ w.pending_byte <= 3
                    /\ n >= 2 /\ w.arr[n - 1] = 0 /\ w.arr[n] = 0
    IN [arr          |-> w.arr \o (IF emulates THEN <<3>> ELSE <<>>) \o <<w.pending_byte>>,
        pending_byte |-> 0,
        bit_offset   |-> 0]

FlushFinal(w) == IF w.bit_offset > 0 THEN Flush(w) ELSE w

FlushFull(w) == IF w.bit_offset = 8 THEN Flush(w) ELSE w

\* Puts the next k of the bits behind those of the pending byte.
PutBits(s, bits, k) ==
    LET next == s.w.bit_offset + k
    IN [w    |-> FlushFull([s.w EXCEPT
                    !.pending_byte = @ + (Shr(bits, s.left - k) % 2^k) * 2^(8 - next),
                    !.bit_offset = next]),
        left |-> s.left - k]

\* One round of write_bits, which fills the pending byte as far as it goes.
WriteChunk(s, bits) ==
    IF s.left = 0 THEN s ELSE PutBits(s, bits, Min({8 - s.w.bit_offset, s.left}))

WriteBits(w, bits, count) ==
    LET round[n \in Nat] ==
            IF n = 0 THEN [w |-> w, left |-> count] ELSE WriteChunk(round[n - 1], bits)
    IN round[(w.bit_offset + count + 7) \div 8].w

\* 32 - leading_zeros
BitCount(n) == CHOOSE k \in 1 .. WordBits : 2^(k - 1) <= n /\ n < 2^k

WriteUe(w, num) ==
    LET n == (num + 1) % 2^WordBits
    IN WriteBits(WriteBits(w, 0, BitCount(n) - 1), n, BitCount(n))

\* -2 * num and 2 * num - 1 are computed in i32 and wrap in a release build.
WriteSe(w, num) ==
    WriteUe(w, (IF num <= 0 THEN -2 * num ELSE 2 * num - 1) % 2^WordBits)
=============================================================================
