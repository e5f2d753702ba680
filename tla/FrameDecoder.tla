------------------------------ MODULE FrameDecoder ------------------------------
(***************************************************************************)
(* The wire format of FrameCodec and the stream decoder FrameDecoder: what *)
(* appendData() makes of a buffer, as functions.                           *)
(*                                                                         *)
(* The header is scaled down to the magic and the length, which are what   *)
(* finding a frame depends on, and the length to one byte.  A byte knows   *)
(* the frame it was encoded for and its place there, so that the checksum  *)
(* can be an ideal one: it accepts the bytes of one unaltered frame and    *)
(* nothing else.  Version, message type and device id are checked before   *)
(* or after it on the same bytes, with the same outcome: an error.         *)
(***************************************************************************)
EXTENDS Integers, Sequences

CONSTANTS
    kMagicHigh, kMagicLow,  \* 0x4d and 0x55
    kMaxFrameSize,          \* scaled: header, payload and checksum
    Contents                \* of a frame after its length, the magic not excluded

kHeaderSize == 3
kCrcSize == 1
kMinFrameSize == kHeaderSize + kCrcSize

ASSUME DecoderAssumption ==
    /\ kMaxFrameSize \in Nat /\ kMaxFrameSize >= kMinFrameSize
    /\ {kMagicHigh, kMagicLow} \subseteq Nat

\* `of' is a sequence number and `at' the place in that frame, 0 in damaged bytes.
Byte == [value: Nat, of: Nat, at: 0..kMaxFrameSize]

-----------------------------------------------------------------------------
(* FrameCodec *)

\* A frame of the given size: magic, length, contents.
Encode(size, sequence) ==
    [k \in 1..size |->
        [value |-> CASE k = 1 -> kMagicHigh
                     [] k = 2 -> kMagicLow
                     [] k = 3 -> size
                     [] OTHER -> Contents[sequence][k],
         of |-> sequence, at |-> k]]

\* FrameEncoder::encodeTelemetryWithBadCrc()
WithBadCrc(frame) == [frame EXCEPT ![Len(frame)].at = 0]

\* Bytes as they are, that belong to no frame.
Raw(values) == [k \in DOMAIN values |-> [value |-> values[k], of |-> 0, at |-> 0]]

FrameSizeFromHeader(data) == data[3].value

HasMagic(data, offset) ==
    /\ offset + 2 <= Len(data)
    /\ data[offset + 1].value = kMagicHigh /\ data[offset + 2].value = kMagicLow

\* Mutant: the checksum is not compared.
Decodes_AnyCrc(data) ==
    HasMagic(data, 0) /\ Len(data) >= kMinFrameSize /\ FrameSizeFromHeader(data) = Len(data)

\* FrameCodec::decode() answers Ok for a slice as long as its header says.
Decodes(data) ==
    /\ HasMagic(data, 0)
    /\ Len(data) >= kMinFrameSize /\ FrameSizeFromHeader(data) = Len(data)
    /\ \A k \in DOMAIN data : data[k].at = k /\ data[k].of = data[1].of

-----------------------------------------------------------------------------
(* FrameDecoder.  Offsets count from 0, as in the code. *)

Smallest(S) == CHOOSE n \in S : \A m \in S : n <= m

Mid(data, offset, length) == SubSeq(data, offset + 1, offset + length)

\* indexOf(magic), -1 if there is none.
MagicIndex(buffer) ==
    LET found == {k \in 0..Len(buffer) : HasMagic(buffer, k)}
    IN  IF found = {} THEN -1 ELSE Smallest(found)

CompleteFrameAt(data, k) ==
    /\ HasMagic(data, k)
    /\ Len(data) - k >= kHeaderSize
    /\ LET size == data[k + 3].value
       IN  /\ size >= kMinFrameSize /\ size <= kMaxFrameSize
           /\ Len(data) - k >= size
           /\ Decodes(Mid(data, k, size))

\* Mutant: the search stops before the last place a frame fits.
FindNextCompleteFrame_Short(data, startOffset, endOffset) ==
    LET bound == IF endOffset < Len(data) - kMinFrameSize THEN endOffset
                 ELSE Len(data) - kMinFrameSize - 1
        found == {k \in startOffset..bound : CompleteFrameAt(data, k)}
    IN  IF found = {} THEN -1 ELSE Smallest(found)

FindNextCompleteFrame(data, startOffset, endOffset) ==
    LET bound == IF endOffset < Len(data) - kMinFrameSize THEN endOffset
                 ELSE Len(data) - kMinFrameSize
        found == {k \in startOffset..bound : CompleteFrameAt(data, k)}
    IN  IF found = {} THEN -1 ELSE Smallest(found)

\* What one turn of the loop does: bytes removed, and the frame they were, if any.
Drop(n) == [removed |-> n, frame |-> << >>]
Wait == Drop(0)

\* Mutant: a first magic byte at the end is dropped.
NoMagic_DropAll(buffer) == Drop(Len(buffer))

\* Everything goes but a last byte that may be half a magic.
NoMagic(buffer) ==
    Drop(IF buffer[Len(buffer)].value = kMagicHigh THEN Len(buffer) - 1 ELSE Len(buffer))

Resynchronize(buffer, endOffset, otherwise) ==
    LET next == FindNextCompleteFrame(buffer, 1, endOffset)
    IN  IF next > 0 THEN Drop(next) ELSE otherwise

Turn(buffer) ==
    LET index == MagicIndex(buffer)
        size == FrameSizeFromHeader(buffer)
    IN  IF index < 0 THEN NoMagic(buffer)
        ELSE IF index > 0 THEN Drop(index)
        ELSE IF Len(buffer) < kHeaderSize THEN Wait
        ELSE IF size < kMinFrameSize \/ size > kMaxFrameSize
             THEN Resynchronize(buffer, Len(buffer), Drop(1))
        ELSE IF Len(buffer) < size THEN Resynchronize(buffer, size - 1, Wait)
        ELSE IF Decodes(Mid(buffer, 0, size))
             THEN [removed |-> size, frame |-> <<buffer[1].of>>]
        ELSE Resynchronize(buffer, size - 1, Drop(size))

\* The loop of appendData(): what is left in the buffer, and the decoded frames.
Drain[buffer \in Seq(Byte)] ==
    IF buffer = << >> THEN [rest |-> << >>, frames |-> << >>]
    ELSE LET turn == Turn(buffer)
         IN  IF turn.removed = 0 THEN [rest |-> buffer, frames |-> << >>]
             ELSE LET after == Drain[SubSeq(buffer, turn.removed + 1, Len(buffer))]
                  IN  [rest |-> after.rest, frames |-> turn.frame \o after.frames]

=============================================================================
