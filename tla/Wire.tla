-------------------------------- MODULE Wire --------------------------------
(***************************************************************************)
(* The encodings of the MySQL protocol library: numbers and strings with   *)
(* their length, and packets cut into frames with a sequence number.       *)
(*                                                                         *)
(* A byte is a digit of base Base (256 in the code), so that the marker    *)
(* bytes 0xfb to 0xff are the five largest digits and numbers of few       *)
(* digits reach every case. Names, codes and hashes are single elements.   *)
(***************************************************************************)
EXTENDS Integers, Sequences, SequencesExt, FiniteSetsExt

CONSTANTS Base,           \* values of a byte
          MaxPayloadLen,  \* largest payload of a frame, 2^24 - 1 in the code
          SeqSize         \* sequence numbers, a uint8 in the code

ASSUME WireAssumption == /\ Base \in Nat /\ Base >= 8 /\ Base % 2 = 0
                         /\ MaxPayloadLen \in Nat \ {0}
                         /\ SeqSize\in Nat \ {0, 1}

OK_HEADER  == 0
MORE_DATE_HEADER == 1
NullByte   == Base - 5   \* 0xfb, also LocalInFile_HEADER
TwoByte    == Base - 4   \* 0xfc
ThreeByte  == Base - 3   \* 0xfd
EightByte  == Base - 2   \* 0xfe
EOF_HEADER == Base - 2
ERR_HEADER == Base - 1

(* the bytes of b from 0-based position pos on, and n bytes there *)
From(b, pos) == SubSeq(b, pos + 1, Len(b))
Slice(b, pos, n) == SubSeq(b, pos + 1, pos + n)

(* Uint16ToBytes, Uint32ToBytes and Uint64ToBytes: the k low bytes of n,   *)
(* in two's complement when n is negative.                                 *)
UintToBytes(n, k) == [i \in 1..k |-> (n \div Base^(i - 1)) % Base]

FixedLengthInt(b) ==
    LET digit(acc, d) == acc * Base + d IN FoldLeft(digit, 0, Reverse(b))

ParseBinaryUint(b) == FixedLengthInt(b)

ParseBinaryInt(b) ==
    LET signed(u) == IF 2 * u >= Base^Len(b) THEN u - Base^Len(b) ELSE u
    IN  signed(FixedLengthInt(b))

PutLengthEncodedInt(n) ==
    CASE n < NullByte -> <<n>>
      [] n >= NullByte /\ n < Base^2 -> <<TwoByte>> \o UintToBytes(n, 2)
      [] n >= Base^2 /\ n < Base^3 -> <<ThreeByte>> \o UintToBytes(n, 3)
      [] OTHER -> <<EightByte>> \o UintToBytes(n, 8)

AppendLengthEncodedInteger(b, n) == b \o PutLengthEncodedInt(n)

(* how many bytes follow a first byte that is a marker *)
Follow(d) == CASE d = TwoByte -> 2 [] d = ThreeByte -> 3 [] d = EightByte -> 8
               [] OTHER -> 0

(* [num, isNull, n, short]: the number at the start of b and the bytes it  *)
(* takes; short when b ends too early, which is an index error in the code *)
LengthEncodedInt(b) ==
    IF b = <<>> THEN [num |-> 0, isNull |-> TRUE, n |-> 0, short |-> FALSE]
    ELSE LET k == Follow(b[1]) IN
         IF Len(b) < 1 + k
         THEN [num |-> 0, isNull |-> FALSE, n |-> 0, short |-> TRUE]
         ELSE [num |-> IF b[1] = NullByte THEN 0
                       ELSE IF k = 0 THEN b[1] ELSE FixedLengthInt(Slice(b, 1, k)),
               isNull |-> b[1] = NullByte, n |-> 1 + k, short |-> FALSE]

LengthEncodedString(b) ==
    LET behind(i) ==
            LET end == i.n + i.num IN
            [str |-> IF i.short \/ Len(b) < end THEN <<>> ELSE Slice(b, i.n, i.num),
             isNull |-> i.isNull /\ i.num < 1, n |-> end,
             err |-> i.short \/ Len(b) < end, short |-> i.short]
    IN  behind(LengthEncodedInt(b))

PutLengthEncodedString(b) == PutLengthEncodedInt(Len(b)) \o b

(* bytes.IndexByte(b, 0x00) *)
IndexNul(b) == IF Contains(b, 0) THEN SelectInSeq(b, LAMBDA d : d = 0) - 1 ELSE -1
-----------------------------------------------------------------------------
(* Frames. tag is no part of a frame: it names the exchange it belongs to, *)
(* for the properties.                                                     *)

Min2(a, b) == IF a < b THEN a ELSE b

(* Mutant: no empty frame behind a payload that ends with a full one *)
WritePacketNoTail(seq, data, tag) ==
    [i \in 1..(IF data = <<>> THEN 1 ELSE (Len(data) - 1) \div MaxPayloadLen + 1) |->
        [seq |-> (seq + i - 1) % SeqSize, tag |-> tag,
         data |-> Slice(data, (i - 1) * MaxPayloadLen,
                        Min2(MaxPayloadLen, Len(data) - (i - 1) * MaxPayloadLen))]]

(* WritePacket: full frames, then one that is not full, maybe empty *)
WritePacket(seq, data, tag) ==
    [i \in 1..(Len(data) \div MaxPayloadLen + 1) |->
        [seq |-> (seq + i - 1) % SeqSize, tag |-> tag,
         data |-> Slice(data, (i - 1) * MaxPayloadLen,
                        Min2(MaxPayloadLen, Len(data) - (i - 1) * MaxPayloadLen))]]

(* the same for a list of packets *)
WritePackets(seq, packets, tag) ==
    LET add(acc, p) == acc \o WritePacket((seq + Len(acc)) % SeqSize, p, tag)
    IN  FoldLeft(add, <<>>, packets)

(* ReadPacketTo: frames up to the first that is not full. "wait": they     *)
(* have not all arrived; "seq": a frame is not the expected one.           *)
ReadPacket(seq, frames) ==
    LET last == {i \in 1..Len(frames) : Len(frames[i].data) < MaxPayloadLen}
        packet(k) ==
            [status |-> IF \E i \in 1..k : frames[i].seq # (seq + i - 1) % SeqSize
                        THEN "seq" ELSE IF last = {} THEN "wait" ELSE "ok",
             data |-> FlattenSeq([i \in 1..k |-> frames[i].data]),
             seq |-> (seq + k) % SeqSize,
             rest |-> SubSeq(frames, k + 1, Len(frames)),
             tags |-> {frames[i].tag : i \in 1..k}]
    IN  packet(IF last = {} THEN Len(frames) ELSE Min(last))

=============================================================================
