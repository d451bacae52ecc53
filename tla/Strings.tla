------------------------------ MODULE Strings ------------------------------
(***************************************************************************)
(* The string commands of IceFireDB-NoSQL that look inside a value: ranges *)
(* and bits.  A value is a sequence of bytes of ByteBits bits (8 in the    *)
(* code), numbered from the most significant one; Nil is no value.         *)
(***************************************************************************)
EXTENDS Integers, Sequences, FiniteSets, SequencesExt

CONSTANTS ByteBits,
          OffsetBits,  \* width of the bit offset in ledis (32)
          Nil

ASSUME StringsAssumption == ByteBits \in Nat \ {0} /\ OffsetBits \in Nat \ {0}

Byte == 0..(2^ByteBits - 1)
Bytes(s) == IF s = Nil THEN <<>> ELSE s
Zeros(n) == [i \in 1..n |-> 0]
Pad(s, n) == IF Len(s) < n THEN s \o Zeros(n - Len(s)) ELSE s

\* Bit j of byte b, j = 0 being the most significant.
BitOf(b, j) == (b \div 2^(ByteBits - 1 - j)) % 2
BitAt(s, i) == BitOf(s[i \div ByteBits + 1], i % ByteBits)
Bits(s) == Len(s) * ByteBits

-----------------------------------------------------------------------------
CmdGET(s) == s
CmdMGET(ss) == ss
CmdEXISTS(ss) == Cardinality({i \in DOMAIN ss : ss[i] # Nil})
CmdSTRLEN(s) == IF s = Nil THEN 0 ELSE Len(s)

\* TTL: -2 without a value; ttl is -1 when the database has no time left.
CmdTTL(s, ttl) == IF s = Nil THEN -2 ELSE ttl

\* An empty argument is answered with 0, and nothing is written.
CmdAPPEND(s, v) == IF v = <<>> THEN s ELSE Bytes(s) \o v

CmdSETRANGE(s, offset, v) ==
    IF v = <<>> THEN s
    ELSE LET p == Pad(Bytes(s), offset + Len(v))
         IN  [i \in DOMAIN p |-> IF i \in (offset + 1)..(offset + Len(v)) THEN v[i - offset] ELSE p[i]]

\* getRange, getBitRange: ends counted from the end, then clamped.
GetRange(a, b, n) ==
    LET start == IF a < 0 THEN n + a ELSE a
        end == IF b < 0 THEN n + b ELSE b
        from == IF start < 0 THEN 0 ELSE start
        to == IF end < 0 THEN 0 ELSE end
    IN  <<from, IF to >= n THEN n - 1 ELSE to>>

CmdGETRANGE(s, a, b) ==
    LET r == GetRange(a, b, Len(Bytes(s)))
    IN  IF r[1] > r[2] THEN <<>> ELSE SubSeq(Bytes(s), r[1] + 1, r[2] + 1)

\* An offset is cut to its width.
CmdSETBIT(s, offset, on) ==
    LET o == offset % 2^OffsetBits
        p == Pad(Bytes(s), o \div ByteBits + 1)
        weight == 2^(ByteBits - 1 - (o % ByteBits))
    IN  [p EXCEPT ![o \div ByteBits + 1] = @ + (on - BitAt(p, o)) * weight]

CmdGETBIT(s, offset) ==
    LET o == offset % 2^OffsetBits
    IN  IF o >= Bits(Bytes(s)) THEN 0 ELSE BitAt(Bytes(s), o)

\* BITOP by value: the result is as long as the longest source.
BitOfOp(op, x, y) ==
    CASE op = "AND" -> x * y
      [] op = "OR"  -> x + y - x * y
      [] op = "XOR" -> (x + y) % 2

FromBits(bits) == FoldLeft(LAMBDA x, b : 2 * x + b, 0, bits)

Combine(op, s, t) ==
    LET n == IF Len(s) < Len(t) THEN Len(t) ELSE Len(s)
        p == Pad(s, n)  q == Pad(t, n)
    IN  [i \in 1..n |-> FromBits([j \in 1..ByteBits |->
            BitOfOp(op, BitOf(p[i], j - 1), BitOf(q[i], j - 1))])]

\* NOT needs three arguments and at least four, so it is always refused; one
\* source is answered with 0 and nothing is written to dst.
CmdBITOP(op, dst, ss) ==
    IF op = "NOT" \/ Len(ss) < 2 THEN dst
    ELSE FoldLeft(LAMBDA x, y : Combine(op, x, Bytes(y)), Bytes(ss[1]), Tail(ss))

\* BITCOUNT refuses an end past the value, tested before negative ends count
\* from the end (validateRange); -1 stands for the error.
ValidateRange(a, b, n) ==
    LET start == IF a < 0 THEN n + a ELSE a
        end == IF b < 0 THEN n + b ELSE b
        from == IF start < 0 THEN 0 ELSE start
    IN  IF a >= n \/ b >= n \/ from > end THEN <<>> ELSE <<from, end>>

\* parseBitRange: unit is "BYTE" unless the client says "BIT".
CmdBITCOUNT(s, a, b, unit) ==
    LET r == ValidateRange(a, b, IF unit = "BIT" THEN Bits(s) ELSE Len(s))
        from == IF unit = "BIT" THEN r[1] ELSE r[1] * ByteBits
        to == IF unit = "BIT" THEN r[2] ELSE r[2] * ByteBits + ByteBits - 1
    IN  IF s = Nil THEN 0 ELSE IF r = <<>> THEN -1
        ELSE Cardinality({i \in from..to : BitAt(s, i) = 1})

\* BITPOS: in the first byte of the range the search goes on to its last bit,
\* even when the range ends in that byte.  (BIT ranges are for values only.)
CmdBITPOS(s, on, a, b, unit) ==
    LET v == Bytes(s)
        r == GetRange(a, b, IF unit = "BIT" THEN Bits(v) ELSE Len(v))
        from == IF unit = "BIT" THEN r[1] ELSE r[1] * ByteBits
        to == IF unit = "BIT" THEN r[2] ELSE r[2] * ByteBits + ByteBits - 1
        first == from \div ByteBits
        last == to \div ByteBits
        until == IF first = last THEN last * ByteBits + ByteBits - 1 ELSE to
        found == {i \in from..until : BitAt(v, i) = on}
    IN  IF r[2] < 0 \/ first > last \/ found = {} THEN -1
        ELSE CHOOSE i \in found : \A j \in found : i <= j
=============================================================================
