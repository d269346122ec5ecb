---------------------------- MODULE BitStreamBits -----------------------------
(***************************************************************************)
(* What BitStream.cpp and the templates of BitStream.h put into a stream   *)
(* and get out of it, as operators over a stream [data, used].             *)
(*                                                                         *)
(* Memory is bits: bit i is in byte i \div 8, the most significant first.  *)
(* So are values: sequences of bits, byte by byte as they lie in memory,   *)
(* the least significant byte first (__BITSTREAM_NATIVE_END); a bool is    *)
(* one bit.  An item is how a value is written:                            *)
(*   bool, bits (right- or left-aligned), aligned bytes, compressed, delta *)
(*   (plain or compressed), player (a PlayerID: address and port) and      *)
(*   stream (the bits of another stream).                                  *)
(***************************************************************************)
EXTENDS Integers, Sequences

CONSTANT Room       \* bound: bytes of memory

ASSUME RoomAssumption == Room \in Nat

BITS_TO_BYTES(bits) == (bits + 7) \div 8

\* The bits of those bytes, and how many of them are padding.
Filled(bits) == 8 * BITS_TO_BYTES(bits)
Padding(bits) == Filled(bits) - bits

Zeros(n) == [i \in 1..n |-> 0]

-----------------------------------------------------------------------------
\* Writing: from a stream [data, used] to a stream.
Or(a, b) == IF a = 1 THEN 1 ELSE b

\* WriteBits overwrites a byte when it gets to it and ORs what follows into it,
\* the padding of the last one with zeros.
\* Mutant: of bytes that begin within those of the value, too.
BegunWithin(s, i) == s.used % 8 # 0 \/ i < Filled(s.used)
Begun(s, i) == i < Filled(s.used)

\* n bits at the write offset, with what else is in the last of their bytes.
Put(s, bits, n) ==
    LET end == Filled(s.used + n)
        bit(i) == IF i - s.used < Len(bits) THEN bits[i - s.used + 1] ELSE 0
    IN  [data |-> [i \in DOMAIN s.data |->
                      IF i < s.used \/ i >= end THEN s.data[i]
                      ELSE IF Begun(s, i) THEN Or(s.data[i], bit(i)) ELSE bit(i)],
         used |-> s.used + n]

\* The right-aligned bits of a byte that is not full are moved to its left.
Left(value, bits) ==
    LET full == 8 * (bits \div 8)
        padding == Padding(bits)
    IN  [k \in 1..bits |-> IF k <= full THEN value[k] ELSE value[k + padding]]

WriteBits(s, value, bits, rightAligned) ==
    Put(s, IF rightAligned THEN Left(value, bits) ELSE SubSeq(value, 1, Filled(bits)),
        bits)

\* Write0, Write1.
WriteBit(s, bit) == Put(s, <<bit>>, 1)

Aligned(s) == [s EXCEPT !.used = Filled(@)]

\* Byte j of a value is zero, and the last one that is not, or the first: what
\* WriteCompressed, for unsigned data, writes.
Size(value) == Len(value) \div 8
IsZero(value, j) == \A k \in (8 * j - 7)..(8 * j) : value[k] = 0

Significant(value) ==
    CHOOSE j \in 1..Size(value) :
        /\ j = 1 \/ ~IsZero(value, j)
        /\ \A k \in (j + 1)..Size(value) : IsZero(value, k)

\* A 1 for each high byte that is zero.
WriteOnes(s, n) == Put(s, [k \in 1..n |-> 1], n)

WriteCompressed(s, value) ==
    LET top == Significant(value)
        ones == WriteOnes(s, Size(value) - top)
    IN  IF top > 1 THEN WriteBits(WriteBit(ones, 0), value, 8 * top, TRUE)
        ELSE IF \A k \in 1..4 : value[k] = 0
        THEN WriteBits(WriteBit(ones, 1), value, 4, TRUE)
        ELSE WriteBits(WriteBit(ones, 0), value, 8, TRUE)

\* Write(BitStream*, n) copies n bits, or as many as the other stream has.
Copied(item) == IF item.bits < item.has THEN item.bits ELSE item.has

WriteStream(s, item) == Put(s, SubSeq(item.value, 1, Copied(item)), Copied(item))

\* Write<T>, whole bytes.
WriteValue(s, value) == WriteBits(s, value, Len(value), TRUE)

WriteAlignedBytes(s, value) == WriteValue(Aligned(s), value)

\* Write(PlayerID): the address, 32 bits, and the port.
Address(value) == SubSeq(value, 1, 32)
Port(value) == SubSeq(value, 33, 48)

WritePlayer(s, value) == WriteValue(WriteValue(s, Address(value)), Port(value))

WriteDelta(s, item) ==
    IF item.value = item.last THEN WriteBit(s, 0)
    ELSE WriteValue(WriteBit(s, 1), item.value)

WriteCompressedDelta(s, item) ==
    IF item.value = item.last THEN WriteBit(s, 0)
    ELSE WriteCompressed(WriteBit(s, 1), item.value)

WriteItem(s, item) ==
    CASE item.kind = "bool" -> WriteBit(s, item.value[1])
      [] item.kind = "bits" ->
            WriteBits(s, item.value, item.bits, item.rightAligned)
      [] item.kind = "aligned" -> WriteAlignedBytes(s, item.value)
      [] item.kind = "compressed" -> WriteCompressed(s, item.value)
      [] item.kind = "delta" /\ ~item.packed -> WriteDelta(s, item)
      [] item.kind = "delta" /\ item.packed -> WriteCompressedDelta(s, item)
      [] item.kind = "player" -> WritePlayer(s, item.value)
      [] item.kind = "stream" -> WriteStream(s, item)

-----------------------------------------------------------------------------
\* Reading: from a stream and an offset to [ok, value, at].
Fails(at) == [ok |-> FALSE, value |-> <<>>, at |-> at]

\* Mutant: one bit less has to be there.
HasBitsAlmost(s, at, bits) == at + bits <= s.used + 1
HasBits(s, at, bits) == at + bits <= s.used

BitAt(s, i) == IF i \in DOMAIN s.data THEN s.data[i] ELSE 0

\* For bits > 0, as every caller has it: whole bytes, and of the one that is not
\* full its bits on the right, or all that lies in the last byte touched.
ReadBits(s, at, bits, rightAligned) ==
    LET full == 8 * (bits \div 8)
        padding == Padding(bits)
        end == Filled(at + bits)
        bit(k) == IF at + k <= end THEN BitAt(s, at + k - 1) ELSE 0
        right(k) == IF k <= full THEN bit(k)
                    ELSE IF k <= full + padding THEN 0
                    ELSE bit(k - padding)
    IN  IF HasBits(s, at, bits)
        THEN [ok |-> TRUE, at |-> at + bits,
              value |-> [k \in 1..Filled(bits) |->
                            IF rightAligned THEN right(k) ELSE bit(k)]]
        ELSE Fails(at)

ReadBool(s, at) ==
    IF HasBits(s, at, 1) THEN [ok |-> TRUE, at |-> at + 1, value |-> <<BitAt(s, at)>>]
    ELSE Fails(at)

\* Read<T>, whole bytes.
ReadValue(s, at, bits) == ReadBits(s, at, bits, TRUE)

ReadAlignedBytes(s, at, bits) ==
    IF bits = 0 THEN Fails(at) ELSE ReadValue(s, Filled(at), bits)

\* The 1s before the first 0, at most one for each byte but the lowest.
LeadingOnes(s, at, size) ==
    CHOOSE n \in 0..(size - 1) :
        /\ \A i \in 0..(n - 1) : ReadBool(s, at + i).value = <<1>>
        /\ n < size - 1 => ReadBool(s, at + n).value # <<1>>

\* Mutant: the number of bytes left is off by one.
BytesAfterShort(size, ones) == size - ones - 1
BytesAfter(size, ones) == size - ones

\* Then a 0 and the other bytes; or, when one is left, a 1 and half of it.
ReadCompressed(s, at, bits) ==
    LET size == bits \div 8
        ones == LeadingOnes(s, at, size)
        flag == ReadBool(s, at + ones)
        left == IF ones < size - 1 \/ flag.value # <<1>>
                THEN 8 * BytesAfter(size, ones) ELSE 4
        rest == ReadBits(s, flag.at, left, TRUE)
    IN  IF flag.ok /\ rest.ok
        THEN [rest EXCEPT !.value = @ \o Zeros(bits - Len(@))]
        ELSE Fails(flag.at)

\* The variable keeps its value unless a new one was written.
\* (Past the end the flag is not initialized; whatever it is, the read fails.)
Unchanged(flag) == flag.ok /\ flag.value = <<0>>

ReadDelta(s, at, item) ==
    LET flag == ReadBool(s, at)
    IN  IF Unchanged(flag) THEN [flag EXCEPT !.value = item.last]
        ELSE ReadValue(s, flag.at, Len(item.value))

ReadCompressedDelta(s, at, item) ==
    LET flag == ReadBool(s, at)
    IN  IF Unchanged(flag) THEN [flag EXCEPT !.value = item.last]
        ELSE ReadCompressed(s, flag.at, Len(item.value))

\* Read(PlayerID&): only the port's success counts, and an address that could
\* not be read keeps what it had, here zeros.
ReadPlayer(s, at) ==
    LET address == ReadValue(s, at, 32)
        port == ReadValue(s, address.at, 16)
    IN  [port EXCEPT !.value = (IF address.ok THEN address.value ELSE Zeros(32)) \o @]

ReadItem(s, at, item) ==
    CASE item.kind = "bool" -> ReadBool(s, at)
      [] item.kind = "bits" -> ReadBits(s, at, item.bits, item.rightAligned)
      [] item.kind = "aligned" -> ReadAlignedBytes(s, at, Len(item.value))
      [] item.kind = "compressed" -> ReadCompressed(s, at, Len(item.value))
      [] item.kind = "delta" /\ ~item.packed -> ReadDelta(s, at, item)
      [] item.kind = "delta" /\ item.packed -> ReadCompressedDelta(s, at, item)
      [] item.kind = "player" -> ReadPlayer(s, at)
      [] item.kind = "stream" -> ReadBits(s, at, Copied(item), FALSE)
=============================================================================
