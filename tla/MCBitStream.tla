------------------------------ MODULE MCBitStream ------------------------------
(* The two users of BitStreamBits, checked side by side: a state is either one *)
(* of BitStreamCodec's or one of RpcDatagram's.  Items of every kind: sizes of *)
(* 1, 4, 8, 11, 16, 32 and 48 bits, values on both sides of the limits of the  *)
(* compression.  Datagrams of every reliability, whole and split, with data    *)
(* that ends within a byte, that is no RPC, that is too short, and whose       *)
(* length takes two bytes.                                                     *)
EXTENDS BitStreamCodec, RpcDatagram, SequencesExt

\* Bytes, given as numbers.
BitsOf(x) == [k \in 1..8 |-> (x \div 2^(8 - k)) % 2]
BytesOf(numbers) == FlattenSeq([j \in 1..Len(numbers) |-> BitsOf(numbers[j])])

Bits(numbers, bits, right) ==
    [kind |-> "bits", value |-> BytesOf(numbers), bits |-> bits,
     rightAligned |-> right]
DeltaItem(numbers, base, packed) ==
    [kind |-> "delta", value |-> BytesOf(numbers), last |-> BytesOf(base),
     packed |-> packed]

MCItems ==
    {[kind |-> "bool", value |-> <<b>>] : b \in {0, 1}}
    \cup {Bits(<<203>>, 4, TRUE), Bits(<<129>>, 8, TRUE), Bits(<<1, 254>>, 16, TRUE),
          Bits(<<90, 223>>, 11, FALSE)}
    \cup {[kind |-> "aligned", value |-> BytesOf(<<170, 3>>)]}
    \cup {[kind |-> "compressed", value |-> BytesOf(v)] :
             v \in {<<11, 0, 0, 0>>, <<16, 0, 0, 0>>, <<0, 1, 0, 0>>, <<7, 128>>,
                     <<255>>}}
    \cup {DeltaItem(<<85>>, <<85>>, FALSE), DeltaItem(<<85>>, <<0>>, FALSE),
          DeltaItem(<<240, 0>>, <<0, 0>>, TRUE)}
    \cup {[kind |-> "player", value |-> BytesOf(<<192, 168, 0, 1, 97, 30>>)]}
    \cup {[kind |-> "stream", value |-> BytesOf(<<153, 96>>), bits |-> b, has |-> 11] :
             b \in {5, 16}}

MCGarbage == {[i \in 0..(8 * Room - 1) |-> g] : g \in {0, 1}}

DatagramOf(reliability, split, length, bytes) ==
    [hasAcks |-> <<0>>, msgNum |-> BytesOf(<<52, 18>>),
     reliability |-> BytesOf(<<reliability>>),
     orderingChannel |-> BytesOf(<<17>>), orderingIndex |-> BytesOf(<<3, 128>>),
     isSplitPacket |-> <<split>>, splitPacketId |-> BytesOf(<<1, 0>>),
     splitPacketIndex |-> BytesOf(<<0, 1, 0, 0>>),
     splitPacketCount |-> BytesOf(<<9, 0, 0, 0>>),
     length |-> BytesOf(length), data |-> BytesOf(bytes)]

MCDatagrams ==
    {DatagramOf(r, 0, <<29, 0>>, <<20, 7, 99, 136>>) : r \in 6..10}
    \cup {[DatagramOf(9, 0, <<17, 0>>, <<20, 7, 128>>) EXCEPT !.hasAcks = <<1>>]}
    \cup {DatagramOf(9, 1, <<21, 0>>, <<8, 255, 16>>)}
    \cup {DatagramOf(6, split, <<16, 0>>, <<20, 61>>) : split \in {0, 1}}
    \cup {DatagramOf(6, 0, <<8, 0>>, <<20>>), DatagramOf(10, 0, <<24, 0>>, <<21, 7, 1>>),
          DatagramOf(7, 0, <<0, 0>>, <<>>),
          DatagramOf(8, 0, <<8, 1>>, <<20, 25>> \o [i \in 1..31 |-> i])}

MCInit == CodecInit /\ DatagramInit

Streams(step) == calls = 0 /\ step /\ UNCHANGED datagramVars

MCNext ==
    \/ \E item \in Items : Streams(Write(item))
    \/ \E k \in 1..Len(starts) : Streams(Rewind(k))
    \/ Streams(Send)
    \/ \E bytes \in 0..Room : Streams(SendPart(bytes))
    \/ Streams(Read)
    \/ \* The memory of the stream does not matter to datagrams: one will do.
       writes = 0 /\ data[0] = 0 /\ DatagramNext /\ UNCHANGED codecVars

MCSpec == MCInit /\ [][MCNext]_<<codecVars, datagramVars>>
=============================================================================
