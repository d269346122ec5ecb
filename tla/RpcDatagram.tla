----------------------------- MODULE RpcDatagram ------------------------------
(***************************************************************************)
(* ExtractRPCData of te-helper.cpp: a datagram of the reliability layer is *)
(* read field by field into an ExtractedRPC, which the caller may have     *)
(* used for an earlier datagram.  Datagrams are composed as the reader     *)
(* expects them and may arrive short.  A read that fails is taken to leave *)
(* its field alone (it may have cleared some of its bytes): the call fails.*)
(***************************************************************************)
EXTENDS BitStreamBits

CONSTANTS
    Datagrams,      \* the datagrams sent
    MaxCalls        \* bound: calls of ExtractRPCData

VARIABLES
    out,        \* the caller's ExtractedRPC: each field's bytes
    last,       \* the last call: its datagram, the bytes that arrived, reuse
    result,     \* what it returned
    calls

datagramVars == <<out, last, result, calls>>

\* A field, and how it is read and written: the items of BitStreamBits.
Bit == [kind |-> "bool", value |-> <<0>>]
Few(n) == [kind |-> "bits", value |-> Zeros(8), bits |-> n, rightAligned |-> TRUE]
Whole(size) ==
    [kind |-> "bits", value |-> Zeros(8 * size), bits |-> 8 * size,
     rightAligned |-> TRUE]
Compressed(size) == [kind |-> "compressed", value |-> Zeros(8 * size)]

ItemOf ==
    [hasAcks |-> Bit, msgNum |-> Whole(2), reliability |-> Few(4),
     orderingChannel |-> Few(5), orderingIndex |-> Whole(2),
     isSplitPacket |-> Bit, splitPacketId |-> Whole(2),
     splitPacketIndex |-> Compressed(4), splitPacketCount |-> Compressed(4),
     length |-> Compressed(2), packetId |-> Whole(1), rpcId |-> Whole(1)]

\* UNRELIABLE_SEQUENCED, RELIABLE_ORDERED and RELIABLE_SEQUENCED have a channel.
Ordered(reliability) == reliability \in {7, 9, 10}

\* The number in a value of one byte or two.
Byte(value, j) == SubSeq(value, 8 * j - 7, 8 * j)
Number(byte) == 128 * byte[1] + 64 * byte[2] + 32 * byte[3] + 16 * byte[4]
                + 8 * byte[5] + 4 * byte[6] + 2 * byte[7] + byte[8]

\* Which of the fields a record o has, and the order in which they are gone over.
Fields == DOMAIN ItemOf \ {"packetId", "rpcId"}

Present(name, o) ==
    /\ name \in {"orderingChannel", "orderingIndex"} => Ordered(Number(o.reliability))
    /\ name \in {"splitPacketId", "splitPacketIndex", "splitPacketCount"} =>
           o.isSplitPacket = <<1>>

InOrder(Step(_, _), first) ==
    LET head == Step(Step(Step(first, "hasAcks"), "msgNum"), "reliability")
        order == Step(Step(head, "orderingChannel"), "orderingIndex")
        split == Step(Step(order, "isSplitPacket"), "splitPacketId")
        fragment == Step(Step(split, "splitPacketIndex"), "splitPacketCount")
    IN  Step(fragment, "length")

\* The data's bits, in whole bytes, from its length in bits.
Length(value) == Number(Byte(value, 1)) + 256 * Number(Byte(value, 2))

\* Mutant: a byte that is not full does not count.
FullBytes(length) == 8 * (Length(length) \div 8)
DataBytes(length) == Filled(Length(length))

-----------------------------------------------------------------------------
\* The sender.  A datagram has a value for each field it carries, and data.
Empty == [data |-> [i \in 0..(8 * Room - 1) |-> 0], used |-> 0]

Carrying(name, value) == [ItemOf[name] EXCEPT !.value = value]

WriteField(d, s, name) ==
    IF Present(name, d) THEN WriteItem(s, Carrying(name, d[name])) ELSE s

Composed(d) ==
    LET Step(s, name) == WriteField(d, s, name)
    IN  WriteAlignedBytes(InOrder(Step, Empty), d.data)

\* A field's value: of bits that are not whole bytes only they are sent.
IsValue(item, value) ==
    /\ value \in Seq({0, 1}) /\ Len(value) = Len(item.value)
    /\ item.kind = "bits" =>
          \A k \in 1..Padding(item.bits) : value[8 * (item.bits \div 8) + k] = 0

IsDatagram(d) ==
    /\ \A name \in Fields : IsValue(ItemOf[name], d[name])
    /\ d.data \in Seq({0, 1}) /\ Len(d.data) = Filled(Length(d.length))
    /\ Composed(d).used <= 8 * Room

ASSUME DatagramAssumption == \A d \in Datagrams : IsDatagram(d)

Sent == [d \in Datagrams |-> Composed(d)]

DatagramSize(d) == BITS_TO_BYTES(Sent[d].used)

-----------------------------------------------------------------------------
\* The reader: a state is [ok, at, out]; the first read that fails ends it.
ReadInto(s, r, name) ==
    LET read == ReadItem(s, r.at, ItemOf[name])
    IN  [ok |-> read.ok, at |-> read.at,
         out |-> IF read.ok THEN [r.out EXCEPT ![name] = read.value] ELSE r.out]

ReadField(s, r, name) ==
    IF r.ok /\ Present(name, r.out) THEN ReadInto(s, r, name) ELSE r

ReadFields(s, r) ==
    LET Step(q, name) == ReadField(s, q, name)
    IN  InOrder(Step, r)

\* The data: BITS_TO_BYTES of the length, from the next byte boundary on.
PacketData(s, r) ==
    IF r.ok THEN ReadAlignedBytes(s, r.at, DataBytes(r.out.length))
    ELSE Fails(r.at)

\* dataBitStream is a second stream, over the data: an id, which must be that of
\* an RPC, and the RPC's own.
Over(bytes) ==
    [data |-> [i \in 0..(8 * Room - 1) |-> IF i < Len(bytes) THEN bytes[i + 1] ELSE 0],
     used |-> Len(bytes)]

IfRpc(r) == [r EXCEPT !.ok = r.ok /\ Number(r.out.packetId) = 20]

ReadIds(bytes, o) ==
    LET id == IfRpc(ReadInto(Over(bytes), [ok |-> TRUE, at |-> 0, out |-> o], "packetId"))
    IN  IF id.ok THEN ReadInto(Over(bytes), id, "rpcId") ELSE id

WithData(o, bytes) == [o EXCEPT !.payload = bytes]

\* The payload is what follows the two ids, assigned only if there is some.
\* Mutant: it starts with the rpc id.
RestWithId(bytes, r) ==
    IF r.ok /\ Size(bytes) > 2
    THEN [r EXCEPT !.out = WithData(@, SubSeq(bytes, 9, Len(bytes)))] ELSE r
Rest(bytes, r) ==
    IF r.ok /\ Size(bytes) > 2
    THEN [r EXCEPT !.out = WithData(@, SubSeq(bytes, 17, Len(bytes)))] ELSE r

Fragment(bytes, r) ==
    LET o == WithData(r.out, bytes)
    IN  [r EXCEPT !.out = [o EXCEPT !.packetId = Zeros(8), !.rpcId = Zeros(8)]]

Payload(packetData, r) ==
    IF ~packetData.ok THEN [r EXCEPT !.ok = FALSE]
    ELSE IF r.out.isSplitPacket = <<1>> THEN Fragment(packetData.value, r)
    ELSE Rest(packetData.value, ReadIds(packetData.value, r.out))

WithPayload(s, r) == Payload(PacketData(s, r), r)

ExtractRPCData(s, o) ==
    IF s.used = 0 THEN [ok |-> FALSE, at |-> 0, out |-> o]
    ELSE WithPayload(s, ReadFields(s, [ok |-> TRUE, at |-> 0, out |-> o]))

-----------------------------------------------------------------------------
\* What an ExtractedRPC is made with.
Fresh == [f \in DOMAIN ItemOf \cup {"payload"} |->
             IF f = "payload" THEN <<>> ELSE Zeros(Len(ItemOf[f].value))]

None == [datagram |-> "none"]

DatagramInit == out = Fresh /\ last = None /\ result = FALSE /\ calls = 0

\* One call, for the first bytes of a datagram, into a fresh record or into the
\* one of the call before.
Extract(d, bytes, reuse) ==
    /\ calls < MaxCalls /\ calls' = calls + 1
    /\ reuse => calls > 0
    /\ LET r == ExtractRPCData([Sent[d] EXCEPT !.used = 8 * bytes],
                               IF reuse THEN out ELSE Fresh)
       IN  out' = r.out /\ result' = r.ok
    /\ last' = [datagram |-> d, bytes |-> bytes, reuse |-> reuse]

DatagramNext ==
    \E d \in Datagrams, reuse \in BOOLEAN :
        \E bytes \in 0..DatagramSize(d) : Extract(d, bytes, reuse)

DatagramSpec == DatagramInit /\ [][DatagramNext]_datagramVars

-----------------------------------------------------------------------------
IsSplit(d) == d.isSplitPacket = <<1>>
IsRpc(d) == Size(d.data) >= 2 /\ Number(Byte(d.data, 1)) = 20

(* ExtractRPCData accepts a datagram exactly if all of it arrived and it is a *)
(* fragment or an RPC: wherever it ends early, some read notices, though the  *)
(* fields are packed to bits and the data's length is one of them.            *)
AcceptsExactlyWholeRpcs ==
    last # None =>
        LET d == last.datagram
        IN  result <=> /\ last.bytes = DatagramSize(d)
                       /\ Len(d.data) > 0
                       /\ IsSplit(d) \/ IsRpc(d)

(* What an accepted datagram carries is what ends up in the record, whatever  *)
(* was in it before.  The exception: an RPC without data leaves the payload   *)
(* of the datagram before in a record that is used again.                     *)
ExtractedAsSent ==
    result =>
        LET d == last.datagram
            payload == IF IsSplit(d) THEN d.data ELSE SubSeq(d.data, 17, Len(d.data))
            ids == IF IsSplit(d) THEN <<Zeros(8), Zeros(8)>>
                   ELSE <<Byte(d.data, 1), Byte(d.data, 2)>>
        IN  /\ \A f \in Fields : Present(f, d) => out[f] = d[f]
            /\ <<out.packetId, out.rpcId>> = ids
            /\ out.payload = payload \/ (last.reuse /\ payload = <<>>)
=============================================================================
