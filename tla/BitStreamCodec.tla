---------------------------- MODULE BitStreamCodec ----------------------------
(***************************************************************************)
(* A stream that is written, sent and read.  A writer appends items, takes *)
(* the write offset back to a byte boundary and writes again, as           *)
(* hkHandleRpcPacket does; what it wrote is sent, perhaps cut short; a     *)
(* reader reads the items in their order until a read fails.  A byte       *)
(* nobody wrote holds anything.                                            *)
(***************************************************************************)
EXTENDS BitStreamBits

CONSTANTS
    Items,          \* the items written
    MaxWrites,      \* bound: items written, those rewound over included
    Garbage         \* what memory may hold before it is written

InBytes(value) == Len(value) > 0 /\ Len(value) % 8 = 0

IsItem(item) ==
    /\ item.kind \in {"bool", "bits", "aligned", "compressed", "delta", "player",
                      "stream"}
    /\ item.value \in Seq({0, 1})
    /\ item.kind = "bool" => Len(item.value) = 1
    /\ item.kind = "bits" =>
          /\ item.bits \in Nat \ {0} /\ item.rightAligned \in BOOLEAN
          /\ Len(item.value) = Filled(item.bits)
    /\ item.kind \in {"aligned", "compressed", "delta"} => InBytes(item.value)
    /\ item.kind = "delta" => item.packed \in BOOLEAN
    /\ item.kind = "player" => Len(item.value) = 48
    /\ item.kind = "stream" =>
          /\ item.bits \in Nat \ {0} /\ item.has \in 1..Len(item.value)

ASSUME CodecAssumption ==
    /\ \A item \in Items : IsItem(item)
    /\ MaxWrites \in Nat
    /\ Garbage \subseteq [0..(8 * Room - 1) -> {0, 1}]

VARIABLES
    data, numberOfBitsUsed, readOffset,     \* the stream
    written, starts,    \* history: the items in it, and where each began
    writes,             \* items written so far
    sent, cut,          \* the writer is done; the reader has only a part
    returned            \* what the reads returned, in order

memory == <<data, numberOfBitsUsed>>
codecVars == <<memory, readOffset, written, starts, writes, sent, cut, returned>>

stream == [data |-> data, used |-> numberOfBitsUsed]

-----------------------------------------------------------------------------
CodecInit ==
    /\ data \in Garbage
    /\ numberOfBitsUsed = 0 /\ readOffset = 0
    /\ written = <<>> /\ starts = <<>> /\ writes = 0
    /\ sent = FALSE /\ cut = FALSE
    /\ returned = <<>>

\* Left-aligned bits come from another stream and go last: whatever the
\* padding of their last byte holds is written too.
IsLast(item) == item.kind = "bits" /\ ~item.rightAligned

Write(item) ==
    /\ ~sent
    /\ writes < MaxWrites /\ writes' = writes + 1
    /\ written # <<>> => ~IsLast(written[Len(written)])
    /\ LET s == WriteItem(stream, item)
       IN  s.used <= 8 * Room /\ data' = s.data /\ numberOfBitsUsed' = s.used
    /\ written' = Append(written, item)
    /\ starts' = Append(starts, numberOfBitsUsed)
    /\ UNCHANGED <<readOffset, sent, cut, returned>>

\* SetWriteOffset, or ResetWritePointer when k = 1.  BitStream.h:360: mid-stream
\* only at a byte boundary.
Rewind(k) ==
    /\ ~sent
    /\ starts[k] % 8 = 0
    /\ numberOfBitsUsed' = starts[k]
    /\ written' = SubSeq(written, 1, k - 1)
    /\ starts' = SubSeq(starts, 1, k - 1)
    /\ UNCHANGED <<data, readOffset, writes, sent, cut, returned>>

\* The reader's stream is over the bytes of the writer's ...
Send ==
    /\ ~sent /\ written # <<>>
    /\ sent' = TRUE
    /\ UNCHANGED <<memory, readOffset, written, starts, writes, cut, returned>>

\* ... or over fewer of them.
SendPart(bytes) ==
    /\ ~sent /\ written # <<>>
    /\ 8 * bytes < numberOfBitsUsed
    /\ sent' = TRUE /\ cut' = TRUE
    /\ numberOfBitsUsed' = 8 * bytes
    /\ UNCHANGED <<data, readOffset, written, starts, writes, returned>>

Read ==
    /\ sent
    /\ Len(returned) < Len(written)
    /\ \A i \in 1..Len(returned) : returned[i].ok
    /\ LET r == ReadItem(stream, readOffset, written[Len(returned) + 1])
       IN  /\ returned' = Append(returned, [ok |-> r.ok, value |-> r.value])
           /\ readOffset' = r.at
    /\ UNCHANGED <<memory, written, starts, writes, sent, cut>>

CodecNext ==
    \/ \E item \in Items : Write(item)
    \/ \E k \in 1..Len(starts) : Rewind(k)
    \/ Send
    \/ \E bytes \in 0..Room : SendPart(bytes)
    \/ Read

CodecSpec == CodecInit /\ [][CodecNext]_codecVars

-----------------------------------------------------------------------------
\* Right-aligned bits come back with zeros for padding.
Expected(item) ==
    IF item.kind = "bits"
    THEN LET whole == 8 * (item.bits \div 8)
         IN  [k \in 1..Len(item.value) |->
                 IF k \in (whole + 1)..(whole + Padding(item.bits)) THEN 0
                 ELSE item.value[k]]
    ELSE item.value

\* Left-aligned ones and a stream's are compared up to their padding.
SameBits(a, b, n) == \A k \in 1..n : a[k] = b[k]

Same(item, value) ==
    CASE item.kind = "stream" -> SameBits(value, item.value, Copied(item))
      [] IsLast(item) -> SameBits(value, item.value, item.bits)
      [] OTHER -> value = Expected(item)

\* The stream ends within the PlayerID that is item i.
Torn(i) == written[i].kind = "player" /\ starts[i] + 48 > numberOfBitsUsed

(* A read that succeeds returns what was written there, after every mix of    *)
(* bit-sized, aligned, compressed and delta items, over whatever the memory   *)
(* held before, after rewinding, and from a stream cut short.  The exception  *)
(* is a stream that ends within a PlayerID: its Read drops the result of the  *)
(* address, and the reader goes on from a place nobody wrote to.              *)
ReadsBack ==
    \A i \in 1..Len(returned) :
        returned[i].ok /\ (\A j \in 1..i : ~Torn(j))
            => Same(written[i], returned[i].value)

(* From a stream that arrived whole every item can be read, and then nothing  *)
(* is left over: AssertStreamEmpty would hold.  Writers and readers agree on  *)
(* the size of each item and on where it is aligned.                          *)
NothingIsLost ==
    sent /\ ~cut =>
        /\ \A i \in 1..Len(returned) : returned[i].ok
        /\ Len(returned) = Len(written) => readOffset = numberOfBitsUsed

(* A read succeeds only with bits that arrived, wherever the stream was cut.  *)
ReadsStayInside ==
    (\A i \in 1..Len(returned) : returned[i].ok)
        => readOffset <= numberOfBitsUsed
=============================================================================
