----------------------------- MODULE BitStreamProofs -----------------------------
(***************************************************************************)
(* BitStream.  Its memory: for any size of the stack buffer, and for       *)
(* streams, writes and offsets of any size.  What it carries: for any      *)
(* items, in any memory, whatever that held before.  What ExtractRPCData   *)
(* makes of it: for any datagrams, cut anywhere, into any record.          *)
(***************************************************************************)
EXTENDS BitStreamBuffer, BitStreamCodec, RpcDatagram, TLAPS, SequenceTheorems,
        WellFoundedInduction

\* What is counted as written was recorded, and the stack buffer keeps its size.
RoomIsThere ==
    Alive /\ ~mallocFailed =>
        /\ Bytes(used) <= valid /\ valid <= real
        /\ Bytes(used) <= Bytes(recorded) /\ Bytes(recorded) <= real
        /\ storage = "stack" => real = StackBytes

\* A stream owns its storage unless it was given it.
ForeignIsNotCopied == Alive => (storage = "foreign" <=> ~copyData)

\* The record shows the destructor a long block.
RecordShowsBlock ==
    Alive /\ storage = "heap" /\ real > StackBytes /\ ~small => recorded > 8 * StackBytes

\* The record of the caller's buffer stays what was given until a write lowers it.
RecordShowsGiven == Alive /\ storage = "foreign" => given <= recorded \/ touched

IInv == /\ TypeOK /\ RoomIsThere /\ ForeignIsNotCopied /\ RecordShowsBlock
        /\ RecordShowsGiven
        /\ MemoryIsSafe /\ LargeBlocksAreFreed

-----------------------------------------------------------------------------
\* BITS_TO_BYTES rounds up.
LEMMA BytesFacts ==
    ASSUME NEW b \in Nat
    PROVE  Bytes(b) \in Nat /\ b <= 8 * Bytes(b) /\ 8 * Bytes(b) < b + 8
BY DEF Bytes

LEMMA BytesMonotonic ==
    ASSUME NEW a \in Nat, NEW b \in Nat, a <= b
    PROVE  Bytes(a) <= Bytes(b)
<1>1. /\ Bytes(a) \in Nat /\ 8 * Bytes(a) < a + 8
      /\ Bytes(b) \in Nat /\ b <= 8 * Bytes(b)
  BY BytesFacts
<1> QED BY <1>1

LEMMA BytesOfWhole ==
    ASSUME NEW n \in Nat
    PROVE  8 * n \in Nat /\ Bytes(8 * n) = n
BY DEF Bytes

\* A number of bytes is within n exactly if its bits are.
LEMMA BytesWithin ==
    ASSUME NEW b \in Nat, NEW n \in Nat
    PROVE  Bytes(b) <= n <=> b <= 8 * n
<1>1. Bytes(b) \in Nat /\ b <= 8 * Bytes(b) /\ 8 * Bytes(b) < b + 8 BY BytesFacts
<1> QED BY <1>1

\* The stack buffer, in bits.
LEMMA StackFacts ==
    /\ StackBytes \in Nat /\ 8 * StackBytes \in Nat /\ Bytes(8 * StackBytes) = StackBytes
    /\ \A b \in Nat : Bytes(b) <= StackBytes <=> b <= 8 * StackBytes
    /\ \A n \in Nat : n > StackBytes => 8 * n > 8 * StackBytes
<1>1. StackBytes \in Nat BY BufferAssumption
<1>2. 8 * StackBytes \in Nat /\ Bytes(8 * StackBytes) = StackBytes BY <1>1, BytesOfWhole
<1>3. \A b \in Nat : Bytes(b) <= StackBytes <=> b <= 8 * StackBytes BY <1>1, BytesWithin
<1>4. \A n \in Nat : n > StackBytes => 8 * n > 8 * StackBytes BY <1>1
<1> QED BY <1>1, <1>2, <1>3, <1>4

-----------------------------------------------------------------------------
LEMMA InitIInv == Init => IInv
<1> SUFFICES ASSUME Init PROVE IInv OBVIOUS
<1>1. /\ Bytes(0) = 0
      /\ \A n \in Nat : 8 * n \in Nat /\ Bytes(8 * n) = n
  <2>1. Bytes(8 * 0) = 0 BY BytesOfWhole
  <2> QED BY <2>1, BytesOfWhole
<1>2. ASSUME MadeEmpty PROVE IInv
  <2>1. TypeOK BY <1>2, StackFacts DEF MadeEmpty, Made, TypeOK
  <2>2. RoomIsThere BY <1>1, <1>2, StackFacts DEF MadeEmpty, Made, RoomIsThere, Alive
  <2>3. ForeignIsNotCopied /\ RecordShowsBlock /\ RecordShowsGiven /\ MemoryIsSafe /\ LargeBlocksAreFreed
    BY <1>2 DEF MadeEmpty, Made, ForeignIsNotCopied, RecordShowsBlock, RecordShowsGiven, Alive,
                MemoryIsSafe, LargeBlocksAreFreed
  <2> QED BY <2>1, <2>2, <2>3 DEF IInv
<1>3. ASSUME NEW n \in Nat, MadeSized(n), ~(n <= StackBytes) PROVE IInv
  <2>1. 8 * n \in Nat /\ 8 * n > 8 * StackBytes BY <1>3, StackFacts
  <2>2. TypeOK
    <3>1. /\ copyData \in BOOLEAN /\ small \in BOOLEAN /\ mallocFailed \in BOOLEAN
          /\ touched \in BOOLEAN
      BY <1>3 DEF MadeSized, Made
    <3>2. /\ used \in Nat /\ recorded \in Nat /\ real \in Nat /\ valid \in Nat
          /\ given \in Nat /\ wanted \in Nat
      BY <1>3, <2>1 DEF MadeSized, Made
    <3> QED BY <1>3, <3>1, <3>2 DEF MadeSized, Made, TypeOK
  <2>3. RoomIsThere BY <1>1, <1>3 DEF MadeSized, Made, RoomIsThere, Alive
  <2>4. ForeignIsNotCopied /\ RecordShowsBlock /\ RecordShowsGiven /\ MemoryIsSafe /\ LargeBlocksAreFreed
    BY <1>3, <2>1 DEF MadeSized, Made, ForeignIsNotCopied, RecordShowsBlock, RecordShowsGiven, Alive,
                      MemoryIsSafe, LargeBlocksAreFreed
  <2> QED BY <2>2, <2>3, <2>4 DEF IInv
<1>4. ASSUME NEW n \in Nat, MadeCopy(n) PROVE IInv
  <2>1. 8 * n \in Nat /\ Bytes(8 * n) = n /\ (n > StackBytes => 8 * n > 8 * StackBytes)
    BY <1>1, StackFacts
  <2>2. TypeOK
    <3>1. /\ copyData \in BOOLEAN /\ small \in BOOLEAN /\ mallocFailed \in BOOLEAN
          /\ touched \in BOOLEAN
      BY <1>4 DEF MadeCopy, Made
    <3>2. /\ used \in Nat /\ recorded \in Nat /\ real \in Nat /\ valid \in Nat
          /\ given \in Nat /\ wanted \in Nat
      BY <1>4, <2>1, StackFacts DEF MadeCopy, Made
    <3> QED BY <1>4, <3>1, <3>2 DEF MadeCopy, Made, TypeOK
  <2>3. RoomIsThere
    BY <1>1, <1>4, <2>1, StackFacts DEF MadeCopy, Made, RoomIsThere, Alive
  <2>4. ForeignIsNotCopied /\ RecordShowsBlock /\ RecordShowsGiven /\ MemoryIsSafe /\ LargeBlocksAreFreed
    BY <1>4, <2>1 DEF MadeCopy, Made, ForeignIsNotCopied, RecordShowsBlock, RecordShowsGiven, Alive,
                      MemoryIsSafe, LargeBlocksAreFreed
  <2> QED BY <2>2, <2>3, <2>4 DEF IInv
<1>5. ASSUME NEW n \in Nat, NEW room \in {0, 1}, MadeOver(n, room) PROVE IInv
  <2>1. /\ n + room \in Nat /\ n <= n + room /\ 8 * n \in Nat /\ Bytes(8 * n) = n
    BY <1>1
  <2>2. TypeOK BY <1>5, <2>1 DEF MadeOver, Made, TypeOK
  <2>3. RoomIsThere BY <1>5, <2>1 DEF MadeOver, Made, RoomIsThere, Alive
  <2>4. ForeignIsNotCopied /\ RecordShowsBlock /\ RecordShowsGiven /\ MemoryIsSafe /\ LargeBlocksAreFreed
    BY <1>5 DEF MadeOver, Made, ForeignIsNotCopied, RecordShowsBlock, RecordShowsGiven, Alive,
                MemoryIsSafe, LargeBlocksAreFreed
  <2> QED BY <2>2, <2>3, <2>4 DEF IInv
<1>6. ASSUME NEW n \in Nat, MadeSized(n) PROVE IInv BY <1>2, <1>3, <1>6 DEF MadeSized
<1> QED BY <1>2, <1>4, <1>5, <1>6, BufferAssumption DEF Init

-----------------------------------------------------------------------------
\* A write that finds its room behind data.
LEMMA FillFacts ==
    ASSUME NEW m \in Nat, NEW bytes \in Nat, NEW kept \in Nat, TypeOK, Fill(m, bytes, kept)
    PROVE  /\ used' \in Nat /\ real' \in Nat /\ valid' \in Nat
           /\ copyData' = copyData /\ real' = bytes /\ used' = used + m
           /\ status' \in {status, "corrupted"}
           /\ Bytes(used + m) <= bytes => status' = status
           /\ Bytes(used) <= kept /\ kept <= bytes /\ Bytes(used + m) <= bytes =>
                  Bytes(used') <= valid' /\ valid' <= real'
<1>1. used + m \in Nat /\ Bytes(used + m) \in Nat BY BytesFacts DEF TypeOK
<1> QED BY <1>1 DEF Fill, TypeOK, Larger

LEMMA WriteInRoomPreserves ==
    ASSUME IInv, NEW n \in Nat, NEW m \in {0, n}, WriteInRoom(n, m)
    PROVE  IInv'
<1> USE BufferAssumption
<1>1. TypeOK /\ Alive BY DEF IInv, WriteInRoom
<1>2. /\ used + n <= recorded /\ recorded' = used + n /\ Fill(m, real, valid)
      /\ small' = (small \/ (storage = "heap" /\ FitsStack(Bytes(used + n))))
      /\ touched' = (touched \/ storage = "foreign")
      /\ UNCHANGED <<storage, mallocFailed, given, wanted>>
  BY DEF WriteInRoom
<1>3. /\ used \in Nat /\ used + n \in Nat /\ used + m \in Nat /\ m \in Nat /\ recorded \in Nat
      /\ real \in Nat /\ valid \in Nat /\ used + m <= used + n
  BY <1>1 DEF TypeOK
<1>4. /\ used' \in Nat /\ real' = real /\ valid' \in Nat
      /\ copyData' = copyData /\ used' = used + m
      /\ status' \in {status, "corrupted"}
      /\ Bytes(used + m) <= real => status' = status
      /\ Bytes(used) <= valid /\ valid <= real /\ Bytes(used + m) <= real =>
             Bytes(used') <= valid' /\ valid' <= real'
  BY <1>1, <1>2, <1>3, FillFacts
<1>5. /\ Bytes(used + m) \in Nat /\ Bytes(used + n) \in Nat /\ Bytes(recorded) \in Nat
      /\ Bytes(used + m) <= Bytes(used + n) /\ Bytes(used + n) <= Bytes(recorded)
  BY <1>2, <1>3, BytesMonotonic, BytesFacts
<1>6. TypeOK' BY <1>1, <1>2, <1>3, <1>4 DEF TypeOK
<1>7. ~mallocFailed => Bytes(used + m) <= real
  BY <1>1, <1>3, <1>5 DEF IInv, RoomIsThere
<1>8. RoomIsThere'
  BY <1>1, <1>2, <1>3, <1>4, <1>5, <1>7 DEF IInv, RoomIsThere, Alive
<1>9. ForeignIsNotCopied' BY <1>1, <1>2, <1>4 DEF IInv, ForeignIsNotCopied, Alive
<1>10. RecordShowsBlock'
  <2>1. Bytes(used + n) <= StackBytes <=> used + n <= 8 * StackBytes
    BY <1>3, StackFacts
  <2>2. SUFFICES ASSUME storage' = "heap", ~small' PROVE recorded' > 8 * StackBytes
    BY DEF RecordShowsBlock
  <2>3. ~(Bytes(used + n) <= StackBytes) BY <1>2, <2>2 DEF FitsStack
  <2> QED BY <1>2, <1>3, <2>1, <2>3, StackFacts
<1>11. (MemoryIsSafe /\ LargeBlocksAreFreed)'
  BY <1>1, <1>2, <1>4, <1>7 DEF Alive, MemoryIsSafe, LargeBlocksAreFreed
<1>12. RecordShowsGiven' BY <1>2 DEF RecordShowsGiven
<1> QED BY <1>6, <1>8, <1>9, <1>10, <1>11, <1>12 DEF IInv

LEMMA WriteGrowingPreserves ==
    ASSUME IInv, NEW n \in Nat, NEW m \in {0, n}, WriteGrowing(n, m)
    PROVE  IInv'
<1> USE BufferAssumption
<1> DEFINE d == Doubled(n)
           amount == Bytes(d)
           inPlace == storage = "stack" /\ FitsStack(amount)
           bytes == IF inPlace THEN real ELSE amount
           kept == Kept(amount)
<1>1. TypeOK /\ Alive BY DEF IInv, WriteGrowing, Grows
<1>2. /\ used + n > recorded /\ storage # "foreign" /\ recorded' = d /\ Fill(m, bytes, kept)
      /\ storage' = IF inPlace THEN storage ELSE "heap"
      /\ UNCHANGED <<mallocFailed, small, given, touched, wanted>>
  BY DEF WriteGrowing, Grows, past
<1>3. /\ used \in Nat /\ used + m \in Nat /\ m \in Nat /\ recorded \in Nat
      /\ real \in Nat /\ valid \in Nat /\ d \in Nat /\ used + m <= d /\ recorded <= d /\ used <= d
  BY <1>1, <1>2 DEF TypeOK, Doubled
<1> HIDE DEF d
<1>4. /\ amount \in Nat /\ Bytes(recorded) \in Nat /\ Bytes(used + m) \in Nat /\ Bytes(used) \in Nat
      /\ Bytes(used + m) <= amount /\ Bytes(recorded) <= amount /\ Bytes(used) <= amount
  BY <1>3, BytesMonotonic, BytesFacts
<1>5. kept \in Nat BY <1>3, <1>4 DEF Kept, Smaller, MovedBytes
<1>6. ~mallocFailed => /\ Bytes(used) <= kept /\ kept <= bytes /\ Bytes(used + m) <= bytes
                       /\ amount <= bytes /\ (storage' = "stack" => bytes = StackBytes)
  BY <1>1, <1>2, <1>3, <1>4
     DEF IInv, RoomIsThere, Kept, Smaller, MovedBytes, FitsStack
<1>7. bytes \in Nat BY <1>3, <1>4
<1> HIDE DEF amount, kept
<1>8. /\ used' \in Nat /\ real' = bytes /\ valid' \in Nat
      /\ copyData' = copyData /\ used' = used + m
      /\ status' \in {status, "corrupted"}
      /\ Bytes(used + m) <= bytes => status' = status
      /\ Bytes(used) <= kept /\ kept <= bytes /\ Bytes(used + m) <= bytes =>
             Bytes(used') <= valid' /\ valid' <= real'
  BY <1>1, <1>2, <1>3, <1>5, <1>7, FillFacts
<1>9. TypeOK' BY <1>1, <1>2, <1>3, <1>7, <1>8 DEF TypeOK
<1>10. RoomIsThere'
  <2>1. Bytes(recorded') = amount BY <1>2 DEF amount
  <2> QED BY <1>2, <1>4, <1>6, <1>8, <2>1 DEF RoomIsThere, Alive
<1>11. ForeignIsNotCopied'
  <2>1. storage' # "foreign" BY <1>2
  <2> QED BY <1>1, <1>2, <1>8, <2>1 DEF IInv, ForeignIsNotCopied, Alive
<1>14. RecordShowsGiven' BY <1>2 DEF RecordShowsGiven
<1>12. RecordShowsBlock'
  <2>1. amount <= StackBytes <=> d <= 8 * StackBytes BY <1>3, StackFacts DEF amount
  <2>2. storage' = "heap" => storage = "heap" \/ ~inPlace BY <1>2
  <2> QED BY <1>2, <1>3, <1>4, <1>8, <2>1, <2>2 DEF RecordShowsBlock
<1>13. (MemoryIsSafe /\ LargeBlocksAreFreed)'
  BY <1>1, <1>2, <1>6, <1>8 DEF Alive, MemoryIsSafe, LargeBlocksAreFreed
<1> QED BY <1>9, <1>10, <1>11, <1>12, <1>13, <1>14 DEF IInv

LEMMA WriteUnbackedPreserves ==
    ASSUME IInv, NEW n \in Nat, NEW m \in {0, n}, WriteUnbacked(n, m)
    PROVE  IInv'
<1>1. TypeOK /\ Alive BY DEF IInv, WriteUnbacked, Grows
<1>2. /\ mallocFailed' = TRUE /\ Fill(m, real, valid)
      /\ UNCHANGED <<storage, recorded, small, given, touched, wanted>>
  BY DEF WriteUnbacked
<1>3. real \in Nat /\ valid \in Nat /\ m \in Nat BY <1>1 DEF TypeOK
<1>4. /\ used' \in Nat /\ real' = real /\ valid' \in Nat /\ copyData' = copyData
      /\ status' \in {status, "corrupted"}
  BY <1>1, <1>2, <1>3, FillFacts
<1> QED BY <1>1, <1>2, <1>3, <1>4
           DEF IInv, TypeOK, RoomIsThere, ForeignIsNotCopied, RecordShowsBlock, RecordShowsGiven, Alive,
               MemoryIsSafe, LargeBlocksAreFreed

\* The write offset goes back, or to the end of its byte.
LEMMA SetOffsetPreserves ==
    ASSUME IInv, NEW o \in Nat, SetOffset(o), Bytes(o) <= Bytes(used)
    PROVE  IInv'
<1>1. /\ Alive /\ used' = o
      /\ UNCHANGED <<storage, copyData, recorded, real, valid, mallocFailed, small, given,
                      touched, wanted, status>>
  BY DEF SetOffset, past
<1>2. Bytes(o) \in Nat /\ Bytes(used) \in Nat /\ Bytes(recorded) \in Nat
  BY BytesFacts DEF IInv, TypeOK
<1>3. TypeOK' BY <1>1 DEF IInv, TypeOK
<1>4. RoomIsThere' BY <1>1, <1>2 DEF IInv, TypeOK, RoomIsThere, Alive
<1> QED BY <1>1, <1>3, <1>4 DEF IInv, ForeignIsNotCopied, RecordShowsBlock, RecordShowsGiven, Alive,
                                MemoryIsSafe, LargeBlocksAreFreed

\* The stream gets storage as long as it has recorded.
LEMMA StoragePreserves ==
    ASSUME IInv, AssertCopyData \/ SetData
    PROVE  IInv'
<1> USE BufferAssumption
<1>1. TypeOK /\ Alive BY DEF IInv, AssertCopyData, SetData
<1>2. /\ recorded \in Nat /\ Bytes(recorded) \in Nat /\ Bytes(used) \in Nat
      /\ Bytes(recorded) <= StackBytes <=> recorded <= 8 * StackBytes
  BY <1>1, BytesFacts, StackFacts DEF TypeOK
<1>3. /\ UNCHANGED <<used, recorded, mallocFailed, small, wanted>>
      /\ given' \in {0, recorded} /\ touched' = FALSE
      /\ real' = Bytes(recorded) /\ valid' \in {Bytes(recorded), Smaller(valid, Bytes(recorded))}
      /\ status' = status
      /\ \/ copyData' = TRUE /\ storage' \in {"null", "heap"}
         \/ copyData' = FALSE /\ storage' = "foreign"
  BY <1>1 DEF AssertCopyData, SetData, past, IInv, ForeignIsNotCopied
<1>4. TypeOK'
  <2>1. /\ used' \in Nat /\ recorded' \in Nat /\ real' \in Nat /\ valid' \in Nat
        /\ given' \in Nat /\ wanted' \in Nat
    BY <1>1, <1>2, <1>3 DEF TypeOK, Smaller
  <2>2. copyData' \in BOOLEAN /\ touched' \in BOOLEAN BY <1>3
  <2>3. mallocFailed' \in BOOLEAN /\ small' \in BOOLEAN BY <1>1, <1>3 DEF TypeOK
  <2> QED BY <1>1, <1>3, <2>1, <2>2, <2>3 DEF TypeOK
<1>5. RoomIsThere' BY <1>1, <1>2, <1>3 DEF IInv, RoomIsThere, Alive, Smaller, TypeOK
<1>6. (ForeignIsNotCopied /\ RecordShowsBlock /\ RecordShowsGiven)'
  BY <1>1, <1>2, <1>3, StackFacts DEF ForeignIsNotCopied, RecordShowsBlock, RecordShowsGiven
<1>7. (MemoryIsSafe /\ LargeBlocksAreFreed)'
  BY <1>1, <1>3 DEF Alive, MemoryIsSafe, LargeBlocksAreFreed
<1> QED BY <1>4, <1>5, <1>6, <1>7 DEF IInv

\* The caller's buffer has more room than the stream was told.
LEMMA MoreRoomPreserves ==
    ASSUME IInv, NEW bits \in recorded..8 * real, SetNumberOfBitsAllocated(bits)
    PROVE  IInv'
<1>1. TypeOK /\ Alive BY DEF IInv, SetNumberOfBitsAllocated
<1>2. /\ storage = "foreign" /\ recorded' = bits /\ given' = bits /\ touched' = FALSE
      /\ UNCHANGED <<storage, copyData, used, real, valid, mallocFailed, small, wanted, status>>
  BY DEF SetNumberOfBitsAllocated, past
<1>3. bits \in Nat /\ recorded \in Nat /\ real \in Nat /\ recorded <= bits /\ bits <= 8 * real
  BY <1>1 DEF TypeOK
<1>4. /\ Bytes(recorded) <= Bytes(bits) /\ Bytes(bits) <= real
      /\ Bytes(recorded) \in Nat /\ Bytes(bits) \in Nat /\ Bytes(used) \in Nat
  BY <1>1, <1>3, BytesMonotonic, BytesWithin, BytesFacts DEF TypeOK
<1>5. TypeOK' BY <1>1, <1>2, <1>3 DEF TypeOK
<1>6. RoomIsThere' BY <1>1, <1>2, <1>3, <1>4 DEF IInv, TypeOK, RoomIsThere, Alive
<1> QED BY <1>1, <1>2, <1>3, <1>5, <1>6
           DEF IInv, ForeignIsNotCopied, RecordShowsBlock, RecordShowsGiven, Alive, MemoryIsSafe,
               LargeBlocksAreFreed

\* The stream comes to its end.
LEMMA EndPreserves ==
    ASSUME IInv, AssertCopyDataFails \/ Destroy \/ \E n \in Writes : WriteForeign(n)
    PROVE  IInv'
<1> USE BufferAssumption DEF IInv, TypeOK, Alive, past
<1>1. Alive BY DEF AssertCopyDataFails, Destroy, WriteForeign, Grows
<1>2. CASE AssertCopyDataFails
  BY <1>2 DEF AssertCopyDataFails, RoomIsThere, ForeignIsNotCopied, RecordShowsBlock,
              RecordShowsGiven, MemoryIsSafe, LargeBlocksAreFreed
<1>3. CASE \E n \in Writes : WriteForeign(n)
  <2> PICK n \in Writes : WriteForeign(n) BY <1>3
  <2>1. /\ used + n > recorded /\ storage = "foreign" /\ wanted' = used + n
        /\ status' \in {"aborted", "corrupted"}
        /\ UNCHANGED <<storage, copyData, used, recorded, real, valid, mallocFailed, small,
                        given, touched>>
    BY DEF WriteForeign, Grows
  <2>2. n \in Nat /\ used + n \in Nat BY BufferAssumption
  <2>3. ~copyData BY <1>1, <2>1 DEF ForeignIsNotCopied
  <2>4. used + n > given \/ touched BY <1>1, <2>1, <2>2 DEF RecordShowsGiven
  <2> QED BY <2>1, <2>2, <2>3, <2>4
          DEF RoomIsThere, ForeignIsNotCopied, RecordShowsBlock, RecordShowsGiven,
              MemoryIsSafe, LargeBlocksAreFreed
<1>4. CASE Destroy
  <2>1. ~(Frees /\ storage = "foreign") BY <1>1 DEF Frees, ForeignIsNotCopied
  <2>2. /\ status' = "destroyed" /\ storage' = IF Frees THEN "freed" ELSE storage
        /\ UNCHANGED <<copyData, used, recorded, real, valid, mallocFailed, small, given,
                        touched, wanted>>
    BY <1>4, <2>1 DEF Destroy
  <2>3. LargeBlocksAreFreed'
    BY <1>1, <2>2 DEF Frees, LargeBlocksAreFreed, RecordShowsBlock, ForeignIsNotCopied
  <2> QED BY <2>2, <2>3
          DEF RoomIsThere, ForeignIsNotCopied, RecordShowsBlock, RecordShowsGiven, MemoryIsSafe
<1> QED BY <1>2, <1>3, <1>4

LEMMA NextIInv == IInv /\ [Next]_vars => IInv'
<1> SUFFICES ASSUME IInv, [Next]_vars PROVE IInv' OBVIOUS
<1>1. used \in Nat BY DEF IInv, TypeOK
<1>2. ASSUME NEW n \in Writes, NEW m \in {0, n},
             WriteInRoom(n, m) \/ WriteGrowing(n, m) \/ WriteUnbacked(n, m)
      PROVE IInv'
  BY <1>2, BufferAssumption, WriteInRoomPreserves, WriteGrowingPreserves,
     WriteUnbackedPreserves
<1>3. CASE Reset \/ ResetWritePointer
  <2>1. Bytes(0) = 0 /\ Bytes(used) \in Nat BY <1>1, BytesOfWhole, BytesFacts
  <2> QED BY <1>3, <2>1, SetOffsetPreserves DEF Reset, ResetWritePointer
<1>4. CASE AlignWriteToByteBoundary
  <2>1. Bytes(used) \in Nat BY <1>1, BytesFacts
  <2>2. 8 * Bytes(used) \in Nat /\ Bytes(8 * Bytes(used)) = Bytes(used)
    BY <2>1, BytesOfWhole
  <2> QED BY <1>4, <2>1, <2>2, SetOffsetPreserves DEF AlignWriteToByteBoundary
<1>5. ASSUME NEW o \in 0..used, SetWriteOffset(o) PROVE IInv'
  <2>1. o \in Nat /\ Bytes(o) <= Bytes(used) BY <1>1, BytesMonotonic
  <2> QED BY <1>5, <2>1, SetOffsetPreserves DEF SetWriteOffset
<1>6. CASE UNCHANGED vars
  BY <1>6 DEF vars, past, IInv, TypeOK, RoomIsThere, ForeignIsNotCopied,
              RecordShowsBlock, RecordShowsGiven, Alive, MemoryIsSafe, LargeBlocksAreFreed
<1> QED BY <1>2, <1>3, <1>4, <1>5, <1>6, StoragePreserves, MoreRoomPreserves, EndPreserves
        DEF Next

\* The invariant of a BitStream's memory: what it records is there, and shows
\* where it is.
THEOREM Invariance == Spec => []IInv
<1> QED BY InitIInv, NextIInv, PTL DEF Spec

\* AddBitsAndReallocate and the destructor touch no storage that is not there or not
\* the stream's, for any stack buffer, and writes and rewinds in any order, unless
\* malloc fails, or a stream over the caller's buffer is asked for more than it was
\* given or is written to twice: a Release build then reallocates the caller's memory.
THEOREM NoOverrun == Spec => []MemoryIsSafe
<1>1. IInv => MemoryIsSafe BY DEF IInv
<1> QED BY Invariance, <1>1, PTL

\* Every byte below the write offset has content.
THEOREM WrittenIsThere == Spec => []UsedIsDefined
<1>1. IInv => UsedIsDefined BY DEF IInv, RoomIsThere, Alive, UsedIsDefined
<1> QED BY Invariance, <1>1, PTL

\* ~BitStream frees each block that is longer than the stack buffer, unless a write
\* that ended within the size of that lowered the record.
THEOREM LongBlocksAreFreed == Spec => []LargeBlocksAreFreed
<1>1. IInv => LargeBlocksAreFreed BY DEF IInv
<1> QED BY Invariance, <1>1, PTL

-----------------------------------------------------------------------------
\* What a stream carries.
Memory == [0..(8 * Room - 1) -> {0, 1}]
Stream == [data : Memory, used : Nat]

\* Nothing is in the padding of the last byte, which the next write ORs into.
Clean(s) == \A i \in DOMAIN s.data : s.used <= i /\ i < Filled(s.used) => s.data[i] = 0

\* t is s with more behind it.
Continues(s, t) ==
    /\ t \in Stream
    /\ s.used <= t.used
    /\ \A i \in DOMAIN s.data : i < s.used => t.data[i] = s.data[i]

Holds(d, at, bits, n) == \A k \in 1..n : d[at + k - 1] = bits[k]

\* Numbers of bits and of whole bytes.
LEMMA Fills ==
    \A n \in Nat : /\ Filled(n) \in Nat /\ n <= Filled(n) /\ Padding(n) \in 0..7
                   /\ Filled(n) = n + Padding(n)
                   /\ n % 8 = 0 => Filled(n) = n
                   /\ 8 * (n \div 8) \in 0..n
                   /\ n % 8 = 0 => 8 * (n \div 8) = n
                   /\ n % 8 # 0 => Filled(n) = 8 * (n \div 8) + 8
BY DEF Filled, Padding, BITS_TO_BYTES

Less == {pair \in Nat \X Nat : pair[1] < pair[2]}

\* A set of numbers has a least one: what takes the place of induction.
LEMMA LeastOfNats ==
    ASSUME NEW T \in SUBSET Nat, T # {}
    PROVE  \E x \in T : \A y \in T : x <= y
<1>1. OpToRel(<, Nat) = Less BY DEF OpToRel, Less
<1>2. IsWellFoundedOn(Less, Nat) BY <1>1, NatLessThanWellFounded
<1>3. PICK x \in T : \A y \in T : <<y, x>> \notin Less BY <1>2, WFMin
<1>4. ASSUME NEW y \in T PROVE x <= y
  <2>1. <<y, x>> \in Nat \X Nat /\ <<y, x>>[1] = y /\ <<y, x>>[2] = x OBVIOUS
  <2>2. ~(y < x) BY <1>3, <2>1, Zenon DEF Less
  <2> QED BY <2>2
<1> QED BY <1>4

\* Bits numbered from 1 are a sequence.
LEMMA AsSeq ==
    ASSUME NEW n \in Nat, NEW w \in [1..n -> {0, 1}]
    PROVE  w \in Seq({0, 1}) /\ Len(w) = n
BY SeqDef, LenProperties

\* Two sequences of bits, one behind the other.
LEMMA Joined ==
    ASSUME NEW a \in Seq({0, 1}), NEW b \in Seq({0, 1})
    PROVE  /\ a \o b \in Seq({0, 1}) /\ Len(a \o b) = Len(a) + Len(b)
           /\ Len(a) \in Nat /\ Len(b) \in Nat
           /\ \A k \in 1..Len(a) : (a \o b)[k] = a[k]
           /\ \A k \in 1..Len(b) : (a \o b)[Len(a) + k] = b[k]
<1>1. Len(a) \in Nat /\ Len(b) \in Nat BY LenProperties
<1>2. /\ a \o b \in Seq({0, 1}) /\ Len(a \o b) = Len(a) + Len(b)
      /\ \A k \in 1..(Len(a) + Len(b)) :
            (a \o b)[k] = IF k <= Len(a) THEN a[k] ELSE b[k - Len(a)]
  BY ConcatProperties
<1> DEFINE c == a \o b
<1> HIDE DEF c
<1>3. ASSUME NEW k \in 1..Len(a) PROVE c[k] = a[k]
  BY <1>1, <1>2 DEF c
<1>4. ASSUME NEW k \in 1..Len(b) PROVE c[Len(a) + k] = b[k]
  <2>1. /\ Len(a) + k \in 1..(Len(a) + Len(b)) /\ ~(Len(a) + k <= Len(a))
        /\ Len(a) + k - Len(a) = k
    BY <1>1
  <2> QED BY <1>2, <2>1 DEF c
<1> QED BY <1>1, <1>2, <1>3, <1>4 DEF c

\* The bits from m to n of a sequence.
LEMMA Part ==
    ASSUME NEW v \in Seq({0, 1}), NEW m \in Nat, NEW n \in Nat,
           1 <= m, m <= n + 1, n <= Len(v)
    PROVE  /\ SubSeq(v, m, n) \in Seq({0, 1}) /\ Len(SubSeq(v, m, n)) = n - m + 1
           /\ \A k \in 1..(n - m + 1) : SubSeq(v, m, n)[k] = v[m + k - 1]
<1>1. Len(v) \in Nat BY LenProperties
<1>2. ASSUME NEW k \in m..n PROVE v[k] \in {0, 1}
  <2>1. k \in 1..Len(v) BY <1>1
  <2> QED BY <2>1, ElementOfSeq
<1>3. /\ SubSeq(v, m, n) \in Seq({0, 1})
      /\ Len(SubSeq(v, m, n)) = IF m <= n THEN n - m + 1 ELSE 0
      /\ \A k \in 1..(n - m + 1) : SubSeq(v, m, n)[k] = v[m + k - 1]
  BY <1>2, SubSeqProperties
<1> QED BY <1>3

\* What Put leaves at the write offset, as each write uses it.
Appended(s, t, bits, n) ==
    /\ Continues(s, t)
    /\ t.used = s.used + n
    /\ Clean(s) /\ t.used <= 8 * Room => Holds(t.data, s.used, bits, n)

\* Put leaves the bits at the write offset and nothing behind whole bytes: ORing
\* into the last byte, BitStream.cpp WriteBits, does no harm if its padding is empty.
LEMMA PutAdds ==
    ASSUME NEW s \in Stream, NEW n \in Nat, NEW bits \in Seq({0, 1}), n <= Len(bits)
    PROVE  /\ Appended(s, Put(s, bits, n), bits, n)
           /\ Clean(s) /\ Len(bits) = n => Clean(Put(s, bits, n))
<1> DEFINE t == Put(s, bits, n)
           bit(i) == IF i - s.used < Len(bits) THEN bits[i - s.used + 1] ELSE 0
<1>1. s.used \in Nat /\ s.data \in Memory /\ DOMAIN s.data = 0..(8 * Room - 1)
  BY DEF Stream, Memory
<1>2. Room \in Nat BY RoomAssumption
<1>3. Filled(s.used) \in Nat /\ s.used <= Filled(s.used)
      /\ Filled(s.used + n) \in Nat /\ s.used + n <= Filled(s.used + n)
  <2>1. Filled(s.used) \in Nat /\ s.used <= Filled(s.used) BY <1>1, Fills
  <2>2. s.used + n \in Nat BY <1>1
  <2>3. Filled(s.used + n) \in Nat /\ s.used + n <= Filled(s.used + n) BY <2>2, Fills
  <2> QED BY <2>1, <2>3
<1>4. Len(bits) \in Nat /\ \A k \in 1..Len(bits) : bits[k] \in {0, 1}
  BY LenProperties, ElementOfSeq
<1>5. ASSUME NEW i \in 0..(8 * Room - 1), s.used <= i
      PROVE  bit(i) \in {0, 1}
  <2>1. CASE i - s.used < Len(bits)
    <3>1. i - s.used + 1 \in 1..Len(bits) BY <1>1, <1>2, <1>4, <1>5, <2>1
    <3> QED BY <2>1, <3>1, <1>4
  <2> QED BY <2>1
<1>6. t.used = s.used + n BY DEF Put
<1>7. /\ DOMAIN t.data = DOMAIN s.data
      /\ \A i \in DOMAIN s.data :
            t.data[i] = IF i < s.used \/ i >= Filled(s.used + n) THEN s.data[i]
                        ELSE IF i < Filled(s.used) THEN Or(s.data[i], bit(i)) ELSE bit(i)
      /\ t.data = [i \in DOMAIN s.data |-> t.data[i]]
  BY DEF Put, Begun
<1>8. t = [data |-> t.data, used |-> t.used] BY DEF Put
<1> HIDE DEF t, bit
<1>9. \A i \in DOMAIN s.data : s.data[i] \in {0, 1} BY <1>1 DEF Memory
<1>10. \A i \in DOMAIN s.data : t.data[i] \in {0, 1}
  BY <1>1, <1>2, <1>3, <1>5, <1>7, <1>9 DEF Or
<1>11. t \in Stream
  <2>1. t.data \in Memory BY <1>1, <1>7, <1>10 DEF Memory
  <2>2. t.used \in Nat BY <1>1, <1>6
  <2> QED BY <1>8, <2>1, <2>2 DEF Stream
<1>12. Continues(s, t)
  BY <1>1, <1>6, <1>7, <1>11 DEF Continues
<1>13. ASSUME Clean(s), t.used <= 8 * Room, NEW k \in 1..n
       PROVE  t.data[s.used + k - 1] = bits[k]
  <2> DEFINE i == s.used + k - 1
  <2>1. i \in DOMAIN s.data /\ s.used <= i /\ i < s.used + n BY <1>1, <1>2, <1>6, <1>13
  <2>2. i - s.used < Len(bits) /\ i - s.used + 1 = k BY <1>1, <1>4
  <2>3. bit(i) = bits[k] BY <2>2 DEF bit
  <2>4. ~(i < s.used \/ i >= Filled(s.used + n)) BY <1>1, <1>3, <2>1
  <2>5. i < Filled(s.used) => s.data[i] = 0 BY <1>13, <2>1 DEF Clean
  <2> HIDE DEF i
  <2>6. t.data[i] = IF i < Filled(s.used) THEN Or(s.data[i], bit(i)) ELSE bit(i)
    BY <1>7, <2>1, <2>4
  <2>7. t.data[i] = bits[k] BY <2>3, <2>5, <2>6 DEF Or
  <2> QED BY <2>7 DEF i
<1>14. ASSUME Clean(s), Len(bits) = n PROVE Clean(t)
  <2> SUFFICES ASSUME NEW i \in DOMAIN t.data, t.used <= i, i < Filled(t.used)
               PROVE  t.data[i] = 0
    BY DEF Clean
  <2>1. i \in DOMAIN s.data /\ i \in Int BY <1>1, <1>7
  <2>2. bit(i) = 0 /\ s.used <= i /\ i < Filled(s.used + n)
    BY <1>1, <1>6, <1>14, <2>1 DEF bit
  <2>3. i < Filled(s.used) => s.data[i] = 0 BY <1>14, <2>1, <2>2 DEF Clean
  <2> QED BY <1>1, <1>3, <1>7, <2>1, <2>2, <2>3 DEF Or
<1> QED BY <1>6, <1>12, <1>13, <1>14 DEF Appended, Holds, t

\* ... whatever the next write ORs into what it leaves.
Wrote(s, t, bits, n) == Appended(s, t, bits, n) /\ (Clean(s) => Clean(t))

\* More behind more behind a stream is more behind it.
LEMMA ContinuesTwice ==
    ASSUME NEW s \in Stream, NEW t \in Stream, NEW r, Continues(s, t), Continues(t, r)
    PROVE  Continues(s, r)
<1>1. DOMAIN s.data = DOMAIN t.data /\ s.used \in Nat /\ t.used \in Nat
      /\ DOMAIN s.data = 0..(8 * Room - 1)
  BY DEF Stream, Memory
<1>2. r \in Stream /\ r.used \in Nat BY DEF Stream, Continues
<1> QED BY <1>1, <1>2 DEF Continues

\* What a stream holds before the write offset stays when more is written.
LEMMA StillHolds ==
    ASSUME NEW s \in Stream, NEW t, Continues(s, t), s.used <= 8 * Room,
           NEW at \in Nat, NEW n \in Nat, at + n <= s.used, NEW bits,
           Holds(s.data, at, bits, n)
    PROVE  Holds(t.data, at, bits, n)
<1>1. s.used \in Nat /\ DOMAIN s.data = 0..(8 * Room - 1) /\ Room \in Nat
  BY RoomAssumption DEF Stream, Memory
<1>2. \A k \in 1..n : at + k - 1 \in DOMAIN s.data /\ at + k - 1 < s.used BY <1>1
<1> QED BY <1>2 DEF Holds, Continues

\* The bits of a value without the padding of its last byte.
LEMMA LeftBits ==
    ASSUME NEW n \in Nat, NEW v \in Seq({0, 1}), Filled(n) <= Len(v)
    PROVE  /\ Left(v, n) \in Seq({0, 1}) /\ Len(Left(v, n)) = n
           /\ \A k \in 1..n : Left(v, n)[k] = v[IF k <= 8 * (n \div 8) THEN k ELSE k + Padding(n)]
<1>1. /\ Filled(n) \in Nat /\ n <= Filled(n) /\ Padding(n) \in 0..7
      /\ Filled(n) = n + Padding(n) /\ 8 * (n \div 8) \in 0..n
  BY Fills
<1>2. Len(v) \in Nat /\ \A k \in 1..Len(v) : v[k] \in {0, 1}
  BY LenProperties, ElementOfSeq
<1>3. \A k \in 1..n : (IF k <= 8 * (n \div 8) THEN k ELSE k + Padding(n)) \in 1..Len(v)
  BY <1>1, <1>2
<1>4. \A k \in 1..n : /\ Left(v, n)[k] = v[IF k <= 8 * (n \div 8) THEN k ELSE k + Padding(n)]
                      /\ Left(v, n)[k] \in {0, 1}
  BY <1>2, <1>3 DEF Left
<1>5. Left(v, n) \in [1..n -> {0, 1}] BY <1>4 DEF Left
<1> QED BY <1>4, <1>5, AsSeq

\* WriteBits of right-aligned bits.
LEMMA WritesBits ==
    ASSUME NEW s \in Stream, NEW n \in Nat, NEW v \in Seq({0, 1}), Filled(n) <= Len(v)
    PROVE  Wrote(s, WriteBits(s, v, n, TRUE), Left(v, n), n)
<1>1. Left(v, n) \in Seq({0, 1}) /\ Len(Left(v, n)) = n BY LeftBits
<1>2. WriteBits(s, v, n, TRUE) = Put(s, Left(v, n), n) BY DEF WriteBits
<1>3. n <= Len(Left(v, n)) BY <1>1
<1> QED BY <1>1, <1>2, <1>3, PutAdds DEF Wrote

\* Write<T>: whole bytes go as they are.
LEMMA WritesValue ==
    ASSUME NEW s \in Stream, NEW v \in Seq({0, 1}), InBytes(v)
    PROVE  Wrote(s, WriteValue(s, v), v, Len(v))
<1> DEFINE n == Len(v)
<1>1. n \in Nat /\ n % 8 = 0 BY LenProperties DEF InBytes
<1>2. Filled(n) = n /\ 8 * (n \div 8) = n BY <1>1, Fills
<1>3. Wrote(s, WriteValue(s, v), Left(v, n), n)
  <2>1. Filled(n) <= Len(v) BY <1>1, <1>2
  <2> HIDE DEF n
  <2>2. Wrote(s, WriteBits(s, v, n, TRUE), Left(v, n), n) BY <1>1, <2>1, WritesBits
  <2> QED BY <2>2 DEF WriteValue, n
<1>4. \A k \in 1..n : Left(v, n)[k] = v[k]
  <2>1. Filled(n) <= Len(v) BY <1>1, <1>2
  <2> HIDE DEF n
  <2>2. \A k \in 1..n : Left(v, n)[k] = v[IF k <= 8 * (n \div 8) THEN k ELSE k + Padding(n)]
    BY <1>1, <2>1, LeftBits
  <2> QED BY <1>1, <1>2, <2>2
<1> QED BY <1>3, <1>4 DEF Wrote, Appended, Holds

\* Write0 and Write1.
LEMMA WritesBit ==
    ASSUME NEW s \in Stream, NEW b \in {0, 1}
    PROVE  /\ Wrote(s, WriteBit(s, b), <<b>>, 1)
           /\ Clean(s) /\ WriteBit(s, b).used <= 8 * Room
                => WriteBit(s, b).data[s.used] = b
<1>1. <<b>> \in Seq({0, 1}) /\ Len(<<b>>) = 1 /\ <<b>>[1] = b OBVIOUS
<1>2. Wrote(s, Put(s, <<b>>, 1), <<b>>, 1)
  <2> DEFINE bits == <<b>>
  <2>1. bits \in Seq({0, 1}) /\ Len(bits) = 1 /\ 1 <= Len(bits) BY <1>1
  <2> HIDE DEF bits
  <2>2. Wrote(s, Put(s, bits, 1), bits, 1) BY <2>1, PutAdds DEF Wrote
  <2> QED BY <2>2 DEF bits
<1>3. Wrote(s, WriteBit(s, b), <<b>>, 1) BY <1>2 DEF WriteBit
<1>4. s.used + 1 - 1 = s.used BY DEF Stream
<1> QED BY <1>1, <1>3, <1>4 DEF Wrote, Appended, Holds

\* The 1s of WriteCompressed.
LEMMA WritesOnes ==
    ASSUME NEW s \in Stream, NEW n \in Nat
    PROVE  Wrote(s, WriteOnes(s, n), [k \in 1..n |-> 1], n)
<1>1. [k \in 1..n |-> 1] \in Seq({0, 1}) /\ Len([k \in 1..n |-> 1]) = n
  <2>1. [k \in 1..n |-> 1] \in [1..n -> {0, 1}] OBVIOUS
  <2> QED BY <2>1, AsSeq
<1>2. n <= Len([k \in 1..n |-> 1]) BY <1>1
<1> QED BY <1>1, <1>2, PutAdds DEF WriteOnes, Wrote

\* Reading bits that are there.
LEMMA ReadsLeft ==
    ASSUME NEW s \in Stream, s.used <= 8 * Room, NEW at \in Nat, NEW n \in Nat \ {0},
           NEW v \in Seq({0, 1}), Filled(n) <= Len(v), at + n <= s.used,
           Holds(s.data, at, Left(v, n), n)
    PROVE  ReadBits(s, at, n, TRUE) =
             [ok |-> TRUE, at |-> at + n,
              value |-> [k \in 1..Filled(n) |->
                           IF k \in (8 * (n \div 8) + 1)..(8 * (n \div 8) + Padding(n))
                           THEN 0 ELSE v[k]]]
<1> DEFINE full == 8 * (n \div 8)
           padding == Padding(n)
           end == Filled(at + n)
           bit(k) == IF at + k <= end THEN BitAt(s, at + k - 1) ELSE 0
           right(k) == IF k <= full THEN bit(k)
                       ELSE IF k <= full + padding THEN 0
                       ELSE bit(k - padding)
<1>1. /\ Filled(n) \in Nat /\ n <= Filled(n) /\ padding \in 0..7
      /\ Filled(n) = n + padding /\ full \in 0..n
      /\ end \in Nat /\ at + n <= end
  BY Fills
<1>2. HasBits(s, at, n) BY DEF HasBits
<1>3. ReadBits(s, at, n, TRUE) =
        [ok |-> TRUE, at |-> at + n, value |-> [k \in 1..Filled(n) |-> right(k)]]
  BY <1>2 DEF ReadBits
<1>4. s.used \in Nat /\ DOMAIN s.data = 0..(8 * Room - 1) BY DEF Stream, Memory
<1>5. ASSUME NEW k \in 1..n PROVE bit(k) = s.data[at + k - 1]
  <2>1. Room \in Nat BY RoomAssumption
  <2>2. at + k - 1 \in DOMAIN s.data /\ at + k <= end BY <1>1, <1>4, <2>1
  <2> QED BY <2>2 DEF BitAt
<1>6. \A k \in 1..n : bit(k) = v[IF k <= full THEN k ELSE k + padding]
  <2>1. \A k \in 1..n : Left(v, n)[k] = v[IF k <= full THEN k ELSE k + padding]
    BY LeftBits
  <2> HIDE DEF bit
  <2> QED BY <1>5, <2>1 DEF Holds
<1> HIDE DEF bit, full, padding
<1>7. ASSUME NEW k \in 1..Filled(n)
      PROVE  right(k) = IF k \in (full + 1)..(full + padding) THEN 0 ELSE v[k]
  <2>1. CASE k <= full
    <3>1. k \in 1..n BY <1>1, <2>1
    <3> QED BY <1>1, <1>6, <2>1, <3>1
  <2>2. CASE full < k /\ k <= full + padding
    BY <1>1, <2>2
  <2>3. CASE full + padding < k
    <3>1. k - padding \in 1..n /\ ~(k - padding <= full) /\ k - padding + padding = k
      BY <1>1, <2>3
    <3>2. bit(k - padding) = v[k] BY <1>6, <3>1
    <3> QED BY <1>1, <2>3, <3>2
  <2> QED BY <1>1, <2>1, <2>2, <2>3
<1> HIDE DEF right
<1>8. [k \in 1..Filled(n) |-> right(k)] =
      [k \in 1..Filled(n) |-> IF k \in (full + 1)..(full + padding) THEN 0 ELSE v[k]]
  BY <1>7
<1> QED BY <1>3, <1>8 DEF full, padding

\* To hold two sequences one behind the other is to hold each in its place.
LEMMA HoldsBoth ==
    ASSUME NEW d, NEW at \in Nat, NEW a \in Seq({0, 1}), NEW b \in Seq({0, 1})
    PROVE  /\ a \o b \in Seq({0, 1}) /\ Len(a \o b) = Len(a) + Len(b)
           /\ Len(a) \in Nat /\ Len(b) \in Nat
           /\ Holds(d, at, a \o b, Len(a \o b)) <=>
                 Holds(d, at, a, Len(a)) /\ Holds(d, at + Len(a), b, Len(b))
<1> DEFINE n == Len(a)
           m == Len(b)
           c == a \o b
<1>1. n \in Nat /\ m \in Nat BY LenProperties
<1>2. /\ c \in Seq({0, 1}) /\ Len(c) = n + m
      /\ \A k \in 1..n : c[k] = a[k]
      /\ \A k \in 1..m : c[n + k] = b[k]
  BY <1>1, ConcatProperties
<1> HIDE DEF n, m, c
<1>3. ASSUME Holds(d, at, c, n + m)
      PROVE  Holds(d, at, a, n) /\ Holds(d, at + n, b, m)
  <2>1. ASSUME NEW k \in 1..n PROVE d[at + k - 1] = a[k]
    <3>1. k \in 1..(n + m) BY <1>1
    <3> QED BY <1>2, <1>3, <3>1 DEF Holds
  <2>2. ASSUME NEW k \in 1..m PROVE d[at + n + k - 1] = b[k]
    <3>1. n + k \in 1..(n + m) /\ at + (n + k) - 1 = at + n + k - 1 BY <1>1
    <3>2. d[at + (n + k) - 1] = c[n + k] BY <1>3, <3>1 DEF Holds
    <3> QED BY <1>2, <3>1, <3>2
  <2> QED BY <2>1, <2>2 DEF Holds
<1>4. ASSUME Holds(d, at, a, n), Holds(d, at + n, b, m)
      PROVE  Holds(d, at, c, n + m)
  <2> SUFFICES ASSUME NEW k \in 1..(n + m) PROVE d[at + k - 1] = c[k]
    BY DEF Holds
  <2>1. CASE k <= n
    <3>1. k \in 1..n BY <1>1, <2>1
    <3> QED BY <1>2, <1>4, <3>1 DEF Holds
  <2>2. CASE n < k
    <3>1. k - n \in 1..m /\ n + (k - n) = k /\ at + n + (k - n) - 1 = at + k - 1
      BY <1>1, <2>2
    <3>2. d[at + n + (k - n) - 1] = b[k - n] BY <1>4, <3>1 DEF Holds
    <3>3. c[n + (k - n)] = b[k - n] BY <1>2, <3>1
    <3> QED BY <3>1, <3>2, <3>3
  <2> QED BY <1>1, <2>1, <2>2
<1> QED BY <1>1, <1>2, <1>3, <1>4 DEF n, m, c

\* Two writes are one write of both.
LEMMA WroteBoth ==
    ASSUME NEW s \in Stream, NEW t, NEW r,
           NEW a \in Seq({0, 1}), NEW b \in Seq({0, 1}),
           Wrote(s, t, a, Len(a)), Wrote(t, r, b, Len(b))
    PROVE  Wrote(s, r, a \o b, Len(a \o b))
<1> DEFINE n == Len(a)
           m == Len(b)
           c == a \o b
<1>1. s.used \in Nat /\ n \in Nat /\ m \in Nat BY LenProperties DEF Stream
<1>2. /\ Continues(s, t) /\ t.used = s.used + n /\ (Clean(s) => Clean(t))
      /\ Clean(s) /\ t.used <= 8 * Room => Holds(t.data, s.used, a, n)
  BY DEF Wrote, Appended
<1>3. /\ Continues(t, r) /\ r.used = t.used + m /\ (Clean(t) => Clean(r))
      /\ Clean(t) /\ r.used <= 8 * Room => Holds(r.data, t.used, b, m)
  BY DEF Wrote, Appended
<1>4. t \in Stream /\ r \in Stream BY <1>2, <1>3 DEF Continues
<1>5. Len(c) = n + m /\ (Holds(r.data, s.used, a, n) /\ Holds(r.data, s.used + n, b, m)
                           => Holds(r.data, s.used, c, Len(c)))
  BY <1>1, HoldsBoth
<1> HIDE DEF n, m, c
<1>6. Continues(s, r) BY <1>2, <1>3, <1>4, ContinuesTwice
<1>7. r.used = s.used + Len(c) BY <1>1, <1>2, <1>3, <1>5
<1>8. ASSUME Clean(s), r.used <= 8 * Room PROVE Holds(r.data, s.used, c, Len(c))
  <2>1. t.used <= 8 * Room /\ t.used = s.used + n
    BY <1>1, <1>2, <1>3, <1>8, RoomAssumption
  <2>2. Holds(r.data, s.used, a, n)
    <3>1. Holds(t.data, s.used, a, n) BY <1>2, <1>8, <2>1
    <3>2. s.used + n <= t.used BY <1>1, <2>1
    <3> QED BY <1>1, <1>3, <1>4, <2>1, <3>1, <3>2, StillHolds
  <2>3. Holds(r.data, s.used + n, b, m) BY <1>2, <1>3, <1>8
  <2> QED BY <1>5, <2>2, <2>3
<1> QED BY <1>2, <1>3, <1>6, <1>7, <1>8 DEF Wrote, Appended, c

\* The bits that stand for a value: a 1 for each high byte that is zero, ...
Ones(v) == Size(v) - Significant(v)
Half(v) == Significant(v) = 1 /\ \A k \in 1..4 : v[k] = 0
KeptBits(v) == IF Half(v) THEN 4 ELSE 8 * Significant(v)
Flag(v) == IF Half(v) THEN 1 ELSE 0
Prefix(v) == [k \in 1..Ones(v) |-> 1] \o <<Flag(v)>>
Packed(v) == Prefix(v) \o Left(v, KeptBits(v))

Encoding(item) ==
    CASE item.kind = "bits" -> IF item.rightAligned THEN Left(item.value, item.bits)
                               ELSE SubSeq(item.value, 1, item.bits)
      [] item.kind = "compressed" -> Packed(item.value)
      [] item.kind = "delta" ->
            IF item.value = item.last THEN <<0>>
            ELSE <<1>> \o (IF item.packed THEN Packed(item.value) ELSE item.value)
      [] item.kind = "stream" -> SubSeq(item.value, 1, Copied(item))
      [] OTHER -> item.value

Place(item, at) == IF item.kind = "aligned" THEN Filled(at) ELSE at
End(item, at) == Place(item, at) + Len(Encoding(item))
Carries(d, at, item) == Holds(d, Place(item, at), Encoding(item), Len(Encoding(item)))

\* There is a last byte that is not zero, or the first one is all there is.
LEMMA SignificantExists ==
    ASSUME NEW v \in Seq({0, 1}), InBytes(v)
    PROVE  /\ Size(v) \in Nat \ {0} /\ Len(v) = 8 * Size(v)
           /\ Significant(v) \in 1..Size(v)
           /\ Significant(v) = 1 \/ ~IsZero(v, Significant(v))
           /\ \A j \in (Significant(v) + 1)..Size(v) : IsZero(v, j)
<1>1. Len(v) \in Nat BY LenProperties
<1>2. Size(v) \in Nat \ {0} /\ Len(v) = 8 * Size(v) BY <1>1 DEF InBytes, Size
<1> DEFINE size == Size(v)
           T == {j \in 1..size : \A k \in (j + 1)..size : IsZero(v, k)}
<1> HIDE DEF size
<1>3. size \in Nat \ {0} BY <1>2 DEF size
<1>4. size \in T BY <1>3
<1>5. T \in SUBSET Nat /\ T # {}
  <2>1. T \subseteq 1..size OBVIOUS
  <2>2. 1..size \subseteq Nat BY <1>3
  <2> HIDE DEF T
  <2> QED BY <1>4, <2>1, <2>2
<1>6. PICK x \in T : \A y \in T : x <= y BY <1>5, LeastOfNats
<1>7. x = 1 \/ ~IsZero(v, x)
  <2> SUFFICES ASSUME x # 1, IsZero(v, x) PROVE FALSE OBVIOUS
  <2>1. x \in 1..size /\ x - 1 \in 1..size BY <1>3
  <2>2. ASSUME NEW k \in (x - 1 + 1)..size PROVE IsZero(v, k)
    <3>1. k = x \/ k \in (x + 1)..size BY <2>1
    <3> QED BY <3>1
  <2>3. x - 1 \in T BY <2>1, <2>2
  <2> QED BY <1>6, <2>1, <2>3
<1>8. \E j \in 1..size : (j = 1 \/ ~IsZero(v, j)) /\ \A k \in (j + 1)..size : IsZero(v, k)
  BY <1>6, <1>7
<1> QED BY <1>2, <1>8 DEF Significant, size

\* The sizes of what stands for a value.
LEMMA Packs ==
    ASSUME NEW v \in Seq({0, 1}), InBytes(v)
    PROVE  /\ Ones(v) \in Nat /\ Ones(v) < Size(v)
           /\ Flag(v) \in {0, 1}
           /\ KeptBits(v) \in Nat \ {0} /\ Filled(KeptBits(v)) <= Len(v)
           /\ [k \in 1..Ones(v) |-> 1] \in Seq({0, 1})
           /\ Len([k \in 1..Ones(v) |-> 1]) = Ones(v)
           /\ <<Flag(v)>> \in Seq({0, 1}) /\ Len(<<Flag(v)>>) = 1
           /\ Prefix(v) \in Seq({0, 1}) /\ Len(Prefix(v)) = Ones(v) + 1
           /\ Left(v, KeptBits(v)) \in Seq({0, 1}) /\ Len(Left(v, KeptBits(v))) = KeptBits(v)
           /\ Packed(v) \in Seq({0, 1}) /\ Len(Packed(v)) = Ones(v) + 1 + KeptBits(v)
<1>1. /\ Size(v) \in Nat \ {0} /\ Len(v) = 8 * Size(v)
      /\ Significant(v) \in 1..Size(v)
  BY SignificantExists
<1>2. Ones(v) \in Nat /\ Ones(v) < Size(v) BY <1>1 DEF Ones
<1>3. Flag(v) \in {0, 1} BY DEF Flag
<1>4. KeptBits(v) \in Nat \ {0} /\ Filled(KeptBits(v)) <= Len(v)
  <2>1. CASE Half(v)
    <3>1. KeptBits(v) = 4 /\ Filled(4) = 8 BY <2>1 DEF KeptBits, Filled, BITS_TO_BYTES
    <3> QED BY <1>1, <3>1
  <2>2. CASE ~Half(v)
    <3>1. KeptBits(v) = 8 * Significant(v) BY <2>2 DEF KeptBits
    <3>2. KeptBits(v) \in Nat \ {0} /\ KeptBits(v) % 8 = 0 /\ KeptBits(v) <= Len(v) BY <1>1, <3>1
    <3>3. Filled(KeptBits(v)) = KeptBits(v) BY <3>2, Fills
    <3> QED BY <3>2, <3>3
  <2> QED BY <2>1, <2>2
<1>5. [k \in 1..Ones(v) |-> 1] \in Seq({0, 1}) /\ Len([k \in 1..Ones(v) |-> 1]) = Ones(v)
  <2>1. [k \in 1..Ones(v) |-> 1] \in [1..Ones(v) -> {0, 1}] OBVIOUS
  <2> QED BY <1>2, <2>1, AsSeq
<1>6. <<Flag(v)>> \in Seq({0, 1}) /\ Len(<<Flag(v)>>) = 1 BY <1>3
<1>7. Prefix(v) \in Seq({0, 1}) /\ Len(Prefix(v)) = Ones(v) + 1
  <2> DEFINE a == [k \in 1..Ones(v) |-> 1]
             b == <<Flag(v)>>
  <2>1. a \in Seq({0, 1}) /\ Len(a) = Ones(v) /\ b \in Seq({0, 1}) /\ Len(b) = 1
    BY <1>5, <1>6
  <2>2. Prefix(v) = a \o b BY DEF Prefix
  <2> HIDE DEF a, b
  <2>3. a \o b \in Seq({0, 1}) /\ Len(a \o b) = Len(a) + Len(b)
    BY <2>1, ConcatProperties
  <2> QED BY <2>1, <2>2, <2>3
<1>8. Left(v, KeptBits(v)) \in Seq({0, 1}) /\ Len(Left(v, KeptBits(v))) = KeptBits(v)
  BY <1>4, LeftBits
<1>9. Packed(v) \in Seq({0, 1}) /\ Len(Packed(v)) = Ones(v) + 1 + KeptBits(v)
  <2> DEFINE a == Prefix(v)
             b == Left(v, KeptBits(v))
  <2>1. /\ a \in Seq({0, 1}) /\ Len(a) = Ones(v) + 1
        /\ b \in Seq({0, 1}) /\ Len(b) = KeptBits(v)
    BY <1>7, <1>8
  <2>2. Packed(v) = a \o b BY DEF Packed
  <2> HIDE DEF a, b
  <2> QED BY <2>1, <2>2, ConcatProperties
<1> QED BY <1>2, <1>3, <1>4, <1>5, <1>6, <1>7, <1>8, <1>9

\* WriteCompressed writes just that.
LEMMA WritesPacked ==
    ASSUME NEW s \in Stream, NEW v \in Seq({0, 1}), InBytes(v)
    PROVE  Wrote(s, WriteCompressed(s, v), Packed(v), Len(Packed(v)))
<1> DEFINE ones == WriteOnes(s, Ones(v))
           flagged == WriteBit(ones, Flag(v))
<1>1. WriteCompressed(s, v) = WriteBits(flagged, v, KeptBits(v), TRUE)
  <2>1. WriteOnes(s, Size(v) - Significant(v)) = ones BY DEF Ones
  <2>2. Significant(v) \in Nat \ {0} BY SignificantExists
  <2>3. CASE Significant(v) > 1
    <3>1. ~Half(v) BY <2>2, <2>3 DEF Half
    <3>2. KeptBits(v) = 8 * Significant(v) /\ Flag(v) = 0 BY <3>1 DEF KeptBits, Flag
    <3>3. WriteCompressed(s, v)
            = WriteBits(WriteBit(WriteOnes(s, Size(v) - Significant(v)), 0), v,
                        8 * Significant(v), TRUE)
      BY <2>3 DEF WriteCompressed
    <3> QED BY <2>1, <3>2, <3>3
  <2>4. CASE Significant(v) = 1 /\ Half(v)
    <3>1. KeptBits(v) = 4 /\ Flag(v) = 1 BY <2>4 DEF KeptBits, Flag
    <3>2. WriteCompressed(s, v)
            = WriteBits(WriteBit(WriteOnes(s, Size(v) - Significant(v)), 1), v, 4, TRUE)
      <4>1. ~(Significant(v) > 1) BY <2>4
      <4>2. (\A k \in 1..4 : v[k] = 0) BY <2>4 DEF Half
      <4> QED BY <4>1, <4>2, Zenon DEF WriteCompressed
    <3> QED BY <2>1, <3>1, <3>2
  <2>5. CASE Significant(v) = 1 /\ ~Half(v)
    <3>1. KeptBits(v) = 8 /\ Flag(v) = 0 BY <2>5 DEF KeptBits, Flag
    <3>2. WriteCompressed(s, v)
            = WriteBits(WriteBit(WriteOnes(s, Size(v) - Significant(v)), 0), v, 8, TRUE)
      <4>1. ~(Significant(v) > 1) BY <2>5
      <4>2. ~(\A k \in 1..4 : v[k] = 0) BY <2>5 DEF Half
      <4> QED BY <4>1, <4>2, Zenon DEF WriteCompressed
    <3> QED BY <2>1, <3>1, <3>2
  <2>6. Significant(v) > 1 \/ Significant(v) = 1 BY <2>2
  <2> QED BY <2>3, <2>4, <2>5, <2>6, Zenon
<1>2. Wrote(s, ones, [k \in 1..Ones(v) |-> 1], Len([k \in 1..Ones(v) |-> 1]))
  BY Packs, WritesOnes
<1>3. ones \in Stream BY <1>2 DEF Wrote, Appended, Continues
<1> HIDE DEF ones
<1>4. Wrote(ones, flagged, <<Flag(v)>>, Len(<<Flag(v)>>))
  BY <1>3, Packs, WritesBit
<1>5. Wrote(s, flagged, Prefix(v), Len(Prefix(v)))
  BY <1>2, <1>3, <1>4, Packs, WroteBoth DEF Prefix
<1>6. flagged \in Stream BY <1>5 DEF Wrote, Appended, Continues
<1> HIDE DEF flagged
<1> DEFINE packedBits == WriteBits(flagged, v, KeptBits(v), TRUE)
<1>7. Wrote(flagged, packedBits, Left(v, KeptBits(v)), Len(Left(v, KeptBits(v))))
  BY <1>6, Packs, WritesBits
<1> HIDE DEF packedBits
<1>8. Wrote(s, packedBits, Packed(v), Len(Packed(v)))
  BY <1>5, <1>6, <1>7, Packs, WroteBoth DEF Packed
<1> QED BY <1>1, <1>8 DEF packedBits

\* An encoding is bits.
LEMMA Encodes ==
    ASSUME NEW item, IsItem(item)
    PROVE  Encoding(item) \in Seq({0, 1}) /\ Len(Encoding(item)) \in Nat
<1>1. item.value \in Seq({0, 1}) /\ Len(item.value) \in Nat
  BY LenProperties DEF IsItem
<1>2. Encoding(item) \in Seq({0, 1})
  <2>1. CASE item.kind = "bits" /\ item.rightAligned
    <3>1. item.bits \in Nat /\ Filled(item.bits) <= Len(item.value)
      BY <1>1, <2>1 DEF IsItem
    <3>2. Left(item.value, item.bits) \in Seq({0, 1}) BY <1>1, <3>1, LeftBits
    <3> QED BY <2>1, <3>2 DEF Encoding
  <2>2. CASE item.kind = "bits" /\ ~item.rightAligned
    <3>1. SubSeq(item.value, 1, item.bits) \in Seq({0, 1})
      <4>1. item.bits \in Nat /\ item.bits <= Len(item.value)
        BY <1>1, <2>2, Fills DEF IsItem
      <4> QED BY <1>1, <4>1, SubSeqProperties
    <3> QED BY <2>2, <3>1 DEF Encoding
  <2>3. CASE item.kind = "compressed"
    BY <1>1, <2>3, Packs DEF Encoding, IsItem
  <2>4. CASE item.kind = "delta"
    <3>1. Packed(item.value) \in Seq({0, 1}) BY <1>1, <2>4, Packs DEF IsItem
    <3>2. <<0>> \in Seq({0, 1}) /\ <<1>> \in Seq({0, 1}) OBVIOUS
    <3>3. /\ <<1>> \o Packed(item.value) \in Seq({0, 1})
          /\ <<1>> \o item.value \in Seq({0, 1})
      BY <1>1, <3>1, <3>2, ConcatProperties
    <3> QED BY <2>4, <3>2, <3>3 DEF Encoding
  <2>5. CASE item.kind = "stream"
    <3>1. Copied(item) \in 1..Len(item.value) BY <1>1, <2>5 DEF IsItem, Copied
    <3>2. SubSeq(item.value, 1, Copied(item)) \in Seq({0, 1})
      BY <1>1, <3>1, SubSeqProperties
    <3> QED BY <2>5, <3>2 DEF Encoding
  <2>6. CASE item.kind \notin {"bits", "compressed", "delta", "stream"}
    BY <1>1, <2>6 DEF Encoding
  <2> QED BY <2>1, <2>2, <2>3, <2>4, <2>5, <2>6
<1> QED BY <1>2, LenProperties

\* One bit.
LEMMA Single ==
    ASSUME NEW v \in Seq({0, 1}), Len(v) = 1
    PROVE  v = <<v[1]>> /\ v[1] \in {0, 1}
<1> DEFINE w == <<v[1]>>
<1>1. v[1] \in {0, 1} BY ElementOfSeq
<1>2. w \in Seq({0, 1}) /\ Len(w) = 1 /\ w[1] = v[1] BY <1>1
<1> HIDE DEF w
<1>3. v = w BY <1>2, SeqEqual
<1> QED BY <1>1, <1>3 DEF w

\* A PlayerID is its address and its port.
LEMMA PlayerParts ==
    ASSUME NEW v \in Seq({0, 1}), Len(v) = 48
    PROVE  /\ Address(v) \in Seq({0, 1}) /\ Len(Address(v)) = 32
           /\ \A k \in 1..32 : Address(v)[k] = v[k]
           /\ Port(v) \in Seq({0, 1}) /\ Len(Port(v)) = 16
           /\ \A k \in 1..16 : Port(v)[k] = v[32 + k]
           /\ Address(v) \o Port(v) = v
<1> DEFINE a == Address(v)
           p == Port(v)
<1>1. a \in Seq({0, 1}) /\ Len(a) = 32 /\ \A k \in 1..32 : a[k] = v[k]
  <2>1. 1 \in Nat /\ 32 \in Nat /\ 1 <= 1 /\ 1 <= 32 + 1 /\ 32 <= Len(v) OBVIOUS
  <2>2. /\ SubSeq(v, 1, 32) \in Seq({0, 1}) /\ Len(SubSeq(v, 1, 32)) = 32 - 1 + 1
        /\ \A k \in 1..(32 - 1 + 1) : SubSeq(v, 1, 32)[k] = v[1 + k - 1]
    BY <2>1, Part, Zenon
  <2>3. \A k \in 1..32 : 1 + k - 1 = k OBVIOUS
  <2> QED BY <2>2, <2>3 DEF Address
<1>2. p \in Seq({0, 1}) /\ Len(p) = 16 /\ \A k \in 1..16 : p[k] = v[32 + k]
  <2>1. 33 \in Nat /\ 48 \in Nat /\ 1 <= 33 /\ 33 <= 48 + 1 /\ 48 <= Len(v) OBVIOUS
  <2>2. /\ SubSeq(v, 33, 48) \in Seq({0, 1}) /\ Len(SubSeq(v, 33, 48)) = 48 - 33 + 1
        /\ \A k \in 1..(48 - 33 + 1) : SubSeq(v, 33, 48)[k] = v[33 + k - 1]
    BY <2>1, Part, Zenon
  <2>3. \A k \in 1..16 : 33 + k - 1 = 32 + k OBVIOUS
  <2> QED BY <2>2, <2>3 DEF Port
<1> HIDE DEF a, p
<1> DEFINE c == a \o p
<1>3. /\ c \in Seq({0, 1}) /\ Len(c) = Len(a) + Len(p)
      /\ Len(a) \in Nat /\ Len(p) \in Nat
      /\ \A k \in 1..Len(a) : c[k] = a[k]
      /\ \A k \in 1..Len(p) : c[Len(a) + k] = p[k]
  <2>1. a \in Seq({0, 1}) /\ p \in Seq({0, 1}) BY <1>1, <1>2
  <2> QED BY <2>1, Joined, Zenon
<1> HIDE DEF c
<1>4. ASSUME NEW k \in 1..48 PROVE c[k] = v[k]
  <2>1. CASE k <= 32
    <3>1. Len(a) = 32 BY <1>1
    <3>2. k \in 1..Len(a) BY <2>1, <3>1
    <3>3. k \in 1..32 BY <2>1
    <3>4. c[k] = a[k] BY <1>3, <3>2, Zenon
    <3>5. a[k] = v[k] BY <1>1, <3>3, Zenon
    <3> QED BY <3>4, <3>5
  <2>2. CASE k > 32
    <3>1. k - 32 \in 1..16 /\ 32 + (k - 32) = k BY <2>2
    <3>2. c[32 + (k - 32)] = p[k - 32] BY <1>1, <1>2, <1>3, <3>1
    <3>3. p[k - 32] = v[32 + (k - 32)] BY <1>2, <3>1
    <3> QED BY <3>1, <3>2, <3>3
  <2>3. k <= 32 \/ k > 32 OBVIOUS
  <2> QED BY <2>1, <2>2, <2>3, Zenon
<1>5. Len(c) = 48 BY <1>1, <1>2, <1>3
<1>6. c = v
  <2>1. Len(c) = Len(v) /\ \A k \in 1..Len(c) : c[k] = v[k] BY <1>4, <1>5
  <2> QED BY <1>3, <2>1, SeqEqual, Zenon
<1> QED BY <1>1, <1>2, <1>6 DEF a, p, c

\* Write(PlayerID) writes them as one.
LEMMA WritesPlayer ==
    ASSUME NEW s \in Stream, NEW v \in Seq({0, 1}), Len(v) = 48
    PROVE  Wrote(s, WritePlayer(s, v), v, 48)
<1> DEFINE a == Address(v)
           p == Port(v)
           t == WriteValue(s, a)
           r == WriteValue(t, p)
<1>1. /\ a \in Seq({0, 1}) /\ Len(a) = 32 /\ p \in Seq({0, 1}) /\ Len(p) = 16
      /\ a \o p = v
  BY PlayerParts
<1>2. WritePlayer(s, v) = r BY DEF WritePlayer
<1> HIDE DEF a, p
<1>3. InBytes(a) /\ InBytes(p) BY <1>1 DEF InBytes
<1>4. Wrote(s, t, a, Len(a)) BY <1>1, <1>3, WritesValue
<1>5. t \in Stream BY <1>4 DEF Wrote, Appended, Continues
<1> HIDE DEF t
<1>6. Wrote(t, r, p, Len(p)) BY <1>1, <1>3, <1>5, WritesValue
<1> HIDE DEF r
<1>7. Wrote(s, r, a \o p, Len(a \o p)) BY <1>1, <1>4, <1>6, WroteBoth
<1> QED BY <1>1, <1>2, <1>7

\* Where the item begins, and the stream there.
From(s, item) == IF item.kind = "aligned" THEN Aligned(s) ELSE s

\* Aligning goes on to a whole byte and leaves no padding behind.
LEMMA Begins ==
    ASSUME NEW s \in Stream, NEW item
    PROVE  LET f == From(s, item)
           IN  /\ Continues(s, f) /\ f.used = Place(item, s.used) /\ f.data = s.data
               /\ Clean(s) => Clean(f)
<1>1. s.used \in Nat /\ s.data \in Memory BY DEF Stream
<1>2. Filled(s.used) \in Nat /\ s.used <= Filled(s.used)
      /\ Filled(Filled(s.used)) = Filled(s.used)
  BY <1>1 DEF Filled, BITS_TO_BYTES
<1> DEFINE a == Aligned(s)
<1>3. a = [data |-> s.data, used |-> Filled(s.used)] BY DEF Aligned, Stream
<1> HIDE DEF a
<1>4. a \in Stream /\ a.used = Filled(s.used) /\ a.data = s.data
  BY <1>1, <1>2, <1>3 DEF Stream
<1>5. Continues(s, a) BY <1>1, <1>2, <1>4 DEF Continues
<1>6. Clean(a)
  <2>1. \A i \in DOMAIN s.data : i \in Int BY <1>1, RoomAssumption DEF Memory
  <2>2. \A i \in DOMAIN s.data : ~(Filled(s.used) <= i /\ i < Filled(s.used))
    BY <1>2, <2>1
  <2> QED BY <1>2, <1>4, <2>2 DEF Clean
<1>7. Continues(s, s) BY <1>1 DEF Continues
<1> QED BY <1>4, <1>5, <1>6, <1>7 DEF From, Place, a

\* Every kind of item writes its encoding.
LEMMA WritesEncoding ==
    ASSUME NEW s \in Stream, NEW item, IsItem(item)
    PROVE  /\ Appended(From(s, item), WriteItem(s, item),
                       Encoding(item), Len(Encoding(item)))
           /\ ~IsLast(item) =>
                 Wrote(From(s, item), WriteItem(s, item),
                       Encoding(item), Len(Encoding(item)))
<1> DEFINE v == item.value
           f == From(s, item)
           t == WriteItem(s, item)
           e == Encoding(item)
<1>1. v \in Seq({0, 1}) /\ Len(v) \in Nat BY LenProperties DEF IsItem
<1>2. CASE item.kind = "bool"
  <2>1. Len(v) = 1 BY <1>2 DEF IsItem
  <2>2. e = v /\ f = s /\ t = WriteBit(s, v[1])
    BY <1>2 DEF Encoding, From, WriteItem
  <2>3. Wrote(s, WriteBit(s, v[1]), <<v[1]>>, 1) BY <1>1, <2>1, Single, WritesBit
  <2>4. v = <<v[1]>> BY <1>1, <2>1, Single
  <2>5. Wrote(f, t, e, Len(e)) BY <2>1, <2>2, <2>3, <2>4, Zenon
  <2> QED BY <2>5 DEF Wrote
<1>3. CASE item.kind = "bits" /\ item.rightAligned
  <2>1. item.bits \in Nat /\ Filled(item.bits) <= Len(v)
    BY <1>1, <1>3 DEF IsItem
  <2>2. e = Left(v, item.bits) /\ f = s /\ t = WriteBits(s, v, item.bits, TRUE)
    BY <1>3 DEF Encoding, From, WriteItem, IsItem
  <2>3. Wrote(s, WriteBits(s, v, item.bits, TRUE), Left(v, item.bits), item.bits)
    BY <1>1, <2>1, WritesBits
  <2>4. Len(Left(v, item.bits)) = item.bits BY <1>1, <2>1, LeftBits
  <2>5. Wrote(f, t, e, Len(e)) BY <2>2, <2>3, <2>4, Zenon
  <2> QED BY <2>5 DEF Wrote
<1>4. CASE item.kind = "bits" /\ ~item.rightAligned
  <2> DEFINE n == item.bits
             w == SubSeq(v, 1, Filled(n))
  <2>1. n \in Nat /\ Filled(n) = Len(v) /\ n <= Filled(n)
    BY <1>4, Fills DEF IsItem
  <2>2. w = v
    <3>1. w \in Seq({0, 1}) /\ Len(w) = Len(v) /\ \A k \in 1..Len(v) : w[k] = v[k]
      BY <1>1, <2>1, SubSeqProperties
    <3> HIDE DEF w
    <3> QED BY <1>1, <3>1, SeqEqual
  <2>3. e = SubSeq(v, 1, n) /\ f = s /\ t = Put(s, w, n)
    BY <1>4 DEF Encoding, From, WriteItem, WriteBits, IsItem
  <2>4. Len(e) = n /\ \A k \in 1..n : e[k] = v[k]
    BY <1>1, <2>1, <2>3, SubSeqProperties
  <2> HIDE DEF w, n, e, t, f
  <2>5. Appended(s, Put(s, w, n), w, n) BY <1>1, <2>1, <2>2, PutAdds
  <2>6. Appended(f, t, e, Len(e)) BY <2>2, <2>3, <2>4, <2>5 DEF Appended, Holds
  <2> QED BY <1>4, <2>6 DEF IsLast, f, t, e
<1>5. CASE item.kind = "aligned"
  <2>1. e = v /\ f = Aligned(s) /\ t = WriteValue(Aligned(s), v) /\ InBytes(v)
    BY <1>5 DEF Encoding, From, WriteItem, WriteAlignedBytes, IsItem
  <2>2. Aligned(s) \in Stream BY <1>5, Begins DEF From, Continues
  <2>3. Wrote(Aligned(s), WriteValue(Aligned(s), v), v, Len(v))
    BY <1>1, <2>1, <2>2, WritesValue
  <2>4. Wrote(f, t, e, Len(e)) BY <2>1, <2>3, Zenon
  <2> QED BY <2>4 DEF Wrote
<1>6. CASE item.kind = "compressed"
  <2>1. e = Packed(v) /\ f = s /\ t = WriteCompressed(s, v) /\ InBytes(v)
    BY <1>6 DEF Encoding, From, WriteItem, IsItem
  <2>2. Wrote(f, t, e, Len(e)) BY <1>1, <2>1, WritesPacked
  <2> QED BY <2>2 DEF Wrote
<1>7. CASE item.kind = "delta"
  <2> DEFINE new == IF item.packed THEN Packed(v) ELSE v
             one == WriteBit(s, 1)
  <2>1. InBytes(v) /\ f = s /\ item.packed \in BOOLEAN BY <1>7 DEF IsItem, From
  <2>2. CASE v = item.last
    <3>1. e = <<0>> /\ t = WriteBit(s, 0)
      BY <1>7, <2>1, <2>2 DEF Encoding, WriteItem, WriteDelta, WriteCompressedDelta
    <3>2. Len(<<0>>) = 1 OBVIOUS
    <3>3. Wrote(s, WriteBit(s, 0), <<0>>, 1) BY WritesBit
    <3>4. Wrote(f, t, e, Len(e)) BY <2>1, <3>1, <3>2, <3>3, Zenon
    <3> QED BY <3>4 DEF Wrote
  <2>3. CASE v # item.last
    <3> DEFINE b == <<1>>
               r == IF item.packed THEN WriteCompressed(one, v) ELSE WriteValue(one, v)
    <3>1. e = b \o new /\ t = r
      BY <1>7, <2>1, <2>3 DEF Encoding, WriteItem, WriteDelta, WriteCompressedDelta
    <3>2. b \in Seq({0, 1}) /\ Len(b) = 1 OBVIOUS
    <3>3. Wrote(s, one, b, 1) BY WritesBit
    <3>4. one \in Stream BY <3>3 DEF Wrote, Appended, Continues
    <3> HIDE DEF one, b
    <3>5. new \in Seq({0, 1}) BY <1>1, <2>1, Packs
    <3>6. Wrote(one, r, new, Len(new))
      BY <1>1, <2>1, <3>4, WritesPacked, WritesValue
    <3> HIDE DEF r, new
    <3>7. Wrote(s, r, b \o new, Len(b \o new))
      BY <3>2, <3>3, <3>5, <3>6, WroteBoth
    <3>8. Wrote(f, t, e, Len(e)) BY <2>1, <3>1, <3>7, Zenon
    <3> QED BY <3>8 DEF Wrote
  <2> QED BY <2>2, <2>3
<1>8. CASE item.kind = "player"
  <2>1. e = v /\ f = s /\ t = WritePlayer(s, v) /\ Len(v) = 48
    BY <1>8 DEF Encoding, From, WriteItem, IsItem
  <2>2. Wrote(f, t, e, Len(e)) BY <1>1, <2>1, WritesPlayer
  <2> QED BY <2>2 DEF Wrote
<1>9. CASE item.kind = "stream"
  <2> DEFINE n == Copied(item)
             w == SubSeq(v, 1, n)
  <2>1. n \in 1..Len(v) BY <1>1, <1>9 DEF IsItem, Copied
  <2>2. w \in Seq({0, 1}) /\ Len(w) = n BY <1>1, <2>1, SubSeqProperties
  <2>3. e = w /\ f = s /\ t = Put(s, w, n)
    BY <1>9 DEF Encoding, From, WriteItem, WriteStream
  <2> HIDE DEF w, n
  <2>4. n \in Nat /\ n <= Len(w) BY <1>1, <2>1, <2>2
  <2>5. Wrote(s, Put(s, w, n), w, n) BY <2>2, <2>4, PutAdds DEF Wrote
  <2>6. Wrote(f, t, e, Len(e)) BY <2>2, <2>3, <2>5, Zenon
  <2> QED BY <2>6 DEF Wrote
<1> QED BY <1>2, <1>3, <1>4, <1>5, <1>6, <1>7, <1>8, <1>9 DEF IsItem

\* Bits that stay on the left.
RawBits(s, at, n) == ReadBits(s, at, n, FALSE)

\* They come as they lie there.
LEMMA ReadsRaw ==
    ASSUME NEW s \in Stream, s.used <= 8 * Room, NEW at \in Nat, NEW n \in Nat \ {0},
           NEW b, Holds(s.data, at, b, n), at + n <= s.used
    PROVE  SameBits(RawBits(s, at, n).value, b, n)
<1> DEFINE end == Filled(at + n)
           bit(k) == IF at + k <= end THEN BitAt(s, at + k - 1) ELSE 0
           value == [k \in 1..Filled(n) |-> bit(k)]
<1>1. n <= Filled(n) /\ Filled(n) \in Nat /\ end \in Nat /\ at + n <= end BY Fills
<1>2. RawBits(s, at, n) = [ok |-> TRUE, at |-> at + n, value |-> value]
  BY DEF RawBits, ReadBits, HasBits
<1>3. s.used \in Nat /\ DOMAIN s.data = 0..(8 * Room - 1) BY DEF Stream, Memory
<1>4. ASSUME NEW k \in 1..n PROVE value[k] = b[k]
  <2>1. Room \in Nat BY RoomAssumption
  <2>2. at + k - 1 \in DOMAIN s.data /\ at + k <= end BY <1>1, <1>3, <2>1
  <2>3. k \in 1..Filled(n) BY <1>1
  <2>4. value[k] = s.data[at + k - 1] BY <2>2, <2>3 DEF BitAt
  <2> QED BY <2>4 DEF Holds
<1> HIDE DEF value
<1> QED BY <1>2, <1>4 DEF SameBits

\* Read<T> of a value that is there.
LEMMA ReadsValue ==
    ASSUME NEW s \in Stream, s.used <= 8 * Room, NEW at \in Nat,
           NEW v \in Seq({0, 1}), InBytes(v), at + Len(v) <= s.used,
           Holds(s.data, at, v, Len(v))
    PROVE  ReadValue(s, at, Len(v)) = [ok |-> TRUE, at |-> at + Len(v), value |-> v]
<1> DEFINE n == Len(v)
<1>1. n \in Nat \ {0} /\ n % 8 = 0 BY LenProperties DEF InBytes
<1>2. Filled(n) = n /\ 8 * (n \div 8) = n /\ Padding(n) = 0 BY <1>1, Fills DEF Padding
<1>3. \A k \in 1..n : Left(v, n)[k] = v[k]
  <2>1. Filled(n) <= Len(v) BY <1>1, <1>2
  <2> HIDE DEF n
  <2>2. \A k \in 1..n : Left(v, n)[k] = v[IF k <= 8 * (n \div 8) THEN k ELSE k + Padding(n)]
    BY <1>1, <2>1, LeftBits
  <2> QED BY <1>1, <1>2, <2>2
<1>4. Holds(s.data, at, Left(v, n), n) BY <1>3 DEF Holds
<1> DEFINE value == [k \in 1..Filled(n) |->
                        IF k \in (8 * (n \div 8) + 1)..(8 * (n \div 8) + Padding(n))
                        THEN 0 ELSE v[k]]
<1>5. ReadBits(s, at, n, TRUE) = [ok |-> TRUE, at |-> at + n, value |-> value]
  <2>1. Filled(n) <= Len(v) /\ at + n <= s.used BY <1>1, <1>2
  <2> HIDE DEF n
  <2> QED BY <1>1, <1>4, <2>1, ReadsLeft
<1>6. value = v
  <2>1. v = [k \in 1..n |-> v[k]] BY LenProperties
  <2>2. \A k \in 1..n : k \notin (n + 1)..n BY <1>1
  <2>3. value = [k \in 1..n |-> v[k]] BY <1>1, <1>2, <2>2
  <2> QED BY <2>1, <2>3
<1> QED BY <1>5, <1>6 DEF ReadValue

\* A read that does not find its bits fails and stays where it is.
LEMMA ReadsAtMost ==
    ASSUME NEW s, NEW at, NEW n, NEW right
    PROVE  LET r == ReadBits(s, at, n, right)
           IN  /\ r.ok \in BOOLEAN
               /\ r.ok <=> at + n <= s.used
               /\ r.ok => r.at = at + n
               /\ ~r.ok => r.at = at
BY DEF ReadBits, HasBits, Fails

\* ReadBool, of a bit that is there and of one that is not.
LEMMA ReadsFlag ==
    ASSUME NEW s \in Stream, s.used <= 8 * Room, NEW at \in Nat
    PROVE  LET r == ReadBool(s, at)
           IN  /\ r.ok \in BOOLEAN
               /\ r.ok <=> at < s.used
               /\ r.ok => r.at = at + 1 /\ r.value = <<s.data[at]>>
               /\ ~r.ok => r.at = at /\ r.value = <<>>
<1>1. s.used \in Nat /\ DOMAIN s.data = 0..(8 * Room - 1) BY DEF Stream, Memory
<1>2. CASE at < s.used
  <2>1. Room \in Nat BY RoomAssumption
  <2>2. at \in DOMAIN s.data /\ at + 1 <= s.used BY <1>1, <1>2, <2>1
  <2> QED BY <1>2, <2>2 DEF ReadBool, HasBits, BitAt
<1>3. CASE ~(at < s.used)
  <2>1. ~(at + 1 <= s.used) BY <1>1, <1>3
  <2> QED BY <1>3, <2>1 DEF ReadBool, HasBits, Fails
<1> QED BY <1>2, <1>3

\* What the packed bits are, one by one.
LEMMA PackedBits ==
    ASSUME NEW d, NEW at \in Nat, NEW v \in Seq({0, 1}), InBytes(v),
           Holds(d, at, Packed(v), Len(Packed(v)))
    PROVE  /\ \A i \in 0..(Ones(v) - 1) : d[at + i] = 1
           /\ d[at + Ones(v)] = Flag(v)
           /\ Holds(d, at + Ones(v) + 1, Left(v, KeptBits(v)), KeptBits(v))
<1> DEFINE ones == [k \in 1..Ones(v) |-> 1]
           flag == <<Flag(v)>>
           left == Left(v, KeptBits(v))
<1>1. /\ ones \in Seq({0, 1}) /\ Len(ones) = Ones(v)
      /\ flag \in Seq({0, 1}) /\ Len(flag) = 1 /\ flag[1] = Flag(v)
      /\ left \in Seq({0, 1}) /\ Len(left) = KeptBits(v)
      /\ Prefix(v) \in Seq({0, 1}) /\ Len(Prefix(v)) = Ones(v) + 1
      /\ Ones(v) \in Nat
  BY Packs
<1>2. \A k \in 1..Ones(v) : ones[k] = 1 OBVIOUS
<1>3. Packed(v) = Prefix(v) \o left /\ Prefix(v) = ones \o flag BY DEF Packed, Prefix
<1> HIDE DEF ones, flag, left
<1>4. Holds(d, at, Prefix(v), Len(Prefix(v)))
      /\ Holds(d, at + Len(Prefix(v)), left, Len(left))
  <2>1. Holds(d, at, Prefix(v) \o left, Len(Prefix(v) \o left))
          <=> /\ Holds(d, at, Prefix(v), Len(Prefix(v)))
              /\ Holds(d, at + Len(Prefix(v)), left, Len(left))
    BY <1>1, HoldsBoth
  <2> QED BY <1>3, <2>1, Zenon
<1>5. Holds(d, at, ones, Len(ones)) /\ Holds(d, at + Len(ones), flag, Len(flag))
  <2>1. Holds(d, at, ones \o flag, Len(ones \o flag))
          <=> /\ Holds(d, at, ones, Len(ones))
              /\ Holds(d, at + Len(ones), flag, Len(flag))
    BY <1>1, HoldsBoth
  <2> QED BY <1>3, <1>4, <2>1, Zenon
<1>6. ASSUME NEW i \in 0..(Ones(v) - 1) PROVE d[at + i] = 1
  <2>1. i + 1 \in 1..Ones(v) /\ at + (i + 1) - 1 = at + i BY <1>1
  <2>2. d[at + (i + 1) - 1] = ones[i + 1] BY <1>1, <1>5, <2>1 DEF Holds
  <2> QED BY <1>2, <2>1, <2>2
<1>7. d[at + Ones(v)] = Flag(v)
  <2>1. at + Ones(v) + 1 - 1 = at + Ones(v) /\ 1 \in 1..1 BY <1>1
  <2>2. d[at + Ones(v) + 1 - 1] = flag[1] BY <1>1, <1>5, <2>1 DEF Holds
  <2> QED BY <1>1, <2>1, <2>2
<1>8. at + (Ones(v) + 1) = at + Ones(v) + 1 BY <1>1
<1> QED BY <1>1, <1>4, <1>6, <1>7, <1>8 DEF left

\* The 1s are counted as they were written, unless the stream ends before the 0.
LEMMA ReadsOnes ==
    ASSUME NEW s \in Stream, s.used <= 8 * Room, NEW at \in Nat, at <= s.used,
           NEW v \in Seq({0, 1}), InBytes(v),
           Holds(s.data, at, Packed(v), Len(Packed(v)))
    PROVE  LET n == LeadingOnes(s, at, Size(v))
           IN  n \in Nat /\ (at + n < s.used => n = Ones(v))
                         /\ (at + Ones(v) < s.used => n = Ones(v))
<1> DEFINE size == Size(v)
           ones == Ones(v)
           one(i) == ReadBool(s, at + i).value = <<1>>
           Fit(n) == (\A i \in 0..(n - 1) : one(i)) /\ (n < size - 1 => ~one(n))
<1>1. /\ size \in Nat \ {0} /\ ones \in Nat /\ ones < size
      /\ s.used \in Nat
  BY SignificantExists, Packs DEF Stream
<1>2. ASSUME NEW i \in Nat
      PROVE  /\ one(i) <=> (at + i < s.used /\ s.data[at + i] = 1)
  <2>1. at + i \in Nat OBVIOUS
  <2>2. CASE at + i < s.used
    <3>1. ReadBool(s, at + i).value = <<s.data[at + i]>> BY <2>1, <2>2, ReadsFlag
    <3> QED BY <2>2, <3>1
  <2>3. CASE ~(at + i < s.used)
    <3>1. ReadBool(s, at + i).value = <<>> BY <2>1, <2>3, ReadsFlag
    <3>2. Len(<<>>) = 0 /\ Len(<<1>>) = 1 OBVIOUS
    <3>3. <<>> # <<1>> BY <3>2
    <3> QED BY <2>3, <3>1, <3>3
  <2> QED BY <2>2, <2>3
<1>3. \A i \in 0..(ones - 1) : s.data[at + i] = 1 BY PackedBits
<1>4. ones < size - 1 => s.data[at + ones] # 1
  <2> SUFFICES ASSUME ones < size - 1 PROVE s.data[at + ones] # 1 OBVIOUS
  <2>1. s.data[at + ones] = Flag(v) BY PackedBits
  <2>2. Significant(v) # 1 BY <1>1, SignificantExists DEF Ones
  <2> QED BY <2>1, <2>2 DEF Flag, Half
<1> DEFINE n == LeadingOnes(s, at, size)
<1>5. n \in 0..(size - 1) /\ Fit(n)
  <2>1. \E x \in 0..(size - 1) : Fit(x)
    <3>1. CASE at + ones <= s.used
      <4> HIDE DEF size, ones, one
      <4>1. ones \in 0..(size - 1) BY <1>1
      <4>2. \A i \in 0..(ones - 1) : one(i) BY <1>1, <1>2, <1>3, <3>1
      <4>3. ones < size - 1 => ~one(ones) BY <1>1, <1>2, <1>4
      <4> QED BY <4>1, <4>2, <4>3
    <3>2. CASE ~(at + ones <= s.used)
      <4> DEFINE x == s.used - at
      <4> HIDE DEF size, ones, one
      <4>1. x \in 0..(size - 1) /\ x < ones /\ at + x = s.used /\ x \in Nat
        BY <1>1, <3>2
      <4>2. \A i \in 0..(x - 1) : one(i) BY <1>1, <1>2, <1>3, <4>1
      <4>3. ~one(x) BY <1>1, <1>2, <4>1
      <4> QED BY <4>1, <4>2, <4>3
    <3> QED BY <3>1, <3>2
  <2>2. n = CHOOSE x \in 0..(size - 1) : Fit(x) BY DEF LeadingOnes
  <2> HIDE DEF n, Fit, size
  <2> QED BY <2>1, <2>2
<1> HIDE DEF n, size, ones, one
<1>6. n \in Nat /\ n <= size - 1 BY <1>1, <1>5
<1>7. ASSUME n < ones PROVE ~(at + n < s.used) /\ ~(at + ones < s.used)
  <2>1. n \in 0..(ones - 1) /\ n < size - 1 BY <1>1, <1>6, <1>7
  <2>2. s.data[at + n] = 1 /\ ~one(n) BY <1>3, <1>5, <2>1
  <2>3. ~(at + n < s.used) BY <1>2, <1>6, <2>2
  <2> QED BY <1>1, <1>6, <1>7, <2>3
<1>8. ~(ones < n)
  <2> SUFFICES ASSUME ones < n PROVE FALSE OBVIOUS
  <2>1. ones \in 0..(n - 1) /\ ones < size - 1 BY <1>1, <1>6
  <2>2. one(ones) BY <1>5, <2>1
  <2> QED BY <1>1, <1>2, <1>4, <2>1, <2>2
<1> QED BY <1>1, <1>6, <1>7, <1>8 DEF n, size, ones

\* The zero bytes that were left out are filled in again.
LEMMA Unpacks ==
    ASSUME NEW v \in Seq({0, 1}), InBytes(v),
           NEW w, w = [k \in 1..Filled(KeptBits(v)) |->
                         IF k \in (8 * (KeptBits(v) \div 8) + 1)..
                                     (8 * (KeptBits(v) \div 8) + Padding(KeptBits(v)))
                         THEN 0 ELSE v[k]]
    PROVE  w \o Zeros(Len(v) - Len(w)) = v
<1> DEFINE kept == KeptBits(v)
           top == Significant(v)
<1>1. /\ Size(v) \in Nat \ {0} /\ Len(v) = 8 * Size(v) /\ top \in 1..Size(v)
      /\ \A j \in (top + 1)..Size(v) : IsZero(v, j)
  BY SignificantExists
<1>2. \A k \in 1..Len(v) : v[k] \in {0, 1} BY ElementOfSeq
<1>3. /\ Filled(kept) = 8 * top
      /\ \A k \in 1..Filled(kept) :
            k \in (8 * (kept \div 8) + 1)..(8 * (kept \div 8) + Padding(kept)) => v[k] = 0
  <2>1. CASE Half(v)
    <3>1. kept = 4 /\ top = 1 /\ \A k \in 1..4 : v[k] = 0 BY <2>1 DEF KeptBits, Half
    <3>2. Filled(4) = 8 /\ Padding(4) = 4 /\ 8 * (4 \div 8) = 0
      BY DEF Filled, BITS_TO_BYTES, Padding
    <3> HIDE DEF kept, top
    <3> QED BY <3>1, <3>2
  <2>2. CASE ~Half(v)
    <3>1. kept = 8 * top BY <2>2 DEF KeptBits
    <3> HIDE DEF kept, top
    <3>2. kept \in Nat /\ kept % 8 = 0 BY <1>1, <3>1
    <3>3. Filled(kept) = kept /\ 8 * (kept \div 8) = kept BY <3>2, Fills
    <3>4. Padding(kept) = 0 BY <3>2, <3>3 DEF Padding
    <3>5. \A k : k \notin (kept + 1)..(kept + 0) BY <3>2
    <3> QED BY <3>1, <3>3, <3>4, <3>5
  <2> QED BY <2>1, <2>2
<1> DEFINE full == Filled(kept)
<1>4. full \in Nat /\ full = 8 * top /\ full <= Len(v) BY <1>1, <1>3
<1>5. \A k \in 1..full : w[k] = v[k] BY <1>3
<1>6. w \in Seq({0, 1}) /\ Len(w) = full
  <2>1. w = [k \in 1..full |-> w[k]] OBVIOUS
  <2> HIDE DEF full
  <2>2. \A k \in 1..full : w[k] \in {0, 1} BY <1>1, <1>2, <1>4, <1>5
  <2>3. w \in [1..full -> {0, 1}] BY <2>1, <2>2
  <2> QED BY <1>4, <2>3, AsSeq
<1> DEFINE n == Len(v) - Len(w)
           z == Zeros(n)
<1> HIDE DEF full, top, kept
<1>7. n \in Nat /\ n = Len(v) - full
  <2>1. Len(v) \in Nat BY LenProperties
  <2>2. Len(v) - full \in Nat BY <1>4, <2>1
  <2> QED BY <1>6, <2>2
<1> HIDE DEF n
<1>8. z \in Seq({0, 1}) /\ Len(z) = n /\ \A k \in 1..n : z[k] = 0
  <2>1. z \in [1..n -> {0, 1}] /\ \A k \in 1..n : z[k] = 0 BY DEF Zeros
  <2> QED BY <1>7, <2>1, AsSeq
<1> HIDE DEF z
<1> DEFINE c == w \o z
<1>9. /\ c \in Seq({0, 1}) /\ Len(c) = Len(w) + Len(z)
      /\ \A k \in 1..Len(w) : c[k] = w[k]
      /\ \A k \in 1..Len(z) : c[Len(w) + k] = z[k]
  BY <1>6, <1>8, Joined
<1> HIDE DEF c
<1>10. Len(c) = Len(v) BY <1>1, <1>4, <1>6, <1>7, <1>8, <1>9
<1>11. ASSUME NEW k \in 1..Len(v) PROVE c[k] = v[k]
  <2>1. CASE k <= full
    <3>1. k \in 1..full BY <1>1, <1>4, <2>1
    <3> QED BY <1>5, <1>6, <1>9, <3>1
  <2>2. CASE k > full
    <3>1. k - full \in 1..n /\ full + (k - full) = k BY <1>1, <1>4, <1>7, <2>2
    <3>2. c[k] = 0
      <4>1. c[full + (k - full)] = z[k - full] BY <1>6, <1>8, <1>9, <3>1
      <4> QED BY <1>8, <3>1, <4>1
    <3> DEFINE j == (k + 7) \div 8
    <3>3. j \in Nat /\ k \in (8 * j - 7)..(8 * j) OBVIOUS
    <3> HIDE DEF j
    <3>4. j \in (top + 1)..Size(v) BY <1>1, <1>4, <2>2, <3>3
    <3>5. v[k] = 0 BY <1>1, <3>3, <3>4 DEF top, IsZero
    <3> QED BY <3>2, <3>5
  <2> QED BY <1>1, <1>4, <2>1, <2>2
<1>12. c = v BY <1>9, <1>10, <1>11, SeqEqual
<1> QED BY <1>12 DEF c, z, n

\* ReadCompressed undoes WriteCompressed, or fails if not all of it is there.
LEMMA ReadsPacked ==
    ASSUME NEW s \in Stream, s.used <= 8 * Room, NEW at \in Nat, at <= s.used,
           NEW v \in Seq({0, 1}), InBytes(v),
           Holds(s.data, at, Packed(v), Len(Packed(v)))
    PROVE  LET r == ReadCompressed(s, at, Len(v))
           IN  /\ r.ok \in BOOLEAN
               /\ r.ok <=> at + Len(Packed(v)) <= s.used
               /\ r.ok => r.at = at + Len(Packed(v)) /\ r.value = v
<1> DEFINE ones == Ones(v)
           kept == KeptBits(v)
           n == LeadingOnes(s, at, Size(v))
           flag == ReadBool(s, at + n)
           left == IF n < Size(v) - 1 \/ flag.value # <<1>>
                   THEN 8 * (Size(v) - n) ELSE 4
           rest == ReadBits(s, flag.at, left, TRUE)
           r == ReadCompressed(s, at, Len(v))
<1>1. /\ Size(v) \in Nat \ {0} /\ Len(v) = 8 * Size(v) /\ Significant(v) \in 1..Size(v)
      /\ ones = Size(v) - Significant(v)
  BY SignificantExists DEF Ones
<1>2. /\ ones \in Nat /\ kept \in Nat \ {0} /\ Filled(kept) <= Len(v)
      /\ Len(Packed(v)) = ones + 1 + kept /\ s.used \in Nat
  BY Packs DEF Stream
<1>3. n \in Nat /\ (at + n < s.used => n = ones) /\ (at + ones < s.used => n = ones)
  BY ReadsOnes
<1>4. r = IF flag.ok /\ rest.ok
          THEN [rest EXCEPT !.value = @ \o Zeros(Len(v) - Len(@))]
          ELSE Fails(flag.at)
  <2>1. Len(v) \div 8 = Size(v) BY DEF Size
  <2> QED BY <2>1, Zenon DEF ReadCompressed, BytesAfter
<1> HIDE DEF n, r
<1>5. CASE at + ones < s.used
  <2>1. n = ones /\ at + ones \in Nat BY <1>2, <1>3, <1>5
  <2>2. flag.ok /\ flag.at = at + ones + 1 /\ flag.value = <<s.data[at + ones]>>
    BY <1>5, <2>1, ReadsFlag
  <2>3. s.data[at + ones] = Flag(v)
        /\ Holds(s.data, at + ones + 1, Left(v, kept), kept)
    BY PackedBits
  <2> HIDE DEF flag
  <2>4. left = kept
    <3>1. CASE Half(v)
      <4>1. Significant(v) = 1 /\ Flag(v) = 1 /\ kept = 4 BY <3>1 DEF Half, Flag, KeptBits
      <4>2. ~(n < Size(v) - 1) BY <1>1, <2>1, <4>1
      <4>3. flag.value = <<1>> BY <2>2, <2>3, <4>1
      <4> QED BY <4>1, <4>2, <4>3, Zenon
    <3>2. CASE ~Half(v)
      <4>1. Flag(v) = 0 /\ kept = 8 * Significant(v) BY <3>2 DEF Flag, KeptBits
      <4>2. flag.value = <<0>> BY <2>2, <2>3, <4>1
      <4>3. <<0>> # <<1>> OBVIOUS
      <4>4. 8 * (Size(v) - n) = kept BY <1>1, <2>1, <4>1
      <4> QED BY <4>2, <4>3, <4>4, Zenon
    <3> QED BY <3>1, <3>2
  <2>5. rest = ReadBits(s, at + ones + 1, kept, TRUE) BY <2>2, <2>4
  <2> HIDE DEF ones, kept
  <2>6. rest.ok \in BOOLEAN /\ (rest.ok <=> at + ones + 1 + kept <= s.used)
    <3>1. LET q == ReadBits(s, at + ones + 1, kept, TRUE)
          IN  q.ok \in BOOLEAN /\ (q.ok <=> at + ones + 1 + kept <= s.used)
      BY ReadsAtMost
    <3> QED BY <2>5, <3>1
  <2>7. CASE at + ones + 1 + kept <= s.used
    <3> DEFINE w == [k \in 1..Filled(kept) |->
                       IF k \in (8 * (kept \div 8) + 1)..(8 * (kept \div 8) + Padding(kept))
                       THEN 0 ELSE v[k]]
    <3>1. at + ones + 1 \in Nat BY <1>2
    <3>2. rest = [ok |-> TRUE, at |-> at + ones + 1 + kept, value |-> w]
      BY <1>2, <2>3, <2>5, <2>7, <3>1, ReadsLeft
    <3>3. w \o Zeros(Len(v) - Len(w)) = v BY Unpacks DEF kept
    <3> HIDE DEF w, rest
    <3>4. r = [rest EXCEPT !.value = @ \o Zeros(Len(v) - Len(@))]
      BY <1>4, <2>2, <2>6, <2>7
    <3>5. r = [ok |-> TRUE, at |-> at + ones + 1 + kept, value |-> v]
      BY <3>2, <3>3, <3>4
    <3>6. at + Len(Packed(v)) = at + ones + 1 + kept BY <1>2
    <3>7. r.ok = TRUE /\ r.at = at + Len(Packed(v)) /\ r.value = v BY <3>5, <3>6
    <3> QED BY <2>7, <3>6, <3>7 DEF r
  <2>8. CASE ~(at + ones + 1 + kept <= s.used)
    <3> HIDE DEF rest
    <3>1. ~rest.ok BY <2>6, <2>8
    <3>2. r = Fails(flag.at) BY <1>4, <3>1
    <3>3. r.ok = FALSE BY <3>2 DEF Fails
    <3>4. ~(at + Len(Packed(v)) <= s.used) BY <1>2, <2>8
    <3> QED BY <3>3, <3>4 DEF r
  <2> QED BY <2>7, <2>8
<1>6. CASE ~(at + ones < s.used)
  <2>1. ~(at + n < s.used) /\ at + n \in Nat BY <1>3, <1>6
  <2>2. ~flag.ok BY <2>1, ReadsFlag
  <2> HIDE DEF flag, rest
  <2>3. r = Fails(flag.at) BY <1>4, <2>2
  <2>4. r.ok = FALSE BY <2>3 DEF Fails
  <2>5. ~(at + Len(Packed(v)) <= s.used) BY <1>2, <1>6
  <2> QED BY <2>4, <2>5 DEF r
<1> QED BY <1>5, <1>6

\* Behind the end ReadCompressed fails.
LEMMA ReadsNothing ==
    ASSUME NEW s \in Stream, s.used <= 8 * Room, NEW at \in Nat, s.used <= at,
           NEW v \in Seq({0, 1}), InBytes(v)
    PROVE  ReadCompressed(s, at, Len(v)).ok = FALSE
<1> DEFINE n == LeadingOnes(s, at, Size(v))
           Fit(x) == /\ \A i \in 0..(x - 1) : ReadBool(s, at + i).value = <<1>>
                     /\ x < Size(v) - 1 => ReadBool(s, at + x).value # <<1>>
           flag == ReadBool(s, at + n)
<1>1. Size(v) \in Nat \ {0} /\ s.used \in Nat BY SignificantExists DEF Stream
<1>2. n \in Nat
  <2>1. Fit(0)
    <3>1. ReadBool(s, at + 0).value = <<>> BY <1>1, ReadsFlag
    <3>2. Len(<<>>) = 0 /\ Len(<<1>>) = 1 OBVIOUS
    <3>3. <<>> # <<1>> BY <3>2
    <3>4. ReadBool(s, at + 0).value # <<1>> BY <3>1, <3>3
    <3> QED BY <3>4
  <2>2. 0 \in 0..(Size(v) - 1) BY <1>1
  <2>3. n = CHOOSE x \in 0..(Size(v) - 1) : Fit(x) BY DEF LeadingOnes
  <2> HIDE DEF n, Fit
  <2>4. n \in 0..(Size(v) - 1) BY <2>1, <2>2, <2>3
  <2> QED BY <2>4
<1> HIDE DEF n
<1>3. at + n \in Nat /\ ~(at + n < s.used) BY <1>1, <1>2
<1>4. ~flag.ok BY <1>3, ReadsFlag
<1>5. Len(v) \div 8 = Size(v) BY DEF Size
<1>6. ReadCompressed(s, at, Len(v)) = Fails(flag.at)
  BY <1>4, <1>5, Zenon DEF ReadCompressed, n
<1>7. \A x : Fails(x).ok = FALSE BY DEF Fails
<1> QED BY <1>6, <1>7, Zenon

\* Read(PlayerID&) of one that is all there.
LEMMA ReadsPlayer ==
    ASSUME NEW s \in Stream, s.used <= 8 * Room, NEW at \in Nat,
           NEW v \in Seq({0, 1}), Len(v) = 48, Holds(s.data, at, v, 48)
    PROVE  LET r == ReadPlayer(s, at)
           IN  /\ r.ok \in BOOLEAN
               /\ at + 48 <= s.used => r.ok = TRUE /\ r.at = at + 48 /\ r.value = v
<1> DEFINE a == Address(v)
           p == Port(v)
           address == ReadValue(s, at, 32)
           port == ReadValue(s, address.at, 16)
           value == (IF address.ok THEN address.value ELSE Zeros(32)) \o port.value
           r == ReadPlayer(s, at)
<1>1. /\ a \in Seq({0, 1}) /\ Len(a) = 32 /\ \A k \in 1..32 : a[k] = v[k]
      /\ p \in Seq({0, 1}) /\ Len(p) = 16 /\ \A k \in 1..16 : p[k] = v[32 + k]
      /\ a \o p = v
  BY PlayerParts
<1>2. r = [port EXCEPT !.value = value] BY DEF ReadPlayer
<1>3. port = [ok |-> port.ok, value |-> port.value, at |-> port.at] /\ port.ok \in BOOLEAN
  BY DEF ReadValue, ReadBits, Fails
<1>4. r = [ok |-> port.ok, value |-> value, at |-> port.at]
  <2> HIDE DEF r, port, value
  <2> QED BY <1>2, <1>3
<1>5. r.ok = port.ok /\ r.value = value /\ r.at = port.at
  <2> HIDE DEF r, port, value
  <2> QED BY <1>4
<1>6. ASSUME at + 48 <= s.used
      PROVE  port.ok = TRUE /\ port.at = at + 48 /\ value = v
  <2> HIDE DEF a, p
  <2>1. s.used \in Nat BY DEF Stream
  <2>2. InBytes(a) /\ InBytes(p) BY <1>1 DEF InBytes
  <2>3. address = [ok |-> TRUE, at |-> at + 32, value |-> a]
    <3>1. Holds(s.data, at, a, Len(a))
      <4>1. ASSUME NEW k \in 1..32 PROVE s.data[at + k - 1] = a[k]
        <5>1. k \in 1..48 BY <4>1
        <5> QED BY <1>1, <5>1 DEF Holds
      <4> QED BY <1>1, <4>1 DEF Holds
    <3>2. at + Len(a) <= s.used
      <4>1. at + 32 <= s.used BY <1>6, <2>1
      <4>2. Len(a) = 32 BY <1>1
      <4> QED BY <4>1, <4>2
    <3>3. ReadValue(s, at, Len(a)) = [ok |-> TRUE, at |-> at + Len(a), value |-> a]
      BY <1>1, <2>2, <3>1, <3>2, ReadsValue
    <3> QED BY <1>1, <3>3
  <2> HIDE DEF address
  <2>4. port = [ok |-> TRUE, at |-> at + 48, value |-> p]
    <3>1. Holds(s.data, at + 32, p, Len(p))
      <4>1. ASSUME NEW k \in 1..16 PROVE s.data[at + 32 + k - 1] = p[k]
        <5>1. 32 + k \in 1..48 /\ at + (32 + k) - 1 = at + 32 + k - 1 BY <4>1
        <5>2. s.data[at + (32 + k) - 1] = v[32 + k] BY <5>1 DEF Holds
        <5> QED BY <1>1, <5>1, <5>2
      <4> QED BY <1>1, <4>1 DEF Holds
    <3>2. at + 32 \in Nat /\ at + 32 + Len(p) <= s.used
      <4>1. at + 32 \in Nat /\ at + 32 + 16 <= s.used BY <1>6, <2>1
      <4>2. Len(p) = 16 BY <1>1
      <4> QED BY <4>1, <4>2
    <3>3. ReadValue(s, at + 32, Len(p))
            = [ok |-> TRUE, at |-> at + 32 + Len(p), value |-> p]
      BY <1>1, <2>2, <3>1, <3>2, ReadsValue
    <3>4. at + 32 + Len(p) = at + 48 /\ address.at = at + 32 BY <1>1, <2>3
    <3> QED BY <1>1, <3>3, <3>4
  <2> HIDE DEF port
  <2>5. address.ok = TRUE /\ address.value = a /\ port.ok = TRUE /\ port.at = at + 48
        /\ port.value = p
    BY <2>3, <2>4
  <2> QED BY <1>1, <2>5
<1> QED BY <1>3, <1>5, <1>6, Zenon DEF r

\* A read that fails unless the stream goes on to the end.
Returns(r, s, end, value) ==
    /\ r.ok \in BOOLEAN
    /\ r.ok <=> end <= s.used
    /\ r.ok => r.at = end /\ r.value = value

\* ReadBits of right-aligned bits.
LEMMA BitsReturned ==
    ASSUME NEW s \in Stream, s.used <= 8 * Room, NEW at \in Nat, NEW n \in Nat \ {0},
           NEW v \in Seq({0, 1}), Filled(n) <= Len(v), Holds(s.data, at, Left(v, n), n),
           NEW w, w = [k \in 1..Filled(n) |->
                         IF k \in (8 * (n \div 8) + 1)..(8 * (n \div 8) + Padding(n))
                         THEN 0 ELSE v[k]]
    PROVE  Returns(ReadBits(s, at, n, TRUE), s, at + n, w)
<1> DEFINE r == ReadBits(s, at, n, TRUE)
<1>1. r.ok \in BOOLEAN /\ (r.ok <=> at + n <= s.used) BY ReadsAtMost
<1>2. ASSUME at + n <= s.used PROVE r.at = at + n /\ r.value = w
  <2>1. r = [ok |-> TRUE, at |-> at + n, value |-> w] BY <1>2, ReadsLeft
  <2> HIDE DEF r
  <2> QED BY <2>1
<1> HIDE DEF r
<1>3. Returns(r, s, at + n, w) BY <1>1, <1>2 DEF Returns
<1> QED BY <1>3 DEF r

\* ReadBits of left-aligned bits.
LEMMA RawReturned ==
    ASSUME NEW s \in Stream, s.used <= 8 * Room, NEW at \in Nat, NEW n \in Nat \ {0},
           NEW b, Holds(s.data, at, b, n)
    PROVE  /\ Returns(RawBits(s, at, n), s, at + n, RawBits(s, at, n).value)
           /\ at + n <= s.used => SameBits(RawBits(s, at, n).value, b, n)
<1>1. LET r == RawBits(s, at, n)
      IN  r.ok \in BOOLEAN /\ (r.ok <=> at + n <= s.used) /\ (r.ok => r.at = at + n)
  BY DEF RawBits, ReadBits, HasBits, Fails
<1> QED BY <1>1, ReadsRaw DEF Returns

\* Read<T>.
LEMMA ValueReturned ==
    ASSUME NEW s \in Stream, s.used <= 8 * Room, NEW at \in Nat,
           NEW v \in Seq({0, 1}), InBytes(v), Holds(s.data, at, v, Len(v))
    PROVE  Returns(ReadValue(s, at, Len(v)), s, at + Len(v), v)
<1> DEFINE r == ReadValue(s, at, Len(v))
<1>1. r = ReadBits(s, at, Len(v), TRUE) BY DEF ReadValue
<1>2. r.ok \in BOOLEAN /\ (r.ok <=> at + Len(v) <= s.used)
  <2> DEFINE q == ReadBits(s, at, Len(v), TRUE)
  <2>1. q.ok \in BOOLEAN /\ (q.ok <=> at + Len(v) <= s.used) BY ReadsAtMost
  <2> HIDE DEF r, q
  <2>2. r = q BY <1>1 DEF q
  <2> QED BY <2>1, <2>2
<1>3. ASSUME at + Len(v) <= s.used PROVE r.at = at + Len(v) /\ r.value = v
  <2>1. r = [ok |-> TRUE, at |-> at + Len(v), value |-> v] BY <1>3, ReadsValue
  <2> HIDE DEF r
  <2> QED BY <2>1
<1> HIDE DEF r
<1>4. Returns(r, s, at + Len(v), v) BY <1>2, <1>3 DEF Returns
<1> QED BY <1>4 DEF r

\* ReadCompressed.
LEMMA PackedReturned ==
    ASSUME NEW s \in Stream, s.used <= 8 * Room, NEW at \in Nat, at <= s.used,
           NEW v \in Seq({0, 1}), InBytes(v),
           Holds(s.data, at, Packed(v), Len(Packed(v)))
    PROVE  Returns(ReadCompressed(s, at, Len(v)), s, at + Len(Packed(v)), v)
<1> DEFINE r == ReadCompressed(s, at, Len(v))
<1>1. /\ r.ok \in BOOLEAN
      /\ r.ok <=> at + Len(Packed(v)) <= s.used
      /\ r.ok => r.at = at + Len(Packed(v)) /\ r.value = v
  BY ReadsPacked
<1> HIDE DEF r
<1>2. Returns(r, s, at + Len(Packed(v)), v) BY <1>1 DEF Returns
<1> QED BY <1>2 DEF r

\* What a read owes: it succeeds when the item is all there, and it does not when
\* it is not; the exception is a PlayerID that ends outside.
ReadsRight(s, at, item, r) ==
    /\ r.ok \in BOOLEAN
    /\ End(item, at) <= s.used => r.ok
    /\ r.ok /\ ~(item.kind = "player" /\ at + 48 > s.used)
         => /\ End(item, at) <= s.used /\ r.at = End(item, at)
            /\ Same(item, r.value)

\* A read that is as the item asks is right.
LEMMA RightWhenReturned ==
    ASSUME NEW s, NEW at, NEW item, NEW r, NEW value,
           Returns(r, s, End(item, at), value),
           End(item, at) <= s.used => Same(item, value)
    PROVE  ReadsRight(s, at, item, r)
BY DEF Returns, ReadsRight

\* A delta is a flag, and the value behind a 1; with the flag not there it fails.
LEMMA DeltaRead ==
    ASSUME NEW s \in Stream, s.used <= 8 * Room, NEW at \in Nat, at <= s.used,
           NEW item, IsItem(item), Carries(s.data, at, item), item.kind = "delta"
    PROVE  Returns(ReadItem(s, at, item), s, End(item, at), item.value)
<1> DEFINE v == item.value
           base == item.last
           r == ReadItem(s, at, item)
           flag == ReadBool(s, at)
           rest == IF item.packed THEN ReadCompressed(s, flag.at, Len(v))
                   ELSE ReadValue(s, flag.at, Len(v))
           new == IF item.packed THEN Packed(v) ELSE v
<1>1. /\ v \in Seq({0, 1}) /\ Len(v) \in Nat /\ s.used \in Nat
      /\ InBytes(v) /\ item.packed \in BOOLEAN
  BY LenProperties DEF IsItem, Stream
<1>2. r = IF Unchanged(flag) THEN [flag EXCEPT !.value = base] ELSE rest
  BY <1>1 DEF ReadItem, ReadDelta, ReadCompressedDelta
<1>3. /\ flag.ok \in BOOLEAN /\ (flag.ok <=> at < s.used)
      /\ flag.ok => flag.at = at + 1 /\ flag.value = <<s.data[at]>>
      /\ ~flag.ok => flag.at = at
  BY ReadsFlag
<1>4. flag = [ok |-> flag.ok, at |-> flag.at, value |-> flag.value]
  BY DEF ReadBool, Fails
<1>5. ASSUME ~flag.ok PROVE rest.ok = FALSE
  <2>1. s.used <= at /\ flag.at = at BY <1>1, <1>3, <1>5
  <2>2. ReadCompressed(s, at, Len(v)).ok = FALSE BY <1>1, <2>1, ReadsNothing
  <2>3. ReadValue(s, at, Len(v)).ok = FALSE
    <3>1. ~(at + Len(v) <= s.used) BY <1>1, <2>1 DEF InBytes
    <3> QED BY <3>1 DEF ReadValue, ReadBits, HasBits, Fails
  <2> QED BY <2>1, <2>2, <2>3
<1>6. End(item, at) = at + Len(Encoding(item))
      /\ Holds(s.data, at, Encoding(item), Len(Encoding(item)))
  BY DEF End, Place, Carries
<1>7. CASE v = base
  <2> DEFINE b == <<0>>
  <2>1. Encoding(item) = b /\ Len(b) = 1 /\ b[1] = 0 BY <1>7 DEF Encoding
  <2> HIDE DEF b
  <2>2. End(item, at) = at + 1 /\ s.data[at] = 0
    <3>1. Holds(s.data, at, b, 1) /\ End(item, at) = at + 1 BY <1>6, <2>1
    <3>2. at + 1 - 1 = at OBVIOUS
    <3> QED BY <2>1, <3>1, <3>2 DEF Holds
  <2>3. ASSUME flag.ok PROVE r.ok = TRUE /\ r.at = at + 1 /\ r.value = v
    <3>1. r = [flag EXCEPT !.value = base] BY <1>2, <1>3, <2>2, <2>3 DEF Unchanged
    <3> HIDE DEF r, flag
    <3>2. r = [ok |-> flag.ok, at |-> flag.at, value |-> v] BY <1>4, <1>7, <3>1
    <3> QED BY <1>3, <2>3, <3>2
  <2>4. ASSUME ~flag.ok PROVE r.ok = FALSE
    <3>1. r = rest BY <1>2, <2>4 DEF Unchanged
    <3> QED BY <1>5, <2>4, <3>1
  <2>5. flag.ok <=> at + 1 <= s.used BY <1>1, <1>3
  <2> HIDE DEF r, flag
  <2>6. Returns(r, s, at + 1, v) BY <1>3, <2>3, <2>4, <2>5 DEF Returns
  <2> QED BY <2>2, <2>6 DEF r
<1>8. CASE v # base
  <2>1. Encoding(item) = <<1>> \o new BY <1>8 DEF Encoding
  <2>2. new \in Seq({0, 1})
    <3>1. Packed(v) \in Seq({0, 1}) BY <1>1, Packs
    <3> QED BY <1>1, <3>1
  <2>3. /\ s.data[at] = 1 /\ Holds(s.data, at + 1, new, Len(new))
        /\ End(item, at) = at + 1 + Len(new) /\ Len(new) \in Nat
    <3> DEFINE b == <<1>>
    <3>1. b \in Seq({0, 1}) /\ Len(b) = 1 /\ b[1] = 1 OBVIOUS
    <3> HIDE DEF b, new
    <3>2. Holds(s.data, at, b \o new, Len(b \o new))
            <=> /\ Holds(s.data, at, b, Len(b))
                /\ Holds(s.data, at + Len(b), new, Len(new))
      BY <2>2, <3>1, HoldsBoth
    <3>3. Encoding(item) = b \o new BY <2>1 DEF b
    <3>4. Holds(s.data, at, b \o new, Len(b \o new)) BY <1>6, <3>3
    <3>5. Len(b \o new) = Len(b) + Len(new) /\ Len(new) \in Nat BY <2>2, <3>1, Joined
    <3>6. Holds(s.data, at, b, 1) /\ Holds(s.data, at + 1, new, Len(new))
      BY <3>1, <3>2, <3>4
    <3>7. s.data[at] = 1
      <4>1. at + 1 - 1 = at OBVIOUS
      <4> QED BY <3>1, <3>6, <4>1 DEF Holds
    <3>8. End(item, at) = at + 1 + Len(new) BY <1>6, <3>1, <3>3, <3>5
    <3> QED BY <3>5, <3>6, <3>7, <3>8
  <2>4. ASSUME flag.ok PROVE Returns(rest, s, at + 1 + Len(new), v)
    <3>1. flag.at = at + 1 /\ at + 1 \in Nat /\ at + 1 <= s.used
      BY <1>1, <1>3, <2>4
    <3>2. CASE item.packed
      <4>1. new = Packed(v) /\ rest = ReadCompressed(s, at + 1, Len(v)) BY <3>1, <3>2
      <4>2. Holds(s.data, at + 1, Packed(v), Len(Packed(v))) BY <2>3, <4>1
      <4> HIDE DEF new, rest, v
      <4>3. Returns(ReadCompressed(s, at + 1, Len(v)), s, at + 1 + Len(Packed(v)), v)
        BY <1>1, <3>1, <4>2, PackedReturned
      <4> QED BY <4>1, <4>3
    <3>3. CASE ~item.packed
      <4>1. new = v /\ rest = ReadValue(s, at + 1, Len(v)) BY <3>1, <3>3
      <4>2. Holds(s.data, at + 1, v, Len(v)) BY <2>3, <4>1
      <4> HIDE DEF new, rest, v
      <4>3. Returns(ReadValue(s, at + 1, Len(v)), s, at + 1 + Len(v), v)
        BY <1>1, <3>1, <4>2, ValueReturned
      <4> QED BY <4>1, <4>3
    <3> QED BY <3>2, <3>3
  <2>5. r = rest
    <3>1. <<0>> # <<1>> OBVIOUS
    <3>2. ~Unchanged(flag) BY <1>3, <2>3, <3>1 DEF Unchanged
    <3> QED BY <1>2, <3>2
  <2> HIDE DEF r, flag, rest, new, v, base
  <2>6. ASSUME ~flag.ok PROVE Returns(r, s, at + 1 + Len(new), v)
    <3>1. ~(at + 1 + Len(new) <= s.used) BY <1>1, <1>3, <2>3, <2>6
    <3>2. r.ok = FALSE BY <1>5, <2>5, <2>6
    <3> QED BY <3>1, <3>2 DEF Returns
  <2>7. Returns(r, s, at + 1 + Len(new), v) BY <1>3, <2>4, <2>5, <2>6
  <2> QED BY <2>3, <2>7 DEF r, v
<1> QED BY <1>7, <1>8

\* Bits, of either alignment, are read as they were written.
LEMMA BitsRead ==
    ASSUME NEW s \in Stream, s.used <= 8 * Room, NEW at \in Nat, at <= s.used,
           NEW item, IsItem(item), Carries(s.data, at, item), item.kind = "bits"
    PROVE  ReadsRight(s, at, item, ReadItem(s, at, item))
<1> DEFINE v == item.value
           n == item.bits
           e == Encoding(item)
           w == [k \in 1..Filled(n) |->
                   IF k \in (8 * (n \div 8) + 1)..(8 * (n \div 8) + Padding(n))
                   THEN 0 ELSE v[k]]
<1>1. /\ v \in Seq({0, 1}) /\ Len(v) \in Nat /\ n \in Nat \ {0}
      /\ Filled(n) = Len(v) /\ n <= Len(v) /\ item.rightAligned \in BOOLEAN
  BY LenProperties, Fills DEF IsItem
<1>2. End(item, at) = at + Len(e) /\ Holds(s.data, at, e, Len(e))
  BY DEF End, Place, Carries
<1>3. CASE item.rightAligned
  <2>1. e = Left(v, n) /\ ReadItem(s, at, item) = ReadBits(s, at, n, TRUE)
    BY <1>3 DEF Encoding, ReadItem
  <2>2. Same(item, w) BY <1>1, <1>3 DEF Same, IsLast, Expected
  <2> HIDE DEF e, n, v, w
  <2>3. Filled(n) <= Len(v) BY <1>1
  <2>4. Len(e) = n BY <1>1, <2>1, <2>3, LeftBits
  <2>5. Holds(s.data, at, Left(v, n), n) BY <1>2, <2>1, <2>4
  <2>6. w = [k \in 1..Filled(n) |->
               IF k \in (8 * (n \div 8) + 1)..(8 * (n \div 8) + Padding(n))
               THEN 0 ELSE v[k]]
    BY DEF w
  <2>7. Returns(ReadBits(s, at, n, TRUE), s, at + n, w)
    BY <1>1, <2>3, <2>5, <2>6, BitsReturned
  <2>8. Returns(ReadItem(s, at, item), s, End(item, at), w) BY <1>2, <2>1, <2>4, <2>7
  <2> QED BY <2>2, <2>8, RightWhenReturned
<1>4. CASE ~item.rightAligned
  <2>1. e = SubSeq(v, 1, n) /\ ReadItem(s, at, item) = RawBits(s, at, n)
    <3>1. item.rightAligned = FALSE BY <1>1, <1>4
    <3> QED BY <3>1 DEF Encoding, ReadItem, RawBits
  <2>2. IsLast(item) BY <1>4 DEF IsLast
  <2>3. Len(e) = n /\ \A k \in 1..n : e[k] = v[k]
    <3>1. /\ Len(SubSeq(v, 1, n)) = n - 1 + 1
          /\ \A k \in 1..(n - 1 + 1) : SubSeq(v, 1, n)[k] = v[1 + k - 1]
      BY <1>1, Part
    <3>2. n - 1 + 1 = n /\ \A k \in 1..n : 1 + k - 1 = k BY <1>1
    <3> QED BY <2>1, <3>1, <3>2
  <2> DEFINE r == RawBits(s, at, n)
  <2> HIDE DEF e, n, v
  <2>4. Holds(s.data, at, e, n) BY <1>2, <2>3
  <2>5. /\ Returns(r, s, at + n, r.value)
        /\ at + n <= s.used => SameBits(r.value, e, n)
    BY <1>1, <2>4, RawReturned
  <2> HIDE DEF r
  <2>6. at + n <= s.used => Same(item, r.value)
    <3> SUFFICES ASSUME at + n <= s.used PROVE Same(item, r.value) OBVIOUS
    <3>1. SameBits(r.value, v, n) BY <2>3, <2>5 DEF SameBits
    <3> QED BY <2>2, <3>1 DEF Same, n, v
  <2>7. Returns(ReadItem(s, at, item), s, End(item, at), r.value)
    BY <1>2, <2>1, <2>3, <2>5 DEF r
  <2>8. End(item, at) <= s.used => Same(item, r.value) BY <1>2, <2>3, <2>6
  <2> QED BY <2>7, <2>8, RightWhenReturned
<1> QED BY <1>3, <1>4

\* The bits of another stream come back.
LEMMA StreamRead ==
    ASSUME NEW s \in Stream, s.used <= 8 * Room, NEW at \in Nat, at <= s.used,
           NEW item, IsItem(item), Carries(s.data, at, item), item.kind = "stream"
    PROVE  ReadsRight(s, at, item, ReadItem(s, at, item))
<1> DEFINE v == item.value
           n == Copied(item)
           e == Encoding(item)
           r == RawBits(s, at, n)
<1>1. v \in Seq({0, 1}) /\ Len(v) \in Nat BY LenProperties DEF IsItem
<1>2. n \in 1..Len(v) /\ n \in Nat \ {0} BY <1>1 DEF IsItem, Copied
<1>3. End(item, at) = at + Len(e) /\ Holds(s.data, at, e, Len(e))
  BY DEF End, Place, Carries
<1>4. e = SubSeq(v, 1, n) /\ ReadItem(s, at, item) = r
  BY DEF Encoding, ReadItem, RawBits
<1> HIDE DEF n, e, v
<1>5. Len(e) = n /\ \A k \in 1..n : e[k] = v[k]
  <2>1. /\ Len(SubSeq(v, 1, n)) = n - 1 + 1
        /\ \A k \in 1..(n - 1 + 1) : SubSeq(v, 1, n)[k] = v[1 + k - 1]
    BY <1>1, <1>2, Part
  <2>2. n - 1 + 1 = n /\ \A k \in 1..n : 1 + k - 1 = k BY <1>2
  <2> QED BY <1>4, <2>1, <2>2
<1>6. Holds(s.data, at, e, n) BY <1>3, <1>5
<1>7. /\ Returns(r, s, at + n, r.value)
      /\ at + n <= s.used => SameBits(r.value, e, n)
  BY <1>2, <1>6, RawReturned
<1> HIDE DEF r
<1>8. End(item, at) <= s.used => Same(item, r.value)
  <2> SUFFICES ASSUME at + n <= s.used PROVE Same(item, r.value) BY <1>3, <1>5
  <2>1. SameBits(r.value, v, n) BY <1>5, <1>7 DEF SameBits
  <2>2. SameBits(r.value, item.value, Copied(item)) BY <2>1 DEF n, v
  <2>3. ~IsLast(item) BY DEF IsLast
  <2> QED BY <2>2, <2>3 DEF Same
<1>9. Returns(ReadItem(s, at, item), s, End(item, at), r.value)
  BY <1>3, <1>4, <1>5, <1>7
<1> QED BY <1>8, <1>9, RightWhenReturned

\* A PlayerID comes back unless the stream ends within it.
LEMMA PlayerRead ==
    ASSUME NEW s \in Stream, s.used <= 8 * Room, NEW at \in Nat, at <= s.used,
           NEW item, IsItem(item), Carries(s.data, at, item), item.kind = "player"
    PROVE  ReadsRight(s, at, item, ReadItem(s, at, item))
<1> DEFINE v == item.value
           r == ReadItem(s, at, item)
<1>1. /\ v \in Seq({0, 1}) /\ Len(v) = 48 /\ Encoding(item) = v
      /\ r = ReadPlayer(s, at)
  BY DEF IsItem, Encoding, ReadItem
<1>2. End(item, at) = at + 48 /\ Holds(s.data, at, v, 48)
  BY <1>1 DEF End, Place, Carries
<1>3. Same(item, v) BY DEF Same, IsLast, Expected
<1>4. /\ r.ok \in BOOLEAN
      /\ at + 48 <= s.used => r.ok = TRUE /\ r.at = at + 48 /\ r.value = v
  <2> DEFINE q == ReadPlayer(s, at)
  <2>1. /\ q.ok \in BOOLEAN
        /\ at + 48 <= s.used => q.ok = TRUE /\ q.at = at + 48 /\ q.value = v
    <3> HIDE DEF v
    <3> QED BY <1>1, <1>2, ReadsPlayer
  <2> HIDE DEF r, q
  <2>2. r = q BY <1>1 DEF q
  <2> QED BY <2>1, <2>2
<1>5. s.used \in Nat BY DEF Stream
<1> HIDE DEF r, v
<1>6. ReadsRight(s, at, item, r) BY <1>2, <1>3, <1>4, <1>5 DEF ReadsRight
<1> QED BY <1>6 DEF r

\* Every kind of item is read as it was written.
LEMMA ReadsItem ==
    ASSUME NEW s \in Stream, s.used <= 8 * Room, NEW at \in Nat, at <= s.used,
           NEW item, IsItem(item), Carries(s.data, at, item)
    PROVE  ReadsRight(s, at, item, ReadItem(s, at, item))
<1> DEFINE v == item.value
           e == Encoding(item)
<1>1. v \in Seq({0, 1}) /\ Len(v) \in Nat /\ s.used \in Nat
  BY LenProperties DEF IsItem, Stream
<1>2. CASE item.kind = "bool"
  <2> DEFINE r == ReadBool(s, at)
  <2>1. Len(v) = 1 /\ e = v /\ ReadItem(s, at, item) = r
    BY <1>2 DEF IsItem, Encoding, ReadItem
  <2>2. v = <<v[1]>> /\ Same(item, v)
    BY <1>1, <1>2, <2>1, Single DEF Same, IsLast, Expected
  <2>3. End(item, at) = at + 1 /\ Holds(s.data, at, v, 1)
    BY <1>2, <2>1 DEF End, Place, Carries
  <2>4. s.data[at] = v[1]
    <3>1. at + 1 - 1 = at OBVIOUS
    <3> QED BY <2>3, <3>1 DEF Holds
  <2>5. /\ r.ok \in BOOLEAN /\ (r.ok <=> at < s.used)
        /\ r.ok => r.at = at + 1 /\ r.value = <<s.data[at]>>
    BY ReadsFlag
  <2>6. at < s.used <=> at + 1 <= s.used BY <1>1
  <2> HIDE DEF r, v
  <2>7. Returns(r, s, at + 1, v) BY <2>2, <2>4, <2>5, <2>6 DEF Returns
  <2>8. Returns(ReadItem(s, at, item), s, End(item, at), v) BY <2>1, <2>3, <2>7
  <2> QED BY <2>2, <2>8, RightWhenReturned
<1>3. CASE item.kind = "aligned"
  <2> DEFINE from == Filled(at)
  <2>1. /\ e = v /\ InBytes(v) /\ ReadItem(s, at, item) = ReadAlignedBytes(s, at, Len(v))
        /\ Holds(s.data, from, v, Len(v)) /\ End(item, at) = from + Len(v)
    BY <1>3 DEF IsItem, Encoding, ReadItem, Carries, Place, End
  <2>2. Len(v) # 0 /\ from \in Nat BY <1>1, <2>1, Fills DEF InBytes
  <2>3. ReadItem(s, at, item) = ReadValue(s, from, Len(v))
    BY <2>1, <2>2 DEF ReadAlignedBytes
  <2>4. Same(item, v) BY <1>3 DEF Same, IsLast, Expected
  <2> HIDE DEF from, v
  <2>5. Returns(ReadValue(s, from, Len(v)), s, from + Len(v), v)
    BY <1>1, <2>1, <2>2, ValueReturned
  <2>6. Returns(ReadItem(s, at, item), s, End(item, at), v) BY <2>1, <2>3, <2>5
  <2> QED BY <2>4, <2>6, RightWhenReturned
<1>4. CASE item.kind = "compressed"
  <2>1. /\ InBytes(v) /\ ReadItem(s, at, item) = ReadCompressed(s, at, Len(v))
        /\ Holds(s.data, at, Packed(v), Len(Packed(v)))
        /\ End(item, at) = at + Len(Packed(v))
    BY <1>4 DEF IsItem, Encoding, ReadItem, Carries, Place, End
  <2>2. Same(item, v) BY <1>4 DEF Same, IsLast, Expected
  <2> HIDE DEF v
  <2>3. Returns(ReadCompressed(s, at, Len(v)), s, at + Len(Packed(v)), v)
    BY <1>1, <2>1, PackedReturned
  <2>4. Returns(ReadItem(s, at, item), s, End(item, at), v) BY <2>1, <2>3
  <2> QED BY <2>2, <2>4, RightWhenReturned
<1>5. CASE item.kind = "delta"
  <2>1. Same(item, v) BY <1>5 DEF Same, IsLast, Expected
  <2>2. Returns(ReadItem(s, at, item), s, End(item, at), v) BY <1>5, DeltaRead
  <2> HIDE DEF v
  <2> QED BY <2>1, <2>2, RightWhenReturned
<1> QED BY <1>2, <1>3, <1>4, <1>5, BitsRead, StreamRead, PlayerRead DEF IsItem

-----------------------------------------------------------------------------
\* An item ends behind its place, which is not before the offset.
LEMMA EndsAfter ==
    ASSUME NEW item, IsItem(item), NEW at \in Nat
    PROVE  /\ Place(item, at) \in Nat /\ at <= Place(item, at)
           /\ End(item, at) \in Nat /\ Place(item, at) <= End(item, at)
           /\ End(item, at) = Place(item, at) + Len(Encoding(item))
<1>1. Place(item, at) \in Nat /\ at <= Place(item, at) BY Fills DEF Place
<1>2. Len(Encoding(item)) \in Nat BY Encodes
<1> QED BY <1>1, <1>2 DEF End

\* An item stays when more is written behind it.
LEMMA CarriesStill ==
    ASSUME NEW s \in Stream, NEW t, Continues(s, t), s.used <= 8 * Room,
           NEW item, IsItem(item), NEW at \in Nat, End(item, at) <= s.used,
           Carries(s.data, at, item)
    PROVE  Carries(t.data, at, item)
<1>1. /\ Place(item, at) \in Nat /\ Len(Encoding(item)) \in Nat
      /\ Place(item, at) + Len(Encoding(item)) <= s.used
  BY EndsAfter, Encodes
<1> QED BY <1>1, StillHolds DEF Carries

\* A write adds the item and keeps what is there.
LEMMA WritesItem ==
    ASSUME NEW s \in Stream, NEW item, IsItem(item), NEW t, t = WriteItem(s, item)
    PROVE  /\ Continues(s, t)
           /\ t.used = End(item, s.used)
           /\ Clean(s) /\ t.used <= 8 * Room => Carries(t.data, s.used, item)
           /\ Clean(s) /\ ~IsLast(item) => Clean(t)
<1> DEFINE f == From(s, item)
           e == Encoding(item)
<1>1. /\ Continues(s, f) /\ f.used = Place(item, s.used) /\ f.data = s.data
      /\ Clean(s) => Clean(f)
  BY Begins
<1>2. /\ Appended(f, t, e, Len(e))
      /\ ~IsLast(item) => Wrote(f, t, e, Len(e))
  BY WritesEncoding
<1> HIDE DEF f, e
<1>3. f \in Stream /\ Continues(f, t) BY <1>1, <1>2 DEF Continues, Appended
<1>4. Continues(s, t) BY <1>1, <1>3, ContinuesTwice
<1>5. t.used = End(item, s.used) BY <1>1, <1>2 DEF Appended, End, e
<1>6. Clean(s) /\ t.used <= 8 * Room => Carries(t.data, s.used, item)
  BY <1>1, <1>2 DEF Appended, Carries, e
<1>7. Clean(s) /\ ~IsLast(item) => Clean(t) BY <1>1, <1>2 DEF Wrote
<1> QED BY <1>4, <1>5, <1>6, <1>7

\* What is read lies inside, wherever the read began.
Inside(s, r) == r.ok => r.at <= s.used

\* ReadBits.
LEMMA BitsInside ==
    ASSUME NEW s, NEW at, NEW n, NEW right
    PROVE  Inside(s, ReadBits(s, at, n, right))
BY DEF Inside, ReadBits, HasBits, Fails

\* Read<T>.
LEMMA ValueInside ==
    ASSUME NEW s, NEW at, NEW n
    PROVE  Inside(s, ReadValue(s, at, n))
BY DEF Inside, ReadValue, ReadBits, HasBits, Fails

\* ReadCompressed.
LEMMA CompressedInside ==
    ASSUME NEW s, NEW at, NEW n
    PROVE  Inside(s, ReadCompressed(s, at, n))
<1> DEFINE size == n \div 8
           ones == LeadingOnes(s, at, size)
           flag == ReadBool(s, at + ones)
           left == IF ones < size - 1 \/ flag.value # <<1>>
                   THEN 8 * BytesAfter(size, ones) ELSE 4
           rest == ReadBits(s, flag.at, left, TRUE)
<1>1. ReadCompressed(s, at, n) =
        IF flag.ok /\ rest.ok THEN [rest EXCEPT !.value = @ \o Zeros(n - Len(@))]
        ELSE Fails(flag.at)
  BY DEF ReadCompressed
<1> HIDE DEF ones, left, flag
<1>2. rest.ok => rest.at <= s.used BY DEF ReadBits, HasBits, Fails
<1>3. rest = [ok |-> rest.ok, at |-> rest.at, value |-> rest.value]
  BY DEF ReadBits, Fails
<1> HIDE DEF rest
<1>4. CASE flag.ok /\ rest.ok
  <2>1. ReadCompressed(s, at, n)
          = [ok |-> rest.ok, at |-> rest.at,
             value |-> rest.value \o Zeros(n - Len(rest.value))]
    BY <1>1, <1>3, <1>4
  <2> QED BY <1>2, <2>1 DEF Inside
<1>5. CASE ~(flag.ok /\ rest.ok)
  <2>1. ReadCompressed(s, at, n) = Fails(flag.at) BY <1>1, <1>5
  <2> QED BY <2>1 DEF Fails, Inside
<1> QED BY <1>4, <1>5

\* Read(PlayerID&): its port is the last thing read.
LEMMA PlayerInside ==
    ASSUME NEW s, NEW at
    PROVE  Inside(s, ReadPlayer(s, at))
<1> DEFINE address == ReadValue(s, at, 32)
           port == ReadValue(s, address.at, 16)
           value == (IF address.ok THEN address.value ELSE Zeros(32)) \o port.value
<1>1. ReadPlayer(s, at) = [port EXCEPT !.value = value] BY DEF ReadPlayer
<1>2. Inside(s, port) BY ValueInside
<1>3. port = [ok |-> port.ok, at |-> port.at, value |-> port.value]
  BY DEF ReadValue, ReadBits, Fails
<1> HIDE DEF port, value
<1>4. ReadPlayer(s, at) = [ok |-> port.ok, at |-> port.at, value |-> value]
  BY <1>1, <1>3
<1> QED BY <1>2, <1>4 DEF Inside

\* ReadDelta and ReadCompressedDelta.
LEMMA DeltaInside ==
    ASSUME NEW s, NEW at, NEW item
    PROVE  Inside(s, ReadDelta(s, at, item)) /\ Inside(s, ReadCompressedDelta(s, at, item))
<1> DEFINE flag == ReadBool(s, at)
           kept == [flag EXCEPT !.value = item.last]
<1>1. flag.ok => flag.at <= s.used BY DEF ReadBool, HasBits, Fails
<1>2. flag = [ok |-> flag.ok, at |-> flag.at, value |-> flag.value]
  BY DEF ReadBool, Fails
<1>3. Inside(s, kept)
  <2> HIDE DEF flag
  <2>1. kept = [ok |-> flag.ok, at |-> flag.at, value |-> item.last] BY <1>2
  <2> HIDE DEF kept
  <2> QED BY <1>1, <2>1 DEF Inside
<1>4. Inside(s, ReadValue(s, flag.at, Len(item.value)))
      /\ Inside(s, ReadCompressed(s, flag.at, Len(item.value)))
  BY ValueInside, CompressedInside
<1>5. /\ ReadDelta(s, at, item) = IF Unchanged(flag) THEN kept
                                  ELSE ReadValue(s, flag.at, Len(item.value))
      /\ ReadCompressedDelta(s, at, item) = IF Unchanged(flag) THEN kept
                                  ELSE ReadCompressed(s, flag.at, Len(item.value))
  BY DEF ReadDelta, ReadCompressedDelta
<1> HIDE DEF flag, kept
<1> QED BY <1>3, <1>4, <1>5

\* All of them.
LEMMA ReadsInside ==
    ASSUME NEW s, NEW at, NEW item, IsItem(item)
    PROVE  Inside(s, ReadItem(s, at, item))
<1>1. CASE item.kind = "bool"
  BY <1>1 DEF ReadItem, ReadBool, HasBits, Fails, Inside
<1>2. CASE item.kind = "bits" BY <1>2, BitsInside DEF ReadItem
<1>3. CASE item.kind = "aligned"
  <2>1. ReadItem(s, at, item) = Fails(at)
        \/ ReadItem(s, at, item) = ReadValue(s, Filled(at), Len(item.value))
    BY <1>3 DEF ReadItem, ReadAlignedBytes
  <2>2. Inside(s, Fails(at)) BY DEF Fails, Inside
  <2> QED BY <2>1, <2>2, ValueInside
<1>4. CASE item.kind = "compressed" BY <1>4, CompressedInside DEF ReadItem
<1>5. CASE item.kind = "delta" BY <1>5, DeltaInside DEF ReadItem, IsItem
<1>6. CASE item.kind = "player" BY <1>6, PlayerInside DEF ReadItem
<1>7. CASE item.kind = "stream"
  <2>1. ReadItem(s, at, item) = RawBits(s, at, Copied(item))
    BY <1>7 DEF ReadItem, RawBits
  <2> QED BY <2>1 DEF RawBits, ReadBits, HasBits, Fails, Inside
<1> QED BY <1>1, <1>2, <1>3, <1>4, <1>5, <1>6, <1>7 DEF IsItem

-----------------------------------------------------------------------------
Where(i) == End(written[i], starts[i])

\* Every item is where the one before it ended, and the offset behind the last.
Placed ==
    /\ written \in Seq(Items) /\ starts \in Seq(Nat) /\ Len(starts) = Len(written)
    /\ written # <<>> => starts[1] = 0
    /\ \A i \in 2..Len(written) : starts[i] = Where(i - 1)
    /\ \A i, j \in 1..Len(written) : i < j => Where(i) <= starts[j]
    /\ ~cut => numberOfBitsUsed = IF written = <<>> THEN 0 ELSE Where(Len(written))

\* The memory holds all of them, whatever it held before.
Stored ==
    /\ stream \in Stream /\ numberOfBitsUsed <= 8 * Room
    /\ \A i \in 1..Len(written) : Carries(data, starts[i], written[i])
    /\ ~sent /\ (written = <<>> \/ ~IsLast(written[Len(written)])) => Clean(stream)

\* The reader is where the next item begins, unless it came out of a torn one.
AllRead == \A i \in 1..Len(returned) : returned[i].ok
Intact == \A i \in 1..Len(returned) : returned[i].ok /\ ~Torn(i)

Followed ==
    /\ returned \in Seq({returned[i] : i \in 1..Len(returned)})
    /\ sent \in BOOLEAN /\ cut \in BOOLEAN
    /\ ~sent => ~cut /\ returned = <<>> /\ readOffset = 0
    /\ Len(returned) <= Len(written)
    /\ Intact => readOffset = IF returned = <<>> THEN 0 ELSE Where(Len(returned))
    /\ sent /\ ~cut => AllRead

CodecInv == Placed /\ Stored /\ Followed /\ ReadsBack /\ ReadsStayInside

\* The items are typed, in their order, and end before the write offset.
LEMMA PlacedFacts ==
    ASSUME Placed
    PROVE  /\ Len(written) \in Nat /\ Len(starts) = Len(written)
           /\ written = <<>> <=> Len(written) = 0
           /\ \A i \in 1..Len(written) :
                 /\ written[i] \in Items /\ IsItem(written[i]) /\ starts[i] \in Nat
                 /\ Where(i) \in Nat /\ starts[i] <= Where(i)
           /\ numberOfBitsUsed \in Nat /\ ~cut =>
                 \A i \in 1..Len(written) : Where(i) <= numberOfBitsUsed
<1> DEFINE n == Len(written)
<1>1. /\ written \in Seq(Items) /\ starts \in Seq(Nat) /\ Len(starts) = n
      /\ \A i, j \in 1..n : i < j => Where(i) <= starts[j]
      /\ ~cut => numberOfBitsUsed = IF written = <<>> THEN 0 ELSE Where(n)
  BY DEF Placed
<1>2. n \in Nat /\ (written = <<>> <=> n = 0) BY <1>1, EmptySeq, LenProperties
<1> HIDE DEF n
<1>3. ASSUME NEW i \in 1..n
      PROVE  /\ written[i] \in Items /\ IsItem(written[i]) /\ starts[i] \in Nat
             /\ Where(i) \in Nat /\ starts[i] <= Where(i)
  <2>1. written[i] \in Items BY <1>1, ElementOfSeq DEF n
  <2>2. starts[i] \in Nat BY <1>1, ElementOfSeq
  <2>3. IsItem(written[i]) BY <2>1, CodecAssumption
  <2>4. Where(i) \in Nat /\ starts[i] <= Where(i)
    <3> DEFINE item == written[i]
               at == starts[i]
    <3> HIDE DEF item, at
    <3>1. IsItem(item) /\ at \in Nat BY <2>2, <2>3 DEF item, at
    <3>2. /\ Place(item, at) \in Nat /\ at <= Place(item, at)
          /\ End(item, at) \in Nat /\ Place(item, at) <= End(item, at)
      BY <3>1, EndsAfter
    <3>3. End(item, at) \in Nat /\ at <= End(item, at) BY <3>1, <3>2
    <3> QED BY <3>3 DEF Where, item, at
  <2> QED BY <2>1, <2>2, <2>3, <2>4
<1>4. ASSUME ~cut, numberOfBitsUsed \in Nat, NEW i \in 1..n
      PROVE  Where(i) <= numberOfBitsUsed
  <2>1. numberOfBitsUsed = Where(n) /\ n \in 1..n BY <1>1, <1>2, <1>4
  <2>2. CASE i = n BY <1>3, <2>1, <2>2
  <2>3. CASE i < n
    <3>1. Where(i) <= starts[n] BY <1>1, <2>1, <2>3
    <3> QED BY <1>3, <2>1, <3>1
  <2> QED BY <1>2, <2>2, <2>3
<1> QED BY <1>1, <1>2, <1>3, <1>4 DEF n

\* The memory may hold anything at first.
LEMMA CodecInvInit ==
    ASSUME CodecInit
    PROVE  CodecInv
<1>1. /\ written = <<>> /\ starts = <<>> /\ returned = <<>> /\ Len(written) = 0
      /\ numberOfBitsUsed = 0 /\ readOffset = 0 /\ ~sent /\ ~cut
      /\ sent \in BOOLEAN /\ cut \in BOOLEAN
  BY DEF CodecInit
<1>2. data \in Memory /\ Room \in Nat BY CodecAssumption, RoomAssumption DEF CodecInit, Memory
<1>3. Placed
  <2>1. <<>> \in Seq(Items) /\ <<>> \in Seq(Nat) /\ Len(<<>>) = 0 BY EmptySeq
  <2> QED BY <1>1, <2>1 DEF Placed
<1>4. Stored
  <2>1. stream \in Stream /\ stream.used = 0 /\ stream.data = data
    BY <1>1, <1>2 DEF stream, Stream
  <2>2. Clean(stream)
    <3>1. Filled(0) = 0 BY DEF Filled, BITS_TO_BYTES
    <3>2. \A i \in DOMAIN data : i \in Int BY <1>2 DEF Memory
    <3>3. \A i \in DOMAIN data : ~(0 <= i /\ i < Filled(0)) BY <3>1, <3>2
    <3> QED BY <2>1, <3>3 DEF Clean
  <2>3. numberOfBitsUsed <= 8 * Room BY <1>1, <1>2
  <2> QED BY <1>1, <2>1, <2>2, <2>3 DEF Stored
<1>5. Followed
  <2>1. <<>> \in Seq({returned[i] : i \in 1..Len(returned)}) BY EmptySeq
  <2> QED BY <1>1, <2>1 DEF Followed, AllRead
<1>6. ReadsBack /\ ReadsStayInside BY <1>1 DEF ReadsBack, ReadsStayInside
<1> QED BY <1>3, <1>4, <1>5, <1>6 DEF CodecInv

\* A write appends its item; the ones before it stay.
LEMMA WriteKeeps ==
    ASSUME CodecInv, NEW item \in Items, Write(item)
    PROVE  CodecInv'
<1> DEFINE n == Len(written)
           t == WriteItem(stream, item)
           used0 == numberOfBitsUsed
<1>1. Placed /\ Stored /\ Followed BY DEF CodecInv
<1>2. /\ n \in Nat /\ Len(starts) = n /\ (written = <<>> <=> n = 0)
      /\ \A i \in 1..n : /\ IsItem(written[i]) /\ starts[i] \in Nat
                         /\ Where(i) \in Nat /\ starts[i] <= Where(i)
      /\ numberOfBitsUsed \in Nat /\ ~cut => \A i \in 1..n : Where(i) <= numberOfBitsUsed
  BY <1>1, PlacedFacts
<1>3. /\ stream \in Stream /\ stream.used = numberOfBitsUsed /\ stream.data = data
      /\ numberOfBitsUsed \in Nat /\ numberOfBitsUsed <= 8 * Room
  BY <1>1 DEF Stored, stream, Stream
<1>4. IsItem(item) BY CodecAssumption
<1>5. /\ ~sent /\ ~cut /\ returned = <<>> /\ readOffset = 0
      /\ ~sent' /\ ~cut' /\ returned' = <<>> /\ readOffset' = 0
      /\ sent' = sent /\ cut' = cut
      /\ written # <<>> => ~IsLast(written[n])
      /\ t.used <= 8 * Room /\ data' = t.data /\ numberOfBitsUsed' = t.used
      /\ written' = Append(written, item) /\ starts' = Append(starts, numberOfBitsUsed)
  BY <1>1 DEF Write, Followed
<1>6. Clean(stream) BY <1>1, <1>5 DEF Stored
<1> HIDE DEF n, t
<1>7. /\ Continues(stream, t)
      /\ t.used = End(item, numberOfBitsUsed)
      /\ t.used <= 8 * Room => Carries(t.data, numberOfBitsUsed, item)
      /\ ~IsLast(item) => Clean(t)
  BY <1>3, <1>4, <1>6, WritesItem DEF t
<1>8. t = [data |-> t.data, used |-> t.used] /\ t \in Stream
  BY <1>7 DEF Continues, Stream
<1>9. stream' = t BY <1>5, <1>8 DEF stream
<1>10. /\ written' \in Seq(Items) /\ Len(written') = n + 1 /\ written' # <<>>
       /\ \A i \in 1..n : written'[i] = written[i]
       /\ written'[n + 1] = item
  BY <1>1, <1>5, AppendProperties DEF Placed, n
<1>11. /\ starts' \in Seq(Nat) /\ Len(starts') = n + 1
       /\ \A i \in 1..n : starts'[i] = starts[i]
       /\ starts'[n + 1] = numberOfBitsUsed
  BY <1>1, <1>2, <1>3, <1>5, AppendProperties DEF Placed
<1>12. /\ \A i \in 1..n : Where(i)' = Where(i)
       /\ \A i : i = n + 1 => Where(i)' = numberOfBitsUsed'
  BY <1>5, <1>7, <1>10, <1>11 DEF Where
<1>13. Placed'
  <2>1. starts'[1] = 0
    <3>1. CASE n = 0 BY <1>1, <1>2, <1>5, <1>11, <3>1 DEF Placed
    <3>2. CASE n # 0 BY <1>1, <1>2, <1>11, <3>2 DEF Placed
    <3> QED BY <3>1, <3>2
  <2>2. ASSUME NEW i \in 2..(n + 1) PROVE starts'[i] = Where(i - 1)'
    <3>1. i - 1 \in 1..n BY <1>2
    <3>2. CASE i = n + 1
      <4>1. numberOfBitsUsed = Where(n) BY <1>1, <1>2, <1>5, <3>1 DEF Placed, n
      <4>2. i - 1 = n /\ n \in 1..n BY <1>2, <3>1, <3>2
      <4> QED BY <1>11, <1>12, <3>1, <3>2, <4>1, <4>2
    <3>3. CASE i # n + 1
      <4>1. i \in 2..n /\ i \in 1..n BY <1>2, <3>3
      <4> QED BY <1>1, <1>11, <1>12, <3>1, <4>1 DEF Placed, n
    <3> QED BY <3>2, <3>3
  <2>3. ASSUME NEW i \in 1..(n + 1), NEW j \in 1..(n + 1), i < j
        PROVE  Where(i)' <= starts'[j]
    <3>1. i \in 1..n BY <1>2, <2>3
    <3>2. CASE j = n + 1 BY <1>2, <1>3, <1>5, <1>11, <1>12, <3>1, <3>2
    <3>3. CASE j # n + 1
      <4>1. j \in 1..n BY <1>2, <3>3
      <4> QED BY <1>1, <1>11, <1>12, <2>3, <3>1, <4>1 DEF Placed, n
    <3> QED BY <3>2, <3>3
  <2>4. numberOfBitsUsed' = Where(Len(written))' BY <1>10, <1>12
  <2> QED BY <1>5, <1>10, <1>11, <2>1, <2>2, <2>3, <2>4 DEF Placed
<1>14. Stored'
  <2>1. ASSUME NEW i \in 1..(n + 1)
        PROVE  Carries(data', starts'[i], written'[i])
    <3>1. CASE i = n + 1 BY <1>5, <1>7, <1>10, <1>11, <3>1
    <3>2. CASE i # n + 1
      <4>1. i \in 1..n BY <1>2, <3>2
      <4>2. Carries(data, starts[i], written[i]) BY <1>1, <4>1 DEF Stored, n
      <4>3. End(written[i], starts[i]) <= numberOfBitsUsed
        BY <1>2, <1>3, <1>5, <4>1 DEF Where
      <4>4. Carries(t.data, starts[i], written[i])
        BY <1>2, <1>3, <1>7, <4>1, <4>2, <4>3, CarriesStill
      <4> QED BY <1>5, <1>10, <1>11, <4>1, <4>4
    <3> QED BY <3>1, <3>2
  <2>2. ~IsLast(written'[Len(written')]) => Clean(stream') BY <1>7, <1>9, <1>10
  <2> QED BY <1>5, <1>8, <1>9, <1>10, <2>1, <2>2 DEF Stored, Clean
<1>15. Followed'
  <2>1. <<>> \in Seq({returned'[i] : i \in 1..Len(returned')}) /\ Len(<<>>) = 0
    BY EmptySeq
  <2>2. Len(returned') <= Len(written') BY <1>2, <1>5, <1>10, <2>1
  <2> QED BY <1>1, <1>5, <2>1, <2>2 DEF Followed
<1>16. ReadsBack' /\ ReadsStayInside'
  <2>1. numberOfBitsUsed' \in Nat /\ Len(returned') = 0 BY <1>5, <1>8 DEF Stream
  <2> QED BY <1>5, <2>1 DEF ReadsBack, ReadsStayInside
<1> QED BY <1>13, <1>14, <1>15, <1>16 DEF CodecInv

\* Taking the offset back to a byte boundary keeps what is before it.
LEMMA RewindKeeps ==
    ASSUME CodecInv, NEW k \in 1..Len(starts), Rewind(k)
    PROVE  CodecInv'
<1> DEFINE n == Len(written)
           m == k - 1
<1>1. Placed /\ Stored /\ Followed BY DEF CodecInv
<1>2. /\ n \in Nat /\ Len(starts) = n /\ (written = <<>> <=> n = 0)
      /\ \A i \in 1..n : /\ IsItem(written[i]) /\ starts[i] \in Nat
                         /\ Where(i) \in Nat /\ starts[i] <= Where(i)
      /\ numberOfBitsUsed \in Nat /\ ~cut => \A i \in 1..n : Where(i) <= numberOfBitsUsed
  BY <1>1, PlacedFacts
<1>3. /\ stream \in Stream /\ data \in Memory
      /\ numberOfBitsUsed \in Nat /\ numberOfBitsUsed <= 8 * Room /\ Room \in Nat
  BY <1>1, CodecAssumption, RoomAssumption DEF Stored, stream, Stream
<1>4. /\ ~sent /\ ~cut /\ returned = <<>> /\ readOffset = 0
      /\ ~sent' /\ ~cut' /\ returned' = <<>> /\ readOffset' = 0
      /\ sent' = sent /\ cut' = cut /\ data' = data
      /\ starts[k] % 8 = 0 /\ numberOfBitsUsed' = starts[k]
      /\ written' = SubSeq(written, 1, m) /\ starts' = SubSeq(starts, 1, m)
  BY <1>1 DEF Rewind, Followed
<1>5. k \in 1..n /\ m \in 0..(n - 1) /\ k = m + 1 BY <1>2
<1>6. /\ written' \in Seq(Items) /\ Len(written') = m
      /\ \A i \in 1..m : written'[i] = written[i]
  <2>1. \A i \in 1..m : written[i] \in Items BY <1>1, <1>5, ElementOfSeq DEF Placed
  <2>2. m \in Int BY <1>5
  <2> HIDE DEF m
  <2>3. /\ SubSeq(written, 1, m) \in Seq(Items)
        /\ Len(SubSeq(written, 1, m)) = IF 1 <= m THEN m - 1 + 1 ELSE 0
        /\ \A i \in 1..(m - 1 + 1) : SubSeq(written, 1, m)[i] = written[1 + i - 1]
    BY <2>1, <2>2, SubSeqProperties
  <2>4. m - 1 + 1 = m /\ \A i \in 1..m : 1 + i - 1 = i BY <2>2
  <2> QED BY <1>4, <1>5, <2>3, <2>4
<1>7. /\ starts' \in Seq(Nat) /\ Len(starts') = m
      /\ \A i \in 1..m : starts'[i] = starts[i]
  <2>1. \A i \in 1..m : starts[i] \in Nat BY <1>2, <1>5
  <2>2. m \in Int BY <1>5
  <2> HIDE DEF m
  <2>3. /\ SubSeq(starts, 1, m) \in Seq(Nat)
        /\ Len(SubSeq(starts, 1, m)) = IF 1 <= m THEN m - 1 + 1 ELSE 0
        /\ \A i \in 1..(m - 1 + 1) : SubSeq(starts, 1, m)[i] = starts[1 + i - 1]
    BY <2>1, <2>2, SubSeqProperties
  <2>4. m - 1 + 1 = m /\ \A i \in 1..m : 1 + i - 1 = i BY <2>2
  <2> QED BY <1>4, <1>5, <2>3, <2>4
<1>8. \A i \in 1..m : Where(i)' = Where(i) BY <1>6, <1>7 DEF Where
<1>9. written' = <<>> <=> m = 0 BY <1>6, EmptySeq
<1> HIDE DEF m, n
<1>10. \A i \in 1..m : i \in 1..n BY <1>2, <1>5
<1>11. Placed'
  <2>1. written' # <<>> => starts'[1] = 0
    BY <1>1, <1>2, <1>5, <1>7, <1>9 DEF Placed
  <2>2. \A i \in 2..m : starts'[i] = Where(i - 1)'
    <3>1. ASSUME NEW i \in 2..m PROVE starts'[i] = Where(i - 1)'
      <4>1. i - 1 \in 1..m /\ i \in 1..m /\ i \in 2..n BY <1>2, <1>5
      <4>2. starts[i] = Where(i - 1) BY <1>1, <4>1 DEF Placed, n
      <4> QED BY <1>7, <1>8, <4>1, <4>2
    <3> QED BY <3>1
  <2>3. \A i, j \in 1..m : i < j => Where(i)' <= starts'[j]
    BY <1>1, <1>7, <1>8, <1>10 DEF Placed, n
  <2>4. numberOfBitsUsed' = IF written' = <<>> THEN 0 ELSE Where(Len(written))'
    <3>1. CASE m = 0
      <4>1. starts[1] = 0 BY <1>1, <1>2, <1>5, <3>1 DEF Placed
      <4> QED BY <1>4, <1>5, <1>9, <3>1, <4>1
    <3>2. CASE m # 0
      <4>1. k \in 2..n /\ k - 1 = m /\ m \in 1..m BY <1>2, <1>5, <3>2
      <4>2. starts[k] = Where(m) BY <1>1, <4>1 DEF Placed, n
      <4>3. Where(Len(written))' = Where(m)
        <5>1. \A i : i = m => Where(i)' = Where(m) BY <1>8, <4>1
        <5> QED BY <1>6, <5>1
      <4> QED BY <1>4, <1>9, <3>2, <4>2, <4>3
    <3> QED BY <3>1, <3>2
  <2> QED BY <1>4, <1>6, <1>7, <2>1, <2>2, <2>3, <2>4 DEF Placed
<1>12. starts[k] \in Nat /\ starts[k] <= 8 * Room
  <2>1. starts[k] \in Nat /\ starts[k] <= Where(k) /\ Where(k) \in Nat BY <1>2, <1>5
  <2>2. Where(k) <= numberOfBitsUsed BY <1>2, <1>3, <1>4, <1>5
  <2> QED BY <1>3, <2>1, <2>2
<1>13. Stored'
  <2>1. stream' = [data |-> data, used |-> starts[k]] BY <1>4 DEF stream
  <2>2. stream' \in Stream BY <1>3, <1>12, <2>1 DEF Stream
  <2>3. Clean(stream')
    <3>1. Filled(starts[k]) = starts[k] BY <1>4, <1>12, Fills
    <3>2. \A i \in DOMAIN data : i \in Int BY <1>3 DEF Memory
    <3>3. \A i \in DOMAIN data : ~(starts[k] <= i /\ i < Filled(starts[k]))
      BY <1>12, <3>1, <3>2
    <3> QED BY <2>1, <3>3 DEF Clean
  <2>4. \A i \in 1..m : Carries(data', starts'[i], written'[i])
    <3>1. \A i \in 1..n : Carries(data, starts[i], written[i]) BY <1>1 DEF Stored, n
    <3> QED BY <1>4, <1>6, <1>7, <1>10, <3>1
  <2> QED BY <1>4, <1>6, <1>12, <2>2, <2>3, <2>4 DEF Stored, Clean
<1>14. Followed'
  <2>1. <<>> \in Seq({returned'[i] : i \in 1..Len(returned')}) /\ Len(<<>>) = 0
    BY EmptySeq
  <2>2. Len(returned') <= Len(written') BY <1>4, <1>5, <1>6, <2>1
  <2> QED BY <1>1, <1>4, <2>1, <2>2 DEF Followed
<1>15. ReadsBack' /\ ReadsStayInside' BY <1>4, <1>12 DEF ReadsBack, ReadsStayInside
<1> QED BY <1>11, <1>13, <1>14, <1>15 DEF CodecInv

\* Sending, whole or in part, moves no item.
LEMMA SendKeeps ==
    ASSUME CodecInv, Send \/ \E bytes \in 0..Room : SendPart(bytes)
    PROVE  CodecInv'
<1>1. Placed /\ Stored /\ Followed BY DEF CodecInv
<1>2. /\ stream \in Stream /\ data \in Memory /\ Room \in Nat
      /\ numberOfBitsUsed \in Nat /\ numberOfBitsUsed <= 8 * Room
  BY <1>1, CodecAssumption, RoomAssumption DEF Stored, stream, Stream
<1>3. /\ ~sent /\ ~cut /\ returned = <<>> /\ readOffset = 0
      /\ sent' = TRUE /\ cut' \in BOOLEAN /\ returned' = <<>> /\ readOffset' = 0
      /\ UNCHANGED <<data, written, starts>>
      /\ ~cut' => numberOfBitsUsed' = numberOfBitsUsed
  BY <1>1 DEF Send, SendPart, memory, Followed
<1>4. numberOfBitsUsed' \in Nat /\ numberOfBitsUsed' <= 8 * Room
  <2>1. CASE Send BY <1>2, <2>1 DEF Send, memory
  <2>2. CASE \E bytes \in 0..Room : SendPart(bytes)
    <3>1. PICK bytes \in 0..Room : SendPart(bytes) BY <2>2
    <3>2. numberOfBitsUsed' = 8 * bytes BY <3>1 DEF SendPart
    <3> QED BY <1>2, <3>2
  <2> QED BY <2>1, <2>2
<1>5. \A i : Where(i)' = Where(i) BY <1>3 DEF Where
<1>6. Placed'
  <2>1. ~cut' => numberOfBitsUsed' = IF written' = <<>> THEN 0 ELSE Where(Len(written))'
    BY <1>1, <1>3, <1>5 DEF Placed
  <2> QED BY <1>1, <1>3, <1>5, <2>1 DEF Placed
<1>7. Stored'
  <2>1. stream' = [data |-> data, used |-> numberOfBitsUsed'] BY <1>3 DEF stream
  <2>2. stream' \in Stream BY <1>2, <1>4, <2>1 DEF Stream
  <2> QED BY <1>1, <1>3, <1>4, <2>2 DEF Stored
<1>8. Len(<<>>) = 0 /\ Len(written) \in Nat BY <1>1, PlacedFacts, EmptySeq
<1>9. Followed'
  <2>1. <<>> \in Seq({returned'[i] : i \in 1..Len(returned')}) BY EmptySeq
  <2> QED BY <1>1, <1>3, <1>8, <2>1 DEF Followed, AllRead
<1>10. ReadsBack' /\ ReadsStayInside'
  BY <1>3, <1>4, <1>8 DEF ReadsBack, ReadsStayInside
<1> QED BY <1>6, <1>7, <1>9, <1>10 DEF CodecInv

\* A read returns the next item if the reader is where it begins.
LEMMA ReadKeeps ==
    ASSUME CodecInv, Read
    PROVE  CodecInv'
<1> DEFINE n == Len(written)
           m == Len(returned)
           k == m + 1
           r == ReadItem(stream, readOffset, written[k])
           R == {returned[i] : i \in 1..m}
           elt == [ok |-> r.ok, value |-> r.value]
<1>1. Placed /\ Stored /\ Followed /\ ReadsBack /\ ReadsStayInside BY DEF CodecInv
<1>2. /\ n \in Nat /\ Len(starts) = n /\ (written = <<>> <=> n = 0)
      /\ \A i \in 1..n : /\ IsItem(written[i]) /\ starts[i] \in Nat
                         /\ Where(i) \in Nat /\ starts[i] <= Where(i)
      /\ numberOfBitsUsed \in Nat /\ ~cut => \A i \in 1..n : Where(i) <= numberOfBitsUsed
  BY <1>1, PlacedFacts
<1>3. /\ stream \in Stream /\ stream.used = numberOfBitsUsed /\ stream.data = data
      /\ numberOfBitsUsed \in Nat /\ numberOfBitsUsed <= 8 * Room
  BY <1>1 DEF Stored, stream, Stream
<1>4. /\ sent /\ m < n /\ AllRead
      /\ returned' = Append(returned, elt) /\ readOffset' = r.at
      /\ UNCHANGED <<memory, written, starts, sent, cut, data, numberOfBitsUsed>>
  BY DEF Read, AllRead, memory
<1>5. returned \in Seq(R) BY <1>1 DEF Followed
<1>6. m \in Nat /\ (returned = <<>> <=> m = 0) BY <1>5, EmptySeq, LenProperties
<1>7. k \in 1..n BY <1>2, <1>4, <1>6
<1> HIDE DEF R, elt, r
<1>8. /\ Len(returned') = k /\ returned' # <<>> /\ returned'[k] = elt
      /\ \A i \in 1..m : returned'[i] = returned[i]
      /\ returned' \in Seq(R \cup {elt})
  <2>1. returned \in Seq(R \cup {elt})
    <3>1. returned \in [1..m -> R] BY <1>5, LenProperties
    <3>2. returned \in [1..m -> R \cup {elt}] BY <3>1
    <3> QED BY <1>6, <3>2, SeqDef
  <2>2. elt \in R \cup {elt} OBVIOUS
  <2> QED BY <1>4, <2>1, <2>2, AppendProperties
<1>9. elt.ok = r.ok /\ elt.value = r.value BY DEF elt
<1>10. \A i \in 1..k : i \in 1..m \/ i = k BY <1>6
<1>11. \A i : Torn(i)' = Torn(i) BY <1>4 DEF Torn
<1>12. \A i : Where(i)' = Where(i) BY <1>4 DEF Where
<1>13. \A i \in 1..m : i \in 1..k BY <1>6
<1>14. Inside(stream, r) BY <1>2, <1>7, ReadsInside DEF r
<1>15. ASSUME Intact
       PROVE  readOffset = starts[k] /\ readOffset <= numberOfBitsUsed
              /\ ReadsRight(stream, starts[k], written[k], r)
  <2>1. readOffset = starts[k]
    <3>1. CASE m = 0
      <4>1. readOffset = 0 /\ k = 1 BY <1>1, <1>6, <1>15, <3>1 DEF Followed
      <4>2. starts[1] = 0 BY <1>1, <1>2, <1>7 DEF Placed
      <4> QED BY <4>1, <4>2
    <3>2. CASE m # 0
      <4>1. readOffset = Where(m) BY <1>1, <1>6, <1>15, <3>2 DEF Followed
      <4>2. k \in 2..n /\ k - 1 = m BY <1>2, <1>6, <1>7, <3>2
      <4>3. starts[k] = Where(k - 1) BY <1>1, <4>2 DEF Placed
      <4> QED BY <4>1, <4>2, <4>3
    <3> QED BY <3>1, <3>2
  <2>2. readOffset <= numberOfBitsUsed
    BY <1>1, <1>4 DEF ReadsStayInside, AllRead
  <2> DEFINE at == starts[k]
             item == written[k]
  <2>3. at \in Nat /\ IsItem(item) BY <1>2, <1>7
  <2>4. Carries(data, at, item) BY <1>1, <1>7 DEF Stored
  <2>5. r = ReadItem(stream, at, item) BY <2>1 DEF r
  <2> HIDE DEF at, item
  <2>6. at <= stream.used BY <1>3, <2>1, <2>2 DEF at
  <2>7. ReadsRight(stream, at, item, ReadItem(stream, at, item))
    BY <1>3, <2>3, <2>4, <2>6, ReadsItem
  <2>8. ReadsRight(stream, at, item, r) BY <2>5, <2>7
  <2> QED BY <2>1, <2>2, <2>8 DEF at, item
<1>16. Torn(k) <=> written[k].kind = "player" /\ starts[k] + 48 > stream.used
  BY <1>3 DEF Torn
<1>17. End(written[k], starts[k]) = Where(k) BY DEF Where
<1>18. ASSUME Intact, ~Torn(k), r.ok
       PROVE  r.at = Where(k) /\ Same(written[k], r.value)
  BY <1>15, <1>16, <1>17, <1>18 DEF ReadsRight
<1>19. ASSUME ~cut PROVE Intact /\ r.ok
  <2>1. ASSUME NEW i \in 1..n PROVE ~Torn(i)
    <3>1. Where(i) <= numberOfBitsUsed BY <1>2, <1>3, <1>19
    <3>2. written[i].kind = "player" => Where(i) = starts[i] + 48
      <4> SUFFICES ASSUME written[i].kind = "player" PROVE Where(i) = starts[i] + 48
        OBVIOUS
      <4>1. Len(written[i].value) = 48 BY <1>2 DEF IsItem
      <4> QED BY <4>1 DEF Where, End, Place, Encoding
    <3>3. starts[i] \in Nat BY <1>2
    <3> QED BY <1>3, <3>1, <3>2, <3>3 DEF Torn
  <2>2. \A i \in 1..m : i \in 1..n BY <1>2, <1>4, <1>6
  <2>3. Intact BY <1>4, <2>1, <2>2 DEF Intact, AllRead
  <2>4. Where(k) <= stream.used BY <1>2, <1>3, <1>7, <1>19
  <2> QED BY <1>15, <1>17, <2>3, <2>4 DEF ReadsRight
<1> HIDE DEF n, m, k
<1>20. Intact' => Intact /\ r.ok /\ ~Torn(k)
  <2> SUFFICES ASSUME Intact' PROVE Intact /\ r.ok /\ ~Torn(k) OBVIOUS
  <2>1. \A i \in 1..k : returned'[i].ok /\ ~Torn(i) BY <1>8, <1>11 DEF Intact
  <2>2. k \in 1..k BY <1>7
  <2>3. r.ok /\ ~Torn(k) BY <1>8, <1>9, <2>1, <2>2
  <2>4. \A i \in 1..m : returned[i].ok /\ ~Torn(i) BY <1>8, <1>13, <2>1
  <2> QED BY <2>3, <2>4 DEF Intact, m
<1>21. Placed'
  BY <1>1, <1>4, <1>12 DEF Placed
<1>22. Stored'
  <2>1. stream' = stream BY <1>4 DEF stream
  <2> QED BY <1>1, <1>4, <2>1 DEF Stored
<1>23. Followed'
  <2>1. returned' \in Seq({returned'[i] : i \in 1..Len(returned')})
    <3> DEFINE S == {returned'[i] : i \in 1..k}
    <3>1. returned' \in [1..k -> R \cup {elt}] BY <1>8, LenProperties
    <3>2. returned' \in [1..k -> S] BY <3>1
    <3>3. k \in Nat BY <1>7
    <3> HIDE DEF S
    <3>4. returned' \in Seq(S) BY <3>2, <3>3, SeqDef
    <3> QED BY <1>8, <3>4 DEF S
  <2>2. Len(returned') <= Len(written') BY <1>4, <1>7, <1>8 DEF n
  <2>3. Intact' => readOffset' = Where(Len(returned))'
    <3>1. \A i : i = k => Where(i)' = Where(k) BY <1>12
    <3> QED BY <1>4, <1>8, <1>18, <1>20, <3>1
  <2>4. sent' /\ ~cut' => AllRead'
    <3> SUFFICES ASSUME ~cut PROVE AllRead' BY <1>4
    <3>1. \A i \in 1..m : returned'[i].ok BY <1>4, <1>8 DEF AllRead, m
    <3>2. returned'[k].ok BY <1>8, <1>9, <1>19
    <3> QED BY <1>8, <1>10, <3>1, <3>2 DEF AllRead
  <2> QED BY <1>1, <1>4, <1>8, <2>1, <2>2, <2>3, <2>4 DEF Followed
<1>24. ReadsBack'
  <2> SUFFICES ASSUME NEW i \in 1..k, returned'[i].ok, \A j \in 1..i : ~Torn(j)
               PROVE  Same(written[i], returned'[i].value)
    BY <1>4, <1>8, <1>11 DEF ReadsBack
  <2>1. CASE i \in 1..m BY <1>1, <1>8, <2>1 DEF ReadsBack, m
  <2>2. CASE i = k
    <3>1. \A j \in 1..m : j \in 1..k BY <1>13
    <3>2. Intact BY <1>4, <2>2, <3>1 DEF Intact, AllRead, m
    <3>3. ~Torn(k) /\ r.ok
      <4>1. k \in 1..k BY <1>7
      <4> QED BY <1>8, <1>9, <2>2, <4>1
    <3> QED BY <1>8, <1>9, <1>18, <2>2, <3>2, <3>3
  <2> QED BY <1>10, <2>1, <2>2
<1>25. ReadsStayInside'
  <2> SUFFICES ASSUME \A i \in 1..k : returned'[i].ok
               PROVE  readOffset' <= numberOfBitsUsed
    BY <1>4, <1>8 DEF ReadsStayInside
  <2>1. k \in 1..k BY <1>7
  <2>2. r.ok BY <1>8, <1>9, <2>1
  <2> QED BY <1>3, <1>4, <1>14, <2>2 DEF Inside
<1> QED BY <1>21, <1>22, <1>23, <1>24, <1>25 DEF CodecInv

\* A step of none of its variables.
LEMMA CodecInvStutters ==
    ASSUME CodecInv, UNCHANGED codecVars
    PROVE  CodecInv'
<1>1. UNCHANGED <<data, numberOfBitsUsed, readOffset, written, starts, sent, cut, returned>>
  BY DEF codecVars, memory
<1>2. \A i : (Where(i)' = Where(i)) /\ (Torn(i)' = Torn(i)) BY <1>1 DEF Where, Torn
<1>3. stream' = stream BY <1>1 DEF stream
<1>4. Placed' BY <1>1, <1>2 DEF CodecInv, Placed
<1>5. Stored' BY <1>1, <1>3 DEF CodecInv, Stored
<1>6. Intact' => Intact BY <1>1, <1>2 DEF Intact
<1>7. Followed' BY <1>1, <1>2, <1>6 DEF CodecInv, Followed, AllRead
<1>8. ReadsBack' /\ ReadsStayInside'
  BY <1>1, <1>2 DEF CodecInv, ReadsBack, ReadsStayInside
<1> QED BY <1>4, <1>5, <1>7, <1>8 DEF CodecInv

\* The inductive invariant, for all items, any memory and any garbage in it.
THEOREM CodecInvariance == CodecSpec => []CodecInv
<1>1. CodecInit => CodecInv BY CodecInvInit
<1>2. CodecInv /\ [CodecNext]_codecVars => CodecInv'
  <2> SUFFICES ASSUME CodecInv, [CodecNext]_codecVars PROVE CodecInv' OBVIOUS
  <2>1. CASE \E item \in Items : Write(item) BY <2>1, WriteKeeps
  <2>2. CASE \E k \in 1..Len(starts) : Rewind(k) BY <2>2, RewindKeeps
  <2>3. CASE Send BY <2>3, SendKeeps
  <2>4. CASE \E bytes \in 0..Room : SendPart(bytes) BY <2>4, SendKeeps
  <2>5. CASE Read BY <2>5, ReadKeeps
  <2>6. CASE UNCHANGED codecVars BY <2>6, CodecInvStutters
  <2> QED BY <2>1, <2>2, <2>3, <2>4, <2>5, <2>6 DEF CodecNext
<1> QED BY <1>1, <1>2, PTL DEF CodecSpec

\* A read that succeeds returns what was written there, whatever mix of items the
\* stream carries, after rewinding, over any garbage and cut anywhere (BitStream.cpp
\* and the templates of BitStream.h), unless it ended within a PlayerID before.
THEOREM ItemsComeBack == CodecSpec => []ReadsBack
<1>1. CodecInv => ReadsBack BY DEF CodecInv
<1> QED BY <1>1, CodecInvariance, PTL

\* A read that succeeds leaves the read offset within the bits that arrived
\* (BitStream.cpp ReadBits and every reader built on it).
THEOREM ReadsNeverPass == CodecSpec => []ReadsStayInside
<1>1. CodecInv => ReadsStayInside BY DEF CodecInv
<1> QED BY <1>1, CodecInvariance, PTL

\* From a stream that arrived whole every item is read, and nothing is left over
\* (BitStream.cpp AssertStreamEmpty).
THEOREM WholeStreamsAreRead == CodecSpec => []NothingIsLost
<1>1. CodecInv => NothingIsLost
  <2> SUFFICES ASSUME CodecInv, sent, ~cut
               PROVE  AllRead /\ (Len(returned) = Len(written) => readOffset = numberOfBitsUsed)
    BY DEF NothingIsLost, AllRead
  <2>1. Placed /\ Stored /\ Followed BY DEF CodecInv
  <2>2. AllRead BY <2>1 DEF Followed
  <2>3. /\ Len(written) \in Nat /\ (written = <<>> <=> Len(written) = 0)
        /\ \A i \in 1..Len(written) : IsItem(written[i]) /\ starts[i] \in Nat
        /\ numberOfBitsUsed \in Nat =>
              \A i \in 1..Len(written) : Where(i) <= numberOfBitsUsed
    BY <2>1, PlacedFacts
  <2>4. numberOfBitsUsed \in Nat BY <2>1 DEF Stored, Stream, stream
  <2>5. ASSUME NEW i \in 1..Len(written) PROVE ~Torn(i)
    <3>1. Where(i) <= numberOfBitsUsed /\ starts[i] \in Nat BY <2>3, <2>4
    <3>2. written[i].kind = "player" => Where(i) = starts[i] + 48
      <4> SUFFICES ASSUME written[i].kind = "player" PROVE Where(i) = starts[i] + 48
        OBVIOUS
      <4>1. Len(written[i].value) = 48 BY <2>3 DEF IsItem
      <4> QED BY <4>1 DEF Where, End, Place, Encoding
    <3> QED BY <2>4, <3>1, <3>2 DEF Torn
  <2>6. ASSUME Len(returned) = Len(written) PROVE readOffset = numberOfBitsUsed
    <3>1. Intact BY <2>2, <2>5, <2>6 DEF AllRead, Intact
    <3>2. returned = <<>> <=> Len(returned) = 0 BY <2>1, EmptySeq DEF Followed
    <3>3. readOffset = IF written = <<>> THEN 0 ELSE Where(Len(written))
      BY <2>1, <2>3, <2>6, <3>1, <3>2 DEF Followed
    <3> QED BY <2>1, <3>3 DEF Placed
  <2> QED BY <2>2, <2>6
<1> QED BY <1>1, CodecInvariance, PTL

-----------------------------------------------------------------------------
\* What ExtractRPCData reads from one.

\* The items the fields are.
Forms == {Bit, Few(4), Few(5), Whole(1), Whole(2), Compressed(2), Compressed(4)}

\* The fields of a record, without the data.
Names == Fields \cup {"packetId", "rpcId"}

\* What a field is, filled with a value of it: an item that is read alike.
IsField(item, filled, value) ==
    /\ IsItem(filled) /\ ~IsLast(filled) /\ filled.kind # "player"
    /\ \A x : Same(filled, x) => x = value
    /\ \A s, at : ReadItem(s, at, item) = ReadItem(s, at, filled)

\* The value of a field before it is read.
LEMMA ZerosLength ==
    ASSUME NEW n \in Nat
    PROVE  Zeros(n) \in Seq({0, 1}) /\ Len(Zeros(n)) = n
BY DEF Zeros

\* A field of so many bits.
LEMMA BitsAreFields ==
    ASSUME NEW n \in Nat \ {0}, NEW z, NEW item, NEW value, IsValue(item, value),
           item = [kind |-> "bits", value |-> z, bits |-> n, rightAligned |-> TRUE],
           Len(z) = Filled(n)
    PROVE  IsField(item, [item EXCEPT !.value = value], value)
<1> DEFINE filled == [item EXCEPT !.value = value]
<1>1. filled.kind = "bits" /\ filled.value = value /\ filled.bits = n
      /\ filled.rightAligned = TRUE
  OBVIOUS
<1>2. value \in Seq({0, 1}) /\ Len(value) = Filled(n) /\ Len(value) \in Nat
  BY LenProperties DEF IsValue
<1>3. \A k \in 1..Padding(n) : value[8 * (n \div 8) + k] = 0 BY DEF IsValue
<1> HIDE DEF filled
<1>5. IsItem(filled) BY <1>2, <1>1 DEF IsItem
<1>6. ~IsLast(filled) /\ filled.kind # "player" BY <1>1 DEF IsLast
<1>7. ASSUME NEW x, Same(filled, x) PROVE x = value
  <2>1. x = Expected(filled) BY <1>1, <1>6, <1>7 DEF Same
  <2>2. x = [k \in 1..Len(value) |->
               IF k \in (8 * (n \div 8) + 1)..(8 * (n \div 8) + Padding(n)) THEN 0
               ELSE value[k]]
    BY <1>1, <2>1 DEF Expected
  <2>3. ASSUME NEW k \in (8 * (n \div 8) + 1)..(8 * (n \div 8) + Padding(n))
        PROVE  value[k] = 0
    <3>0. n \in Nat OBVIOUS
    <3>1. 8 * (n \div 8) \in 0..n /\ Padding(n) \in 0..7 BY <3>0, Fills
    <3>2. k - 8 * (n \div 8) \in 1..Padding(n)
          /\ 8 * (n \div 8) + (k - 8 * (n \div 8)) = k
      BY <3>1
    <3> QED BY <1>3, <3>2
  <2>4. value = [k \in 1..Len(value) |-> value[k]] BY <1>2, LenProperties
  <2> QED BY <2>2, <2>3, <2>4
<1>8. ASSUME NEW s, NEW at PROVE ReadItem(s, at, item) = ReadItem(s, at, filled)
  <2>1. ReadItem(s, at, item) = ReadBits(s, at, n, TRUE) BY DEF ReadItem
  <2>2. ReadItem(s, at, filled) = ReadBits(s, at, n, TRUE) BY <1>1 DEF ReadItem
  <2> QED BY <2>1, <2>2
<1> QED BY <1>5, <1>6, <1>7, <1>8 DEF IsField, filled

\* A flag, or a compressed number.
LEMMA OthersAreFields ==
    ASSUME NEW item, NEW value, IsValue(item, value), NEW z,
           \/ item = [kind |-> "bool", value |-> z] /\ Len(z) = 1
           \/ item = [kind |-> "compressed", value |-> z] /\ InBytes(z)
    PROVE  IsField(item, [item EXCEPT !.value = value], value)
<1> DEFINE filled == [item EXCEPT !.value = value]
<1>1. filled = [kind |-> item.kind, value |-> value] /\ item.kind \in {"bool", "compressed"}
      /\ item.value = z
  OBVIOUS
<1>2. value \in Seq({0, 1}) /\ Len(value) = Len(z) BY <1>1 DEF IsValue
<1> HIDE DEF filled
<1>3. filled.kind = item.kind /\ filled.value = value BY <1>1
<1>4. IsItem(filled)
  <2>1. item.kind = "bool" => Len(value) = 1 BY <1>2
  <2>2. item.kind = "compressed" => InBytes(value) BY <1>2 DEF InBytes
  <2> QED BY <1>1, <1>2, <1>3, <2>1, <2>2 DEF IsItem
<1>5. ~IsLast(filled) /\ filled.kind # "player" BY <1>1, <1>3 DEF IsLast
<1>6. \A x : Same(filled, x) => x = value
  BY <1>1, <1>3, <1>5 DEF Same, Expected
<1>7. \A s, at : ReadItem(s, at, item) = ReadItem(s, at, filled)
  BY <1>1, <1>2, <1>3 DEF ReadItem
<1> QED BY <1>4, <1>5, <1>6, <1>7 DEF IsField, filled

\* Every field is one, whatever its value.
LEMMA FieldsAreItems ==
    ASSUME NEW name \in Names, NEW value, IsValue(ItemOf[name], value)
    PROVE  IsField(ItemOf[name], Carrying(name, value), value)
<1> DEFINE item == ItemOf[name]
<1>1. \/ item = Bit
      \/ \E n \in {4, 5} : item = Few(n)
      \/ \E size \in {1, 2} : item = Whole(size)
      \/ \E size \in {2, 4} : item = Compressed(size)
  BY DEF Names, Fields, ItemOf
<1> HIDE DEF item
<1>2. IsValue(item, value) BY DEF item
<1>3. CASE item = Bit
  <2>1. item = [kind |-> "bool", value |-> <<0>>] /\ Len(<<0>>) = 1 BY <1>3 DEF Bit
  <2>2. IsField(item, [item EXCEPT !.value = value], value)
    BY <1>2, <2>1, OthersAreFields
  <2> QED BY <2>2 DEF Carrying, item
<1>4. ASSUME NEW n \in {4, 5}, item = Few(n)
      PROVE  IsField(item, [item EXCEPT !.value = value], value)
  <2>1. Len(Zeros(8)) = Filled(n)
    BY ZerosLength DEF Filled, BITS_TO_BYTES
  <2>2. item = [kind |-> "bits", value |-> Zeros(8), bits |-> n, rightAligned |-> TRUE]
    BY <1>4 DEF Few
  <2>3. n \in Nat \ {0} OBVIOUS
  <2> HIDE DEF item
  <2> QED BY <1>2, <2>1, <2>2, <2>3, BitsAreFields
<1>5. ASSUME NEW size \in {1, 2}, item = Whole(size)
      PROVE  IsField(item, [item EXCEPT !.value = value], value)
  <2>1. Len(Zeros(8 * size)) = Filled(8 * size)
    BY ZerosLength DEF Filled, BITS_TO_BYTES
  <2>2. item = [kind |-> "bits", value |-> Zeros(8 * size), bits |-> 8 * size,
                rightAligned |-> TRUE]
    BY <1>5 DEF Whole
  <2>3. 8 * size \in Nat \ {0} OBVIOUS
  <2> QED BY <1>2, <2>1, <2>2, <2>3, BitsAreFields
<1>6. ASSUME NEW size \in {2, 4}, item = Compressed(size)
      PROVE  IsField(item, [item EXCEPT !.value = value], value)
  <2>1. InBytes(Zeros(8 * size))
    <3>1. 8 * size \in {16, 32} OBVIOUS
    <3>2. Len(Zeros(8 * size)) = 8 * size BY <3>1, ZerosLength
    <3> QED BY <3>1, <3>2 DEF InBytes
  <2>2. item = [kind |-> "compressed", value |-> Zeros(8 * size)]
    BY <1>6 DEF Compressed
  <2> QED BY <1>2, <2>1, <2>2, OthersAreFields
<1> QED BY <1>1, <1>3, <1>4, <1>5, <1>6 DEF Carrying, item

\* A field of a datagram, as it is written.
Item(d, name) == Carrying(name, d[name])

\* Field by field the stream grows.
LEMMA WritesField ==
    ASSUME NEW d \in Datagrams, NEW name \in Fields, NEW w \in Stream, Clean(w),
           NEW t, t = WriteField(d, w, name)
    PROVE  /\ t \in Stream /\ Clean(t) /\ Continues(w, t) /\ w.used <= t.used
           /\ ~Present(name, d) => t = w
           /\ Present(name, d) =>
                 /\ t.used = End(Item(d, name), w.used)
                 /\ t.used <= 8 * Room => Carries(t.data, w.used, Item(d, name))
<1>1. IsField(ItemOf[name], Item(d, name), d[name])
  BY DatagramAssumption, FieldsAreItems DEF IsDatagram, Names, Item
<1>2. CASE Present(name, d)
  <2>1. t = WriteItem(w, Item(d, name)) BY <1>2 DEF WriteField, Item
  <2>2. IsItem(Item(d, name)) /\ ~IsLast(Item(d, name)) BY <1>1 DEF IsField
  <2>3. /\ Continues(w, t) /\ t.used = End(Item(d, name), w.used)
        /\ t.used <= 8 * Room => Carries(t.data, w.used, Item(d, name))
        /\ Clean(t)
    BY <2>1, <2>2, WritesItem
  <2> QED BY <1>2, <2>3 DEF Continues
<1>3. CASE ~Present(name, d)
  <2>1. t = w BY <1>3 DEF WriteField
  <2>2. Continues(w, w) BY DEF Continues, Stream
  <2> QED BY <1>3, <2>1, <2>2 DEF Stream
<1> QED BY <1>2, <1>3

\* How far a reader of s has come when the datagram was written as far as w: it has
\* all fields gone over, or the stream has ended before.  o is the caller's record.
Follows(o, s, q, w, d, S) ==
    /\ q = [ok |-> q.ok, at |-> q.at, out |-> q.out] /\ q.ok \in BOOLEAN
    /\ DOMAIN q.out = Names \cup {"payload"}
    /\ q.ok => /\ q.at = w.used /\ w.used <= s.used
               /\ \A f \in S : Present(f, d) => q.out[f] = d[f]
               /\ q.out["payload"] = o["payload"]
    /\ ~q.ok => s.used < w.used

\* A field is looked for only where it is, as what decides it was read before.
Decided(name, S) ==
    /\ name \in {"orderingChannel", "orderingIndex"} => "reliability" \in S
    /\ name \in {"splitPacketId", "splitPacketIndex", "splitPacketCount"} =>
           "isSplitPacket" \in S

\* What a record has of the fields is what the datagram has, once those that decide
\* it are the same.
LEMMA PresentAlike ==
    ASSUME NEW d, NEW r, NEW name, NEW S, Decided(name, S),
           \A f \in S : Present(f, d) => r[f] = d[f]
    PROVE  Present(name, r) <=> Present(name, d)
<1>1. Present("reliability", d) /\ Present("isSplitPacket", d) BY DEF Present
<1>2. "reliability" \in S => r.reliability = d.reliability BY <1>1
<1>3. "isSplitPacket" \in S => r.isSplitPacket = d.isSplitPacket BY <1>1
<1> QED BY <1>2, <1>3 DEF Present, Decided

\* One field more: read if it is there, and noticed if it is not all there.
LEMMA ReadsField ==
    ASSUME NEW d \in Datagrams, NEW name \in Fields, NEW w \in Stream, Clean(w),
           NEW t, t = WriteField(d, w, name), t.used <= 8 * Room,
           NEW u, Continues(t, u), NEW s \in Stream, s.data = u.data, s.used <= 8 * Room,
           NEW o, NEW q, NEW S, Decided(name, S), Follows(o, s, q, w, d, S),
           NEW r, r = ReadField(s, q, name)
    PROVE  Follows(o, s, r, t, d, S \cup {name})
<1> DEFINE item == Item(d, name)
<1>1. IsField(ItemOf[name], item, d[name])
  BY DatagramAssumption, FieldsAreItems DEF IsDatagram, Names, Item
<1>2. IsItem(item) /\ item.kind # "player" /\ (\A x : Same(item, x) => x = d[name])
  BY <1>1 DEF IsField
<1>3. /\ t \in Stream /\ w.used <= t.used
      /\ ~Present(name, d) => t = w
      /\ Present(name, d) => t.used = End(item, w.used) /\ Carries(t.data, w.used, item)
  BY WritesField
<1>4. w.used \in Nat /\ t.used \in Nat /\ s.used \in Nat BY <1>3 DEF Stream
<1>5. CASE ~q.ok
  <2>1. r = q BY <1>5 DEF ReadField
  <2>2. s.used < t.used BY <1>3, <1>4, <1>5 DEF Follows
  <2> QED BY <1>5, <2>1, <2>2 DEF Follows
<1>6. CASE q.ok
  <2>1. /\ q.at = w.used /\ w.used <= s.used
        /\ \A f \in S : Present(f, d) => q.out[f] = d[f]
        /\ q.out["payload"] = o["payload"]
        /\ DOMAIN q.out = Names \cup {"payload"}
    BY <1>6 DEF Follows
  <2>2. Present(name, q.out) <=> Present(name, d) BY <2>1, PresentAlike
  <2>3. CASE ~Present(name, d)
    <3>1. r = q /\ t = w BY <1>3, <2>2, <2>3 DEF ReadField
    <3> QED BY <1>6, <2>1, <2>3, <3>1 DEF Follows
  <2>4. CASE Present(name, d)
    <3> DEFINE read == ReadItem(s, w.used, item)
    <3>1. ReadItem(s, q.at, ItemOf[name]) = read BY <1>1, <2>1 DEF IsField
    <3>2. r = ReadInto(s, q, name) BY <1>6, <2>2, <2>4 DEF ReadField
    <3>3. r = [ok |-> read.ok, at |-> read.at,
               out |-> IF read.ok THEN [q.out EXCEPT ![name] = read.value] ELSE q.out]
      BY <3>1, <3>2 DEF ReadInto
    <3>4. Carries(s.data, w.used, item)
      BY <1>2, <1>3, <1>4, <2>4, CarriesStill
    <3>5. ReadsRight(s, w.used, item, read)
      BY <1>2, <1>4, <2>1, <3>4, ReadsItem
    <3> HIDE DEF read
    <3>6. /\ read.ok \in BOOLEAN
          /\ t.used <= s.used => read.ok
          /\ read.ok => t.used <= s.used /\ read.at = t.used /\ read.value = d[name]
      BY <1>2, <1>3, <2>4, <3>5 DEF ReadsRight
    <3>7. CASE ~read.ok
      <4>1. s.used < t.used BY <1>4, <3>6, <3>7
      <4>2. r.ok = FALSE /\ r.out = q.out BY <3>3, <3>6, <3>7
      <4>3. r = [ok |-> r.ok, at |-> r.at, out |-> r.out] BY <3>3
      <4> QED BY <2>1, <4>1, <4>2, <4>3 DEF Follows
    <3>8. CASE read.ok
      <4>1. r.ok = TRUE /\ r.at = t.used /\ r.out = [q.out EXCEPT ![name] = d[name]]
        BY <3>3, <3>6, <3>8
      <4>2. name \in Names /\ name # "payload" BY DEF Names, Fields, ItemOf
      <4>3. DOMAIN r.out = Names \cup {"payload"} /\ r.out[name] = d[name]
            /\ \A f \in (Names \cup {"payload"}) \ {name} : r.out[f] = q.out[f]
        BY <2>1, <4>1, <4>2
      <4>4. \A f \in S \cup {name} : Present(f, d) => r.out[f] = d[f]
        BY <2>1, <4>1, <4>2
      <4>5. r = [ok |-> r.ok, at |-> r.at, out |-> r.out] BY <3>3
      <4> QED BY <2>1, <3>6, <3>8, <4>1, <4>2, <4>3, <4>4, <4>5 DEF Follows
    <3> QED BY <3>6, <3>7, <3>8
  <2> QED BY <2>3, <2>4
<1> QED BY <1>5, <1>6 DEF Follows

\* The data goes behind the fields, from a byte boundary on.
LEMMA WritesData ==
    ASSUME NEW w \in Stream, Clean(w), NEW v \in Seq({0, 1}), Len(v) % 8 = 0,
           NEW c, c = WriteAlignedBytes(w, v)
    PROVE  /\ c \in Stream /\ Continues(w, c) /\ c.used = Filled(w.used) + Len(v)
           /\ c.used <= 8 * Room => Holds(c.data, Filled(w.used), v, Len(v))
<1> DEFINE item == [kind |-> "aligned", value |-> v]
           n == Len(v)
<1>1. n \in Nat /\ n % 8 = 0 BY LenProperties
<1>2. CASE n # 0
  <2>1. InBytes(v) BY <1>1, <1>2 DEF InBytes
  <2>2. IsItem(item) BY <2>1 DEF IsItem
  <2>3. c = WriteItem(w, item) BY DEF WriteItem
  <2>4. Encoding(item) = v /\ Place(item, w.used) = Filled(w.used)
    BY DEF Encoding, Place
  <2> HIDE DEF item
  <2>5. /\ Continues(w, c) /\ c.used = End(item, w.used)
        /\ c.used <= 8 * Room => Carries(c.data, w.used, item)
    BY <2>2, <2>3, WritesItem
  <2> QED BY <2>4, <2>5 DEF Continues, End, Carries
<1>3. CASE n = 0
  <2> DEFINE f == From(w, item)
  <2>1. f = Aligned(w) BY DEF From
  <2>2. Continues(w, f) /\ f.used = Filled(w.used) BY <2>1, Begins DEF Place
  <2>3. f \in Stream BY <2>2 DEF Continues
  <2> HIDE DEF f
  <2>4. Filled(0) = 0 /\ 0 \in Nat BY DEF Filled, BITS_TO_BYTES
  <2>5. Wrote(f, WriteBits(f, v, 0, TRUE), Left(v, 0), 0)
    <3>1. Filled(0) <= Len(v) BY <1>3, <2>4
    <3> QED BY <2>3, <2>4, <3>1, WritesBits
  <2>6. c = WriteBits(f, v, 0, TRUE)
    BY <1>3, <2>1 DEF WriteAlignedBytes, WriteValue
  <2>7. Continues(f, c) /\ c.used = f.used + 0 BY <2>5, <2>6 DEF Wrote, Appended
  <2>8. c \in Stream /\ Continues(w, c) BY <2>2, <2>3, <2>7, ContinuesTwice DEF Continues
  <2>9. Holds(c.data, Filled(w.used), v, Len(v)) BY <1>3 DEF Holds
  <2> QED BY <1>3, <2>2, <2>7, <2>8, <2>9
<1> QED BY <1>2, <1>3

\* The sender starts with an empty stream.
LEMMA EmptyIsClean == Empty \in Stream /\ Clean(Empty) /\ Empty.used = 0
BY RoomAssumption DEF Empty, Stream, Memory, Clean

\* The fields before the data.
FieldNames == {"hasAcks", "msgNum", "reliability", "orderingChannel", "orderingIndex",
               "isSplitPacket", "splitPacketId", "splitPacketIndex", "splitPacketCount",
               "length"}

\* By name.
LEMMA AllFields == Fields = FieldNames
BY DEF Fields, FieldNames, ItemOf

\* The length of the data is a number.
LEMMA BitsAreNumber ==
    ASSUME NEW b, \A k \in 1..8 : b[k] \in Nat
    PROVE  Number(b) \in Nat
BY DEF Number

\* The number in a byte of bits.
LEMMA NumberIsNat ==
    ASSUME NEW v \in Seq({0, 1}), NEW j \in Nat \ {0}, 8 * j <= Len(v)
    PROVE  Number(Byte(v, j)) \in Nat
<1>1. 8 * j - 7 \in Nat /\ 8 * j \in Nat /\ 8 * j - 7 >= 1 OBVIOUS
<1>2. \A k \in 1..8 : Byte(v, j)[k] = v[8 * j - 7 + k - 1] BY <1>1, Part DEF Byte
<1>3. \A k \in 1..8 : 8 * j - 7 + k - 1 \in 1..Len(v) BY LenProperties
<1>4. \A k \in 1..8 : Byte(v, j)[k] \in {0, 1} BY <1>2, <1>3, ElementOfSeq
<1> DEFINE b == Byte(v, j)
<1> HIDE DEF b
<1>5. \A k \in 1..8 : b[k] \in Nat BY <1>4 DEF b
<1>6. Number(b) \in Nat BY <1>5, BitsAreNumber
<1> QED BY <1>6 DEF b

\* The length in the datagram.
LEMMA LengthIsNat ==
    ASSUME NEW d \in Datagrams
    PROVE  Length(d.length) \in Nat
<1>1. IsValue(ItemOf["length"], d["length"])
  BY AllFields, DatagramAssumption DEF IsDatagram, FieldNames
<1>2. ItemOf["length"] = Compressed(2) BY DEF ItemOf
<1>3. Len(Zeros(16)) = 16 BY ZerosLength
<1>4. d.length \in Seq({0, 1}) /\ Len(d.length) = 16
  BY <1>1, <1>2, <1>3 DEF IsValue, Compressed
<1>5. ASSUME NEW j \in 1..2 PROVE Number(Byte(d.length, j)) \in Nat
  <2>1. j \in Nat \ {0} /\ 8 * j <= 16 OBVIOUS
  <2>2. 8 * j <= Len(d.length) BY <1>4, <2>1
  <2> QED BY <1>4, <2>1, <2>2, NumberIsNat
<1>6. Number(Byte(d.length, 1)) \in Nat /\ Number(Byte(d.length, 2)) \in Nat BY <1>5
<1> QED BY <1>6 DEF Length

\* A stream over a datagram, and a record to read it into.
Readable(s, d, o) ==
    /\ s \in Stream /\ s.data = Composed(d).data /\ s.used <= 8 * Room
    /\ DOMAIN o = Names \cup {"payload"}

\* All the fields, written and read; the first one cannot be empty.
LEMMA ReadsFields ==
    ASSUME NEW d \in Datagrams, NEW s, NEW o
    PROVE  \E w \in Stream :
              /\ Clean(w) /\ w.used > 0 /\ Composed(d) = WriteAlignedBytes(w, d.data)
              /\ Readable(s, d, o) =>
                    Follows(o, s, ReadFields(s, [ok |-> TRUE, at |-> 0, out |-> o]), w,
                            d, Fields)
<1> DEFINE c == Composed(d)
           w0 == Empty
           w1 == WriteField(d, w0, "hasAcks")
           w2 == WriteField(d, w1, "msgNum")
           w3 == WriteField(d, w2, "reliability")
           w4 == WriteField(d, w3, "orderingChannel")
           w5 == WriteField(d, w4, "orderingIndex")
           w6 == WriteField(d, w5, "isSplitPacket")
           w7 == WriteField(d, w6, "splitPacketId")
           w8 == WriteField(d, w7, "splitPacketIndex")
           w9 == WriteField(d, w8, "splitPacketCount")
           w == WriteField(d, w9, "length")
           q0 == [ok |-> TRUE, at |-> 0, out |-> o]
           q1 == ReadField(s, q0, "hasAcks")
           q2 == ReadField(s, q1, "msgNum")
           q3 == ReadField(s, q2, "reliability")
           q4 == ReadField(s, q3, "orderingChannel")
           q5 == ReadField(s, q4, "orderingIndex")
           q6 == ReadField(s, q5, "isSplitPacket")
           q7 == ReadField(s, q6, "splitPacketId")
           q8 == ReadField(s, q7, "splitPacketIndex")
           q9 == ReadField(s, q8, "splitPacketCount")
           q == ReadField(s, q9, "length")
           Longer(a, b) == b \in Stream /\ Clean(b) /\ Continues(a, b) /\ a.used <= b.used
<1>1. c = WriteAlignedBytes(w, d.data) BY DEF Composed, InOrder
<1>2. ReadFields(s, q0) = q BY DEF ReadFields, InOrder
<1> HIDE DEF c, w0, w1, w2, w3, w4, w5, w6, w7, w8, w9, w,
             q0, q1, q2, q3, q4, q5, q6, q7, q8, q9, q
<1>3. FieldNames \subseteq Fields BY AllFields
<1>4. w0 \in Stream /\ Clean(w0) /\ w0.used = 0 BY EmptyIsClean DEF w0
<1>5. Longer(w0, w1) BY <1>3, <1>4, WritesField DEF w1, FieldNames
<1>6. Longer(w1, w2) BY <1>3, <1>5, WritesField DEF w2, FieldNames
<1>7. Longer(w2, w3) BY <1>3, <1>6, WritesField DEF w3, FieldNames
<1>8. Longer(w3, w4) BY <1>3, <1>7, WritesField DEF w4, FieldNames
<1>9. Longer(w4, w5) BY <1>3, <1>8, WritesField DEF w5, FieldNames
<1>10. Longer(w5, w6) BY <1>3, <1>9, WritesField DEF w6, FieldNames
<1>11. Longer(w6, w7) BY <1>3, <1>10, WritesField DEF w7, FieldNames
<1>12. Longer(w7, w8) BY <1>3, <1>11, WritesField DEF w8, FieldNames
<1>13. Longer(w8, w9) BY <1>3, <1>12, WritesField DEF w9, FieldNames
<1>14. Longer(w9, w) BY <1>3, <1>13, WritesField DEF w, FieldNames
<1> DEFINE Before(a) == Continues(a, c) /\ a.used <= 8 * Room
<1>15. Before(w)
  <2>1. /\ d.data \in Seq({0, 1}) /\ Len(d.data) % 8 = 0 /\ c.used <= 8 * Room
    <3>1. d.data \in Seq({0, 1}) /\ Len(d.data) = Filled(Length(d.length))
          /\ c.used <= 8 * Room
      BY DatagramAssumption DEF IsDatagram, c
    <3>2. Len(d.data) \in Nat BY <3>1, LenProperties
    <3>3. Len(d.data) % 8 = 0
      <4> DEFINE m == BITS_TO_BYTES(Length(d.length))
      <4>1. Len(d.data) = 8 * m BY <3>1 DEF Filled
      <4>2. m \in Int BY LengthIsNat DEF BITS_TO_BYTES
      <4> HIDE DEF m
      <4> QED BY <4>1, <4>2
    <3> QED BY <3>1, <3>3
  <2>2. c \in Stream /\ Continues(w, c) BY <1>1, <1>14, <2>1, WritesData
  <2>3. w.used <= c.used /\ w.used \in Nat /\ c.used \in Nat
    BY <1>14, <2>2 DEF Continues, Stream
  <2>4. Room \in Nat BY RoomAssumption
  <2> QED BY <2>1, <2>2, <2>3, <2>4
<1>16. ASSUME NEW a \in Stream, NEW b, Longer(a, b), Before(b) PROVE Before(a)
  <2>1. Continues(a, c) BY <1>16, ContinuesTwice
  <2>2. a.used \in Nat /\ b.used \in Nat BY <1>16 DEF Stream
  <2>3. Room \in Nat BY RoomAssumption
  <2> QED BY <1>16, <2>1, <2>2, <2>3
<1>17. /\ Before(w9) /\ Before(w8) /\ Before(w7) /\ Before(w6) /\ Before(w5)
       /\ Before(w4) /\ Before(w3) /\ Before(w2) /\ Before(w1)
  <2> HIDE DEF Before
  <2>1. Before(w9) BY <1>13, <1>14, <1>15, <1>16
  <2>2. Before(w8) BY <1>12, <1>13, <1>16, <2>1
  <2>3. Before(w7) BY <1>11, <1>12, <1>16, <2>2
  <2>4. Before(w6) BY <1>10, <1>11, <1>16, <2>3
  <2>5. Before(w5) BY <1>9, <1>10, <1>16, <2>4
  <2>6. Before(w4) BY <1>8, <1>9, <1>16, <2>5
  <2>7. Before(w3) BY <1>7, <1>8, <1>16, <2>6
  <2>8. Before(w2) BY <1>6, <1>7, <1>16, <2>7
  <2>9. Before(w1) BY <1>5, <1>6, <1>16, <2>8
  <2> QED BY <2>1, <2>2, <2>3, <2>4, <2>5, <2>6, <2>7, <2>8, <2>9
<1>18. w.used > 0
  <2>1. Present("hasAcks", d) /\ "hasAcks" \in Fields BY <1>3 DEF Present, FieldNames
  <2>2. w1.used = End(Item(d, "hasAcks"), w0.used)
    BY <1>4, <2>1, WritesField DEF w1
  <2>3. Len(d["hasAcks"]) = 1
    <3>1. IsValue(ItemOf["hasAcks"], d["hasAcks"])
      BY <2>1, DatagramAssumption DEF IsDatagram
    <3>2. ItemOf["hasAcks"] = Bit BY DEF ItemOf
    <3> QED BY <3>1, <3>2 DEF IsValue, Bit
  <2>4. Item(d, "hasAcks") = [kind |-> "bool", value |-> d["hasAcks"]]
    BY DEF Item, Carrying, ItemOf, Bit
  <2>5. Encoding(Item(d, "hasAcks")) = d["hasAcks"] /\ Place(Item(d, "hasAcks"), 0) = 0
    BY <2>4 DEF Place, Encoding
  <2>6. w1.used = Place(Item(d, "hasAcks"), w0.used) + Len(Encoding(Item(d, "hasAcks")))
    BY <2>2 DEF End
  <2>7. w1.used = 0 + 1 BY <1>4, <2>3, <2>5, <2>6
  <2> QED BY <1>5, <1>6, <1>7, <1>8, <1>9, <1>10, <1>11, <1>12, <1>13, <1>14, <2>7
          DEF Stream
<1>19. ASSUME Readable(s, d, o)
       PROVE  Follows(o, s, ReadFields(s, q0), w, d, Fields)
  <2>1. /\ s \in Stream /\ s.data = Composed(d).data /\ s.used <= 8 * Room
         /\ DOMAIN o = Names \cup {"payload"}
    BY <1>19 DEF Readable
  <2> DEFINE At(p, a, S) == Follows(o, s, p, a, d, S)
  <2>2. At(q0, w0, {})
    <3>1. s.used \in Nat BY <2>1 DEF Stream
    <3> QED BY <1>4, <2>1, <3>1 DEF Follows, q0
  <2>3. ASSUME NEW name \in Fields, NEW a \in Stream, Clean(a), NEW b, Before(b),
                b = WriteField(d, a, name), NEW S, Decided(name, S), NEW p, At(p, a, S),
                NEW r, r = ReadField(s, p, name)
         PROVE  At(r, b, S \cup {name})
    <3>1. s.data = c.data BY <2>1 DEF c
    <3> QED BY <2>1, <2>3, <3>1, ReadsField
  <2> DEFINE S0 == {}
             S1 == S0 \cup {"hasAcks"}
             S2 == S1 \cup {"msgNum"}
             S3 == S2 \cup {"reliability"}
             S4 == S3 \cup {"orderingChannel"}
             S5 == S4 \cup {"orderingIndex"}
             S6 == S5 \cup {"isSplitPacket"}
             S7 == S6 \cup {"splitPacketId"}
             S8 == S7 \cup {"splitPacketIndex"}
             S9 == S8 \cup {"splitPacketCount"}
             S == S9 \cup {"length"}
  <2> HIDE DEF Before, At
  <2>4. At(q1, w1, S1)
    <3>1. Decided("hasAcks", S0) BY DEF Decided
    <3>2. "hasAcks" \in Fields BY <1>3 DEF FieldNames
    <3> QED BY <1>4, <1>17, <2>3, <2>2, <3>1, <3>2 DEF q1, w1
  <2>5. At(q2, w2, S2)
    <3>1. Decided("msgNum", S1) BY DEF Decided
    <3>2. "msgNum" \in Fields BY <1>3 DEF FieldNames
    <3> HIDE DEF S1
    <3> QED BY <1>5, <1>17, <2>3, <2>4, <3>1, <3>2 DEF q2, w2
  <2>6. At(q3, w3, S3)
    <3>1. Decided("reliability", S2) BY DEF Decided
    <3>2. "reliability" \in Fields BY <1>3 DEF FieldNames
    <3> HIDE DEF S2
    <3> QED BY <1>6, <1>17, <2>3, <2>5, <3>1, <3>2 DEF q3, w3
  <2>7. At(q4, w4, S4)
    <3>1. Decided("orderingChannel", S3) BY DEF Decided
    <3>2. "orderingChannel" \in Fields BY <1>3 DEF FieldNames
    <3> HIDE DEF S3
    <3> QED BY <1>7, <1>17, <2>3, <2>6, <3>1, <3>2 DEF q4, w4
  <2>8. At(q5, w5, S5)
    <3>1. Decided("orderingIndex", S4) BY DEF Decided
    <3>2. "orderingIndex" \in Fields BY <1>3 DEF FieldNames
    <3> HIDE DEF S4
    <3> QED BY <1>8, <1>17, <2>3, <2>7, <3>1, <3>2 DEF q5, w5
  <2>9. At(q6, w6, S6)
    <3>1. Decided("isSplitPacket", S5) BY DEF Decided
    <3>2. "isSplitPacket" \in Fields BY <1>3 DEF FieldNames
    <3> HIDE DEF S5
    <3> QED BY <1>9, <1>17, <2>3, <2>8, <3>1, <3>2 DEF q6, w6
  <2>10. At(q7, w7, S7)
    <3>1. Decided("splitPacketId", S6) BY DEF Decided
    <3>2. "splitPacketId" \in Fields BY <1>3 DEF FieldNames
    <3> HIDE DEF S6
    <3> QED BY <1>10, <1>17, <2>3, <2>9, <3>1, <3>2 DEF q7, w7
  <2>11. At(q8, w8, S8)
    <3>1. Decided("splitPacketIndex", S7) BY DEF Decided
    <3>2. "splitPacketIndex" \in Fields BY <1>3 DEF FieldNames
    <3> HIDE DEF S7
    <3> QED BY <1>11, <1>17, <2>3, <2>10, <3>1, <3>2 DEF q8, w8
  <2>12. At(q9, w9, S9)
    <3>1. Decided("splitPacketCount", S8) BY DEF Decided
    <3>2. "splitPacketCount" \in Fields BY <1>3 DEF FieldNames
    <3> HIDE DEF S8
    <3> QED BY <1>12, <1>17, <2>3, <2>11, <3>1, <3>2 DEF q9, w9
  <2>13. At(q, w, S)
    <3>1. Decided("length", S9) BY DEF Decided
    <3>2. "length" \in Fields BY <1>3 DEF FieldNames
    <3> HIDE DEF S9
    <3> QED BY <1>13, <1>15, <2>3, <2>12, <3>1, <3>2 DEF q, w
  <2>14. S = Fields BY AllFields DEF FieldNames
  <2>15. At(q, w, Fields) BY <2>13, <2>14
  <2> QED BY <1>2, <2>15 DEF At
<1> QED BY <1>1, <1>14, <1>18, <1>19 DEF c, q0

\* The size of a datagram in bits and in bytes.
LEMMA SentFacts ==
    ASSUME NEW d \in Datagrams
    PROVE  /\ Composed(d) \in Stream /\ Composed(d).used \in Nat
           /\ Composed(d).used <= 8 * Room
           /\ DatagramSize(d) \in Nat \ {0} /\ Composed(d).used = 8 * DatagramSize(d)
           /\ d.data \in Seq({0, 1}) /\ Len(d.data) \in Nat /\ Len(d.data) % 8 = 0
<1> DEFINE c == Composed(d)
<1>1. PICK w \in Stream : Clean(w) /\ w.used > 0 /\ c = WriteAlignedBytes(w, d.data)
  BY ReadsFields
<1>2. /\ d.data \in Seq({0, 1}) /\ Len(d.data) = Filled(Length(d.length))
      /\ c.used <= 8 * Room
  BY DatagramAssumption DEF IsDatagram
<1>3. Len(d.data) \in Nat BY <1>2, LenProperties
<1> DEFINE m == BITS_TO_BYTES(Length(d.length))
<1>4. Len(d.data) = 8 * m BY <1>2 DEF Filled
<1>5. m \in Int BY LengthIsNat DEF BITS_TO_BYTES
<1> HIDE DEF m
<1>6. Len(d.data) % 8 = 0 BY <1>4, <1>5
<1>7. c \in Stream /\ c.used = Filled(w.used) + Len(d.data)
  BY <1>1, <1>2, <1>6, WritesData
<1> HIDE DEF c
<1> DEFINE j == BITS_TO_BYTES(w.used)
<1>8. w.used \in Nat /\ c.used \in Nat BY <1>7 DEF Stream
<1>9. Filled(w.used) = 8 * j /\ j \in Nat \ {0}
  BY <1>1, <1>8 DEF Filled, BITS_TO_BYTES
<1> HIDE DEF j
<1>10. m \in Nat BY <1>3, <1>4, <1>5
<1>11. c.used = 8 * (j + m) BY <1>4, <1>7, <1>9, <1>10
<1>12. DatagramSize(d) = (c.used + 7) \div 8 BY DEF DatagramSize, Sent, BITS_TO_BYTES, c
<1>13. DatagramSize(d) = j + m
  <2> DEFINE k == j + m
  <2>1. k \in Nat /\ c.used = 8 * k BY <1>9, <1>10, <1>11
  <2> HIDE DEF k
  <2>2. (8 * k + 7) \div 8 = k BY <2>1
  <2> QED BY <1>12, <2>1, <2>2 DEF k
<1> QED BY <1>2, <1>3, <1>6, <1>7, <1>8, <1>9, <1>10, <1>11, <1>13 DEF c

\* The data is read if all of it is there, and if there is any; the fields before it
\* have what the datagram has.
LEMMA ReadsData ==
    ASSUME NEW d \in Datagrams, NEW s, NEW o, Readable(s, d, o),
           NEW r, r = ReadFields(s, [ok |-> TRUE, at |-> 0, out |-> o]),
           NEW p, p = PacketData(s, r)
    PROVE  /\ p.ok \in BOOLEAN
           /\ p.ok <=> Composed(d).used <= s.used /\ Len(d.data) > 0
           /\ DOMAIN r.out = Names \cup {"payload"}
           /\ r = [ok |-> r.ok, at |-> r.at, out |-> r.out]
           /\ p.ok => /\ r.ok
                      /\ p.value = d.data
                      /\ \A f \in Fields : Present(f, d) => r.out[f] = d[f]
                      /\ r.out["payload"] = o["payload"]
<1> DEFINE c == Composed(d)
           v == d.data
           n == Len(v)
<1>1. PICK w \in Stream : /\ Clean(w) /\ c = WriteAlignedBytes(w, v)
                          /\ Follows(o, s, r, w, d, Fields)
  BY ReadsFields
<1>2. /\ c.used \in Nat /\ c.used <= 8 * Room /\ v \in Seq({0, 1}) /\ n \in Nat
      /\ n % 8 = 0
  BY SentFacts
<1>3. /\ s \in Stream /\ s.data = c.data /\ s.used <= 8 * Room BY DEF Readable
<1>4. /\ c.used = Filled(w.used) + n /\ Holds(c.data, Filled(w.used), v, n)
  BY <1>1, <1>2, WritesData
<1>5. s.used \in Nat /\ w.used \in Nat /\ Filled(w.used) \in Nat
      /\ w.used <= Filled(w.used)
  <2>1. s.used \in Nat /\ w.used \in Nat BY <1>3 DEF Stream
  <2> QED BY <2>1, Fills
<1> HIDE DEF c
<1>6. CASE ~r.ok
  <2>1. p.ok = FALSE BY <1>6 DEF PacketData, Fails
  <2>2. s.used < w.used BY <1>1, <1>6 DEF Follows
  <2>3. ~(c.used <= s.used) BY <1>2, <1>4, <1>5, <2>2
  <2>4. /\ DOMAIN r.out = Names \cup {"payload"}
        /\ r = [ok |-> r.ok, at |-> r.at, out |-> r.out]
    BY <1>1 DEF Follows
  <2> QED BY <2>1, <2>3, <2>4 DEF c
<1>7. CASE r.ok
  <2>1. /\ r.at = w.used /\ w.used <= s.used
        /\ \A f \in Fields : Present(f, d) => r.out[f] = d[f]
        /\ r.out["payload"] = o["payload"]
        /\ DOMAIN r.out = Names \cup {"payload"}
        /\ r = [ok |-> r.ok, at |-> r.at, out |-> r.out] /\ r.ok = TRUE
    BY <1>1, <1>7 DEF Follows
  <2>2. r.out["length"] = d["length"]
    <3>1. "length" \in Fields BY AllFields DEF FieldNames
    <3>2. Present("length", d) BY DEF Present
    <3> QED BY <2>1, <3>1, <3>2
  <2>3. DataBytes(r.out.length) = n
    BY <2>2, DatagramAssumption DEF DataBytes, IsDatagram
  <2>4. p = ReadAlignedBytes(s, w.used, n) BY <1>7, <2>1, <2>3 DEF PacketData
  <2>5. CASE n = 0
    <3>1. p.ok = FALSE BY <2>4, <2>5 DEF ReadAlignedBytes, Fails
    <3>2. ~(Len(d.data) > 0) BY <2>5
    <3> QED BY <2>1, <3>1, <3>2
  <2>6. CASE n # 0
    <3> DEFINE item == [kind |-> "aligned", value |-> v]
    <3>1. IsItem(item)
      <4>1. n > 0
        <5>1. n \in Nat BY <1>2
        <5> HIDE DEF n
        <5> QED BY <2>6, <5>1
      <4>2. InBytes(v) BY <1>2, <4>1 DEF InBytes
      <4> QED BY <1>2, <4>2 DEF IsItem
    <3>2. p = ReadItem(s, w.used, item) BY <2>4 DEF ReadItem
    <3>3. item.kind = "aligned" /\ item.value = v /\ Encoding(item) = v
          /\ Place(item, w.used) = Filled(w.used)
      BY DEF Encoding, Place
    <3> HIDE DEF item
    <3>4. End(item, w.used) = c.used BY <1>4, <3>3 DEF End
    <3>5. Carries(s.data, w.used, item) BY <1>3, <1>4, <3>3 DEF Carries
    <3>6. ReadsRight(s, w.used, item, p) BY <1>3, <1>5, <2>1, <3>1, <3>2, <3>5, ReadsItem
    <3>7. \A x : Same(item, x) => x = v BY <3>3 DEF Same, IsLast, Expected
    <3>8. /\ p.ok \in BOOLEAN
          /\ c.used <= s.used => p.ok
          /\ p.ok => c.used <= s.used /\ Same(item, p.value)
      BY <3>3, <3>4, <3>6 DEF ReadsRight
    <3>9. p.ok => p.value = v BY <3>7, <3>8
    <3>10. n > 0 BY <1>2, <2>6
    <3> QED BY <2>1, <3>8, <3>9, <3>10 DEF c
  <2> QED BY <2>5, <2>6
<1>8. r.ok \in BOOLEAN BY <1>1 DEF Follows
<1> QED BY <1>6, <1>7, <1>8

\* A stream over the data, and the ids at its begin.
LEMMA ReadsId ==
    ASSUME NEW bytes \in Seq({0, 1}), Len(bytes) <= 8 * Room, NEW j \in {1, 2},
           NEW name \in {"packetId", "rpcId"}, NEW q, q.at = 8 * (j - 1),
           NEW r, r = ReadInto(Over(bytes), q, name)
    PROVE  /\ r.ok \in BOOLEAN
           /\ r.ok <=> 8 * j <= Len(bytes)
           /\ r.ok => r.at = 8 * j /\ r.out = [q.out EXCEPT ![name] = Byte(bytes, j)]
           /\ ~r.ok => r.out = q.out
<1> DEFINE s == Over(bytes)
           at == 8 * (j - 1)
           n == Len(bytes)
           m == [i \in 0..(8 * Room - 1) |-> IF i < n THEN bytes[i + 1] ELSE 0]
<1>1. n \in Nat /\ \A k \in 1..n : bytes[k] \in {0, 1} BY LenProperties, ElementOfSeq
<1>2. s = [data |-> m, used |-> n] BY DEF Over
<1>3. m \in Memory
  <2>1. Room \in Nat BY RoomAssumption
  <2>2. \A i \in 0..(8 * Room - 1) : i < n => i + 1 \in 1..n BY <1>1
  <2> QED BY <1>1, <2>2 DEF Memory
<1>4. s \in Stream /\ s.used = n /\ s.used <= 8 * Room /\ s.data = m
  <2> HIDE DEF m, n, s
  <2>1. s \in Stream /\ s.used = n /\ s.data = m BY <1>1, <1>2, <1>3 DEF Stream
  <2> QED BY <2>1 DEF n
<1>5. ItemOf[name].kind = "bits" /\ ItemOf[name].bits = 8
      /\ ItemOf[name].rightAligned = TRUE
  <2>1. ItemOf[name] = Whole(1) BY DEF ItemOf
  <2>2. 8 * 1 = 8 OBVIOUS
  <2> QED BY <2>1, <2>2 DEF Whole
<1> DEFINE read == ReadItem(s, at, ItemOf[name])
<1>6. read = ReadBits(s, at, 8, TRUE) BY <1>5 DEF ReadItem
<1>7. r = [ok |-> read.ok, at |-> read.at,
           out |-> IF read.ok THEN [q.out EXCEPT ![name] = read.value] ELSE q.out]
  BY DEF ReadInto
<1> HIDE DEF read, m
<1>8. CASE 8 * j <= n
  <2> DEFINE b == Byte(bytes, j)
  <2>1. 8 * j - 7 \in Nat /\ 1 <= 8 * j - 7 /\ 8 * j - 7 <= 8 * j + 1 /\ 8 * j \in Nat
    OBVIOUS
  <2>2. b \in Seq({0, 1}) /\ Len(b) = 8
        /\ \A k \in 1..8 : b[k] = bytes[8 * j - 7 + k - 1]
    BY <1>8, <2>1, Part DEF Byte
  <2>3. Holds(s.data, at, b, 8)
    <3>1. ASSUME NEW k \in 1..8 PROVE s.data[at + k - 1] = b[k]
      <4>1. at + k - 1 \in 0..(8 * Room - 1) /\ at + k - 1 < n
        BY <1>1, <1>8, RoomAssumption
      <4>2. at + k - 1 + 1 = 8 * j - 7 + k - 1 OBVIOUS
      <4>3. m[at + k - 1] = bytes[at + k - 1 + 1] BY <4>1 DEF m
      <4> QED BY <1>4, <2>2, <4>2, <4>3
    <3> QED BY <3>1 DEF Holds
  <2> HIDE DEF b, s
  <2>4. at \in Nat /\ at + 8 <= s.used BY <1>1, <1>4, <1>8
  <2>5. InBytes(b) BY <2>2 DEF InBytes
  <2> HIDE DEF at
  <2>6. ReadValue(s, at, 8) = [ok |-> TRUE, at |-> at + 8, value |-> b]
    BY <1>4, <2>2, <2>3, <2>4, <2>5, ReadsValue
  <2>7. read = [ok |-> TRUE, at |-> at + 8, value |-> b] BY <1>6, <2>6 DEF ReadValue
  <2>8. read.ok = TRUE /\ read.at = at + 8 /\ read.value = b BY <2>7
  <2>9. at + 8 = 8 * j BY DEF at
  <2>10. r.ok = TRUE /\ r.at = at + 8 /\ r.out = [q.out EXCEPT ![name] = b]
    BY <1>7, <2>8
  <2> QED BY <1>8, <2>9, <2>10 DEF b
<1>9. CASE ~(8 * j <= n)
  <2>1. ~HasBits(s, at, 8) BY <1>1, <1>4, <1>9 DEF HasBits
  <2>2. read.ok = FALSE BY <1>6, <2>1 DEF ReadBits, Fails
  <2>3. r.ok = FALSE /\ r.out = q.out BY <1>7, <2>2
  <2> QED BY <1>9, <2>3
<1> QED BY <1>8, <1>9

\* The data of an RPC begins with the id that says so and with its own.
LEMMA Ids ==
    ASSUME NEW bytes \in Seq({0, 1}), Len(bytes) <= 8 * Room, NEW o,
           {"packetId", "rpcId"} \subseteq DOMAIN o, NEW i, i = ReadIds(bytes, o)
    PROVE  /\ i = [ok |-> i.ok, at |-> i.at, out |-> i.out] /\ i.ok \in BOOLEAN
           /\ i.ok <=> 16 <= Len(bytes) /\ Number(Byte(bytes, 1)) = 20
           /\ DOMAIN i.out = DOMAIN o
           /\ i.ok =>
                 i.out = [f \in DOMAIN o |-> IF f = "packetId" THEN Byte(bytes, 1)
                                             ELSE IF f = "rpcId" THEN Byte(bytes, 2)
                                             ELSE o[f]]
<1> DEFINE q == [ok |-> TRUE, at |-> 0, out |-> o]
           r == ReadInto(Over(bytes), q, "packetId")
           id == IfRpc(r)
           a == ReadInto(Over(bytes), id, "rpcId")
<1>1. Len(bytes) \in Nat BY LenProperties
<1>2. /\ r.ok \in BOOLEAN
      /\ r.ok <=> 8 <= Len(bytes)
      /\ r.ok => r.at = 8 /\ r.out = [o EXCEPT !["packetId"] = Byte(bytes, 1)]
      /\ ~r.ok => r.out = o
  <2>1. q.at = 8 * (1 - 1) /\ q.out = o /\ 1 \in {1, 2}
        /\ "packetId" \in {"packetId", "rpcId"}
    OBVIOUS
  <2> HIDE DEF q
  <2>2. /\ r.ok \in BOOLEAN
        /\ r.ok <=> 8 * 1 <= Len(bytes)
        /\ r.ok => r.at = 8 * 1 /\ r.out = [q.out EXCEPT !["packetId"] = Byte(bytes, 1)]
        /\ ~r.ok => r.out = q.out
    BY <2>1, ReadsId
  <2> HIDE DEF r
  <2> QED BY <2>1, <2>2
<1>3. i = IF id.ok THEN a ELSE id BY DEF ReadIds
<1>4. r = [ok |-> r.ok, at |-> r.at, out |-> r.out] BY DEF ReadInto
<1> HIDE DEF r
<1>5. id.ok = (r.ok /\ Number(r.out.packetId) = 20) /\ id.at = r.at /\ id.out = r.out
      /\ id = [ok |-> id.ok, at |-> id.at, out |-> id.out]
  BY <1>4 DEF IfRpc
<1> HIDE DEF id
<1>6. r.ok => r.out["packetId"] = Byte(bytes, 1) BY <1>2
<1>7. CASE ~id.ok
  <2>1. i = id /\ i.out = r.out BY <1>3, <1>5, <1>7
  <2>2. DOMAIN r.out = DOMAIN o BY <1>2
  <2>3. ASSUME 16 <= Len(bytes), Number(Byte(bytes, 1)) = 20 PROVE FALSE
    <3>1. r.ok BY <1>1, <1>2, <2>3
    <3> QED BY <1>5, <1>6, <1>7, <2>3, <3>1
  <2>4. i.ok = FALSE BY <1>5, <1>7, <2>1
  <2>5. DOMAIN i.out = DOMAIN o BY <2>1, <2>2
  <2>6. i = [ok |-> i.ok, at |-> i.at, out |-> i.out] BY <1>5, <2>1
  <2> QED BY <2>3, <2>4, <2>5, <2>6
<1>8. CASE id.ok
  <2>1. r.ok /\ Number(Byte(bytes, 1)) = 20 BY <1>5, <1>6, <1>8
  <2>2. id.at = 8 * (2 - 1) /\ 2 \in {1, 2} /\ "rpcId" \in {"packetId", "rpcId"}
    BY <1>2, <1>5, <2>1
  <2>3. /\ a.ok \in BOOLEAN
        /\ a.ok <=> 8 * 2 <= Len(bytes)
        /\ a.ok => a.at = 8 * 2 /\ a.out = [id.out EXCEPT !["rpcId"] = Byte(bytes, 2)]
        /\ ~a.ok => a.out = id.out
    BY <2>2, ReadsId
  <2>9. a = [ok |-> a.ok, at |-> a.at, out |-> a.out] BY DEF ReadInto
  <2> HIDE DEF a
  <2>4. i = a BY <1>3, <1>8
  <2>5. id.out = [o EXCEPT !["packetId"] = Byte(bytes, 1)] BY <1>2, <1>5, <2>1
  <2>6. i.ok \in BOOLEAN /\ (i.ok <=> 16 <= Len(bytes) /\ Number(Byte(bytes, 1)) = 20)
    BY <2>1, <2>3, <2>4
  <2>7. DOMAIN i.out = DOMAIN o BY <2>3, <2>4, <2>5
  <2>8. ASSUME i.ok
        PROVE  i.out = [f \in DOMAIN o |-> IF f = "packetId" THEN Byte(bytes, 1)
                                           ELSE IF f = "rpcId" THEN Byte(bytes, 2)
                                           ELSE o[f]]
    BY <2>3, <2>4, <2>5, <2>8
  <2>10. i = [ok |-> i.ok, at |-> i.at, out |-> i.out] BY <2>4, <2>9
  <2> QED BY <2>6, <2>7, <2>8, <2>10
<1> QED BY <1>7, <1>8

\* A call accepts just what it has to.
Accepted(d, bytes) ==
    bytes = DatagramSize(d) /\ Len(d.data) > 0 /\ (IsSplit(d) \/ IsRpc(d))

\* The data of a fragment or of an RPC, and its ids.
PayloadOf(d) == IF IsSplit(d) THEN d.data ELSE SubSeq(d.data, 17, Len(d.data))
IdsOf(d) == IF IsSplit(d) THEN <<Zeros(8), Zeros(8)>>
            ELSE <<Byte(d.data, 1), Byte(d.data, 2)>>

\* What it leaves in the record o it was given.
Delivered(d, o, x) ==
    /\ \A f \in Fields : Present(f, d) => x[f] = d[f]
    /\ <<x.packetId, x.rpcId>> = IdsOf(d)
    /\ x.payload = PayloadOf(d) \/ (PayloadOf(d) = <<>> /\ x.payload = o.payload)

\* The data that was read, of a fragment and of anything else.
LEMMA OfFragment ==
    ASSUME NEW d \in Datagrams, IsSplit(d), NEW o,
           NEW r, r = [ok |-> r.ok, at |-> r.at, out |-> r.out],
           DOMAIN r.out = Names \cup {"payload"},
           \A f \in Fields : Present(f, d) => r.out[f] = d[f],
           NEW x, x = Fragment(d.data, r)
    PROVE  x.ok = r.ok /\ DOMAIN x.out = Names \cup {"payload"} /\ Delivered(d, o, x.out)
<1> DEFINE o1 == [r.out EXCEPT !["payload"] = d.data]
           o2 == [[o1 EXCEPT !["packetId"] = Zeros(8)] EXCEPT !["rpcId"] = Zeros(8)]
<1>1. x.ok = r.ok /\ x.out = o2
  <2>1. x = [r EXCEPT !.out = o2] BY DEF Fragment, WithData
  <2> HIDE DEF o2
  <2> QED BY <2>1
<1>2. {"packetId", "rpcId"} \subseteq Names /\ Names \cap {"payload"} = {}
      /\ "packetId" # "rpcId"
  BY AllFields DEF Names, FieldNames
<1>3. /\ DOMAIN x.out = Names \cup {"payload"}
      /\ x.out["payload"] = d.data /\ x.out["packetId"] = Zeros(8)
      /\ x.out["rpcId"] = Zeros(8)
      /\ \A f \in Fields : x.out[f] = r.out[f]
  <2>1. Fields \subseteq Names /\ "payload" \notin Fields /\ "packetId" \notin Fields
        /\ "rpcId" \notin Fields
    BY AllFields DEF Names, FieldNames
  <2> QED BY <1>1, <1>2, <2>1
<1> QED BY <1>1, <1>3 DEF Delivered, PayloadOf, IdsOf

\* The data of a datagram is not longer than the stream it is in.
LEMMA DataFits ==
    ASSUME NEW d \in Datagrams
    PROVE  Len(d.data) <= 8 * Room
<1>1. PICK w \in Stream : Clean(w) /\ Composed(d) = WriteAlignedBytes(w, d.data)
  BY ReadsFields
<1>2. /\ d.data \in Seq({0, 1}) /\ Len(d.data) \in Nat /\ Len(d.data) % 8 = 0
      /\ Composed(d).used <= 8 * Room
  BY SentFacts
<1>3. Composed(d).used = Filled(w.used) + Len(d.data) BY <1>1, <1>2, WritesData
<1>4. w.used \in Nat /\ Filled(w.used) \in Nat BY Fills DEF Stream
<1> QED BY <1>2, <1>3, <1>4, RoomAssumption

\* It is an RPC if it begins with both ids, the first being 20.
LEMMA OfRpc ==
    ASSUME NEW d \in Datagrams, ~IsSplit(d), Len(d.data) > 0, Len(d.data) <= 8 * Room,
           NEW o, NEW r, DOMAIN r.out = Names \cup {"payload"},
           \A f \in Fields : Present(f, d) => r.out[f] = d[f],
           r.out["payload"] = o["payload"],
           NEW x, x = Rest(d.data, ReadIds(d.data, r.out))
    PROVE  /\ x.ok \in BOOLEAN /\ (x.ok <=> IsRpc(d))
           /\ DOMAIN x.out = Names \cup {"payload"}
           /\ x.ok => Delivered(d, o, x.out)
<1> DEFINE i == ReadIds(d.data, r.out)
           v == d.data
<1>1. v \in Seq({0, 1}) /\ Len(v) \in Nat /\ Len(v) % 8 = 0 BY SentFacts
<1>2. {"packetId", "rpcId"} \subseteq Names /\ "packetId" # "rpcId" /\ "payload" \notin Names
      /\ Fields = Names \ {"packetId", "rpcId"}
  BY AllFields DEF Names, FieldNames
<1>3. /\ i = [ok |-> i.ok, at |-> i.at, out |-> i.out] /\ i.ok \in BOOLEAN
      /\ i.ok <=> 16 <= Len(v) /\ Number(Byte(v, 1)) = 20
      /\ DOMAIN i.out = DOMAIN r.out
      /\ i.ok => i.out = [f \in DOMAIN r.out |-> IF f = "packetId" THEN Byte(v, 1)
                                                 ELSE IF f = "rpcId" THEN Byte(v, 2)
                                                 ELSE r.out[f]]
  BY <1>1, <1>2, Ids
<1> HIDE DEF i
<1>4. x = IF i.ok /\ Size(v) > 2
          THEN [i EXCEPT !.out = [i.out EXCEPT !["payload"] = SubSeq(v, 17, Len(v))]]
          ELSE i
  BY DEF Rest, WithData, i
<1> HIDE DEF v
<1>5. (Size(v) >= 2 <=> 16 <= Len(v)) /\ (Size(v) > 2 <=> 17 <= Len(v))
  BY <1>1 DEF Size
<1>6. x.ok = i.ok /\ x.out = IF i.ok /\ Size(v) > 2
                             THEN [i.out EXCEPT !["payload"] = SubSeq(v, 17, Len(v))]
                             ELSE i.out
  BY <1>3, <1>4
<1>7. x.ok \in BOOLEAN /\ (x.ok <=> IsRpc(d)) BY <1>3, <1>5, <1>6 DEF IsRpc, v
<1>8. DOMAIN x.out = Names \cup {"payload"} BY <1>3, <1>6
<1>9. ASSUME x.ok PROVE Delivered(d, o, x.out)
  <2>1. \A f \in Fields : x.out[f] = r.out[f] BY <1>2, <1>3, <1>6, <1>9
  <2>2. x.out["packetId"] = Byte(v, 1) /\ x.out["rpcId"] = Byte(v, 2)
    BY <1>2, <1>3, <1>6, <1>9
  <2>3. CASE Size(v) > 2
    <3>1. x.out["payload"] = SubSeq(v, 17, Len(v)) BY <1>2, <1>3, <1>6, <1>9, <2>3
    <3> QED BY <2>1, <2>2, <3>1 DEF Delivered, PayloadOf, IdsOf, v
  <2>4. CASE ~(Size(v) > 2)
    <3>1. x.out["payload"] = o["payload"] BY <1>2, <1>3, <1>6, <1>9, <2>4
    <3>2. SubSeq(v, 17, Len(v)) = <<>>
      <4>1. Len(v) = 16
        <5>1. 16 <= Len(v) BY <1>3, <1>6, <1>9
        <5>2. ~(17 <= Len(v)) BY <1>5, <2>4
        <5> DEFINE n == Len(v)
        <5>3. n \in Nat /\ 16 <= n /\ ~(17 <= n) BY <1>1, <5>1, <5>2
        <5> HIDE DEF n
        <5>4. n = 16 BY <5>3
        <5> QED BY <5>4 DEF n
      <4>2. Len(SubSeq(v, 17, 16)) = 0 /\ SubSeq(v, 17, 16) \in Seq({0, 1})
        BY <1>1, <4>1, Part
      <4> QED BY <4>1, <4>2, EmptySeq
    <3> QED BY <2>1, <2>2, <3>1, <3>2 DEF Delivered, PayloadOf, IdsOf, v
  <2> QED BY <2>3, <2>4
<1> QED BY <1>7, <1>8, <1>9

\* One call of ExtractRPCData, for any part of a datagram and any record.
LEMMA Extraction ==
    ASSUME NEW d \in Datagrams, NEW bytes \in 0..DatagramSize(d),
           NEW o, DOMAIN o = Names \cup {"payload"},
           NEW x, x = ExtractRPCData([Sent[d] EXCEPT !.used = 8 * bytes], o)
    PROVE  /\ x.ok \in BOOLEAN /\ (x.ok <=> Accepted(d, bytes))
           /\ DOMAIN x.out = Names \cup {"payload"}
           /\ x.ok => Delivered(d, o, x.out)
<1> DEFINE c == Composed(d)
           s == [Sent[d] EXCEPT !.used = 8 * bytes]
           r == ReadFields(s, [ok |-> TRUE, at |-> 0, out |-> o])
           p == PacketData(s, r)
<1>1. /\ c \in Stream /\ c.used \in Nat /\ c.used <= 8 * Room
      /\ DatagramSize(d) \in Nat \ {0} /\ c.used = 8 * DatagramSize(d)
      /\ d.data \in Seq({0, 1}) /\ Len(d.data) \in Nat
  BY SentFacts
<1>2. Sent[d] = c BY DEF Sent
<1> HIDE DEF c
<1>3. s \in Stream /\ s.data = c.data /\ s.used = 8 * bytes BY <1>1, <1>2 DEF Stream
<1>4. /\ bytes \in Nat /\ s.used <= 8 * Room
      /\ c.used <= s.used <=> bytes = DatagramSize(d)
      /\ bytes = DatagramSize(d) => s.used # 0
  BY <1>1, <1>3, RoomAssumption
<1>5. Readable(s, d, o) BY <1>3, <1>4 DEF Readable, c
<1>6. x = IF s.used = 0 THEN [ok |-> FALSE, at |-> 0, out |-> o] ELSE Payload(p, r)
  BY DEF ExtractRPCData, WithPayload
<1> HIDE DEF s
<1>7. /\ p.ok \in BOOLEAN
      /\ p.ok <=> bytes = DatagramSize(d) /\ Len(d.data) > 0
      /\ DOMAIN r.out = Names \cup {"payload"}
      /\ r = [ok |-> r.ok, at |-> r.at, out |-> r.out]
      /\ p.ok => /\ r.ok
                 /\ p.value = d.data
                 /\ \A f \in Fields : Present(f, d) => r.out[f] = d[f]
                 /\ r.out["payload"] = o["payload"]
  <2> HIDE DEF r, p
  <2>1. r = ReadFields(s, [ok |-> TRUE, at |-> 0, out |-> o]) /\ p = PacketData(s, r)
    BY DEF r, p
  <2>2. /\ p.ok \in BOOLEAN
        /\ p.ok <=> Composed(d).used <= s.used /\ Len(d.data) > 0
        /\ DOMAIN r.out = Names \cup {"payload"}
        /\ r = [ok |-> r.ok, at |-> r.at, out |-> r.out]
        /\ p.ok => /\ r.ok
                   /\ p.value = d.data
                   /\ \A f \in Fields : Present(f, d) => r.out[f] = d[f]
                   /\ r.out["payload"] = o["payload"]
    BY <1>5, <2>1, ReadsData
  <2>3. p.ok <=> bytes = DatagramSize(d) /\ Len(d.data) > 0 BY <1>4, <2>2 DEF c
  <2> QED BY <2>2, <2>3
<1>8. CASE s.used = 0
  <2>1. x.ok = FALSE /\ x.out = o BY <1>6, <1>8
  <2>2. ~Accepted(d, bytes) BY <1>4, <1>8 DEF Accepted
  <2> QED BY <2>1, <2>2
<1> DEFINE v == d.data
<1>9. CASE s.used # 0 /\ ~p.ok
  <2>1. x = [r EXCEPT !.ok = FALSE] BY <1>6, <1>9 DEF Payload
  <2> HIDE DEF r, p
  <2>2. x.ok = FALSE /\ x.out = r.out BY <1>7, <2>1
  <2>3. ~Accepted(d, bytes) BY <1>7, <1>9 DEF Accepted
  <2> QED BY <1>7, <2>2, <2>3
<1>10. CASE s.used # 0 /\ p.ok
  <2>1. x = IF r.out.isSplitPacket = <<1>> THEN Fragment(p.value, r)
            ELSE Rest(p.value, ReadIds(p.value, r.out))
    BY <1>6, <1>10 DEF Payload
  <2> HIDE DEF r, p
  <2>2. /\ p.value = v /\ r.out["payload"] = o["payload"]
        /\ \A f \in Fields : Present(f, d) => r.out[f] = d[f]
        /\ bytes = DatagramSize(d) /\ Len(v) > 0 /\ r.ok
    BY <1>7, <1>10
  <2>3. r.out["isSplitPacket"] = d["isSplitPacket"]
    <3>1. "isSplitPacket" \in Fields /\ Present("isSplitPacket", d)
      BY AllFields DEF FieldNames, Present
    <3> QED BY <2>2, <3>1
  <2>4. Accepted(d, bytes) <=> IsSplit(d) \/ IsRpc(d) BY <2>2 DEF Accepted
  <2>5. CASE IsSplit(d)
    <3>1. x = Fragment(d.data, r) BY <2>1, <2>2, <2>3, <2>5 DEF IsSplit
    <3>2. x.ok = r.ok /\ DOMAIN x.out = Names \cup {"payload"} /\ Delivered(d, o, x.out)
      BY <1>7, <2>2, <2>5, <3>1, OfFragment
    <3> QED BY <2>2, <2>4, <2>5, <3>2
  <2>6. CASE ~IsSplit(d)
    <3>1. x = Rest(d.data, ReadIds(d.data, r.out)) BY <2>1, <2>2, <2>3, <2>6 DEF IsSplit
    <3>2. Len(d.data) <= 8 * Room BY <1>1, DataFits
    <3>3. /\ x.ok \in BOOLEAN /\ (x.ok <=> IsRpc(d))
          /\ DOMAIN x.out = Names \cup {"payload"}
          /\ x.ok => Delivered(d, o, x.out)
      BY <1>7, <2>2, <2>6, <3>1, <3>2, OfRpc
    <3> QED BY <2>4, <2>6, <3>3
  <2> QED BY <2>5, <2>6
<1> QED BY <1>7, <1>8, <1>9, <1>10

-----------------------------------------------------------------------------
\* What the calls leave behind.
DatagramInv ==
    /\ DOMAIN out = Names \cup {"payload"}
    /\ AcceptsExactlyWholeRpcs
    /\ ExtractedAsSent

\* A record that was not used before.
LEMMA FreshHas ==
    DOMAIN Fresh = Names \cup {"payload"} /\ Fresh["payload"] = <<>>
<1>1. DOMAIN Fresh = DOMAIN ItemOf \cup {"payload"} /\ Fresh["payload"] = <<>>
  BY DEF Fresh
<1>2. DOMAIN ItemOf = Names BY DEF ItemOf, Names, Fields
<1> QED BY <1>1, <1>2

\* Nothing was accepted at first.
LEMMA DatagramInvInit == DatagramInit => DatagramInv
<1> SUFFICES ASSUME DatagramInit PROVE DatagramInv OBVIOUS
<1>1. out = Fresh /\ last = None /\ result = FALSE BY DEF DatagramInit
<1>2. DOMAIN out = Names \cup {"payload"} BY <1>1, FreshHas
<1> QED BY <1>1, <1>2 DEF DatagramInv, AcceptsExactlyWholeRpcs, ExtractedAsSent

\* A call for any part of any datagram.
LEMMA ExtractKeeps ==
    ASSUME DatagramInv, NEW d \in Datagrams, NEW reuse \in BOOLEAN,
           NEW bytes \in 0..DatagramSize(d), Extract(d, bytes, reuse)
    PROVE  DatagramInv'
<1> DEFINE o == IF reuse THEN out ELSE Fresh
           x == ExtractRPCData([Sent[d] EXCEPT !.used = 8 * bytes], o)
<1>1. /\ out' = x.out /\ result' = x.ok
      /\ last' = [datagram |-> d, bytes |-> bytes, reuse |-> reuse]
  BY DEF Extract
<1>2. DOMAIN o = Names \cup {"payload"} /\ (~reuse => o.payload = <<>>)
  BY FreshHas DEF DatagramInv
<1> HIDE DEF o
<1>3. /\ x.ok \in BOOLEAN /\ (x.ok <=> Accepted(d, bytes))
      /\ DOMAIN x.out = Names \cup {"payload"}
      /\ x.ok => Delivered(d, o, x.out)
  BY <1>2, Extraction
<1> HIDE DEF x
<1>4. /\ last'.datagram = d /\ last'.bytes = bytes /\ last'.reuse = reuse
      /\ last' # None
  BY <1>1 DEF None
<1>5. AcceptsExactlyWholeRpcs' BY <1>1, <1>3, <1>4 DEF AcceptsExactlyWholeRpcs, Accepted
<1>6. ExtractedAsSent'
  <2> SUFFICES ASSUME result'
               PROVE  /\ \A f \in Fields : Present(f, d) => out'[f] = d[f]
                      /\ <<out'.packetId, out'.rpcId>> = IdsOf(d)
                      /\ out'.payload = PayloadOf(d) \/ (reuse /\ PayloadOf(d) = <<>>)
    BY <1>4 DEF ExtractedAsSent, IdsOf, PayloadOf
  <2>1. Delivered(d, o, out') BY <1>1, <1>3
  <2> QED BY <1>2, <2>1 DEF Delivered
<1> QED BY <1>1, <1>3, <1>4, <1>5, <1>6 DEF DatagramInv

\* The inductive invariant, for any datagrams of any length and any number of calls.
THEOREM DatagramInvariance == DatagramSpec => []DatagramInv
<1>1. DatagramInit => DatagramInv BY DatagramInvInit
<1>2. DatagramInv /\ [DatagramNext]_datagramVars => DatagramInv'
  <2> SUFFICES ASSUME DatagramInv, [DatagramNext]_datagramVars PROVE DatagramInv' OBVIOUS
  <2>1. CASE DatagramNext BY <2>1, ExtractKeeps DEF DatagramNext
  <2>2. CASE UNCHANGED datagramVars
    BY <2>2 DEF datagramVars, DatagramInv, AcceptsExactlyWholeRpcs, ExtractedAsSent
  <2> QED BY <2>1, <2>2
<1> QED BY <1>1, <1>2, PTL DEF DatagramSpec

\* ExtractRPCData (te-helper.cpp) accepts a datagram if all of it arrived, it has data,
\* and that is a fragment or an RPC; any other it refuses, wherever it ends.
THEOREM AcceptsJustWholeRpcs == DatagramSpec => []AcceptsExactlyWholeRpcs
<1>1. DatagramInv => AcceptsExactlyWholeRpcs BY DEF DatagramInv
<1> QED BY <1>1, DatagramInvariance, PTL

\* What ExtractRPCData accepts is in the record as the sender put it in the datagram,
\* each field it carries, the ids and the data, whatever the record held before; an RPC
\* without data leaves the payload of the call before.
THEOREM ArrivesAsSent == DatagramSpec => []ExtractedAsSent
<1>1. DatagramInv => ExtractedAsSent BY DEF DatagramInv
<1> QED BY <1>1, DatagramInvariance, PTL
=============================================================================
