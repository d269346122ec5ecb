--------------------------- MODULE BitStreamBuffer ---------------------------
(***************************************************************************)
(* The memory of one RakNet::BitStream (BitStream.cpp): where its bytes    *)
(* live, how many there are, and how many the stream records.  Bytes have  *)
(* no values here: a prefix of the storage holds defined content.          *)
(*                                                                         *)
(* malloc and realloc are external and may fail.  A caller moves the write *)
(* offset back, never forward: SetWriteOffset warns of itself, and no code *)
(* here does.                                                              *)
(***************************************************************************)
EXTENDS Integers

CONSTANTS
    StackBytes,     \* BITSTREAM_STACK_ALLOCATION_SIZE, 256 in the code
    Lengths,        \* byte lengths streams are constructed with
    Writes,         \* bit counts of single writes
    MaxBits         \* bound: the largest write offset

ASSUME BufferAssumption ==
    /\ StackBytes \in Nat
    /\ Lengths \subseteq Nat
    /\ Writes \subseteq Nat \ {0}
    /\ MaxBits \in Nat

VARIABLES
    storage,        \* what data points to
    copyData,
    used,           \* numberOfBitsUsed: the write offset
    recorded,       \* numberOfBitsAllocated
    real,           \* bytes there really are behind data
    valid,          \* history: bytes from the start with defined content
    mallocFailed,   \* history: an allocation has failed
    small,          \* history: a write to the heap ended where the stack buffer
                    \* would have held it
    given,          \* history: bits of the caller's buffer the stream was told of
    touched,        \* history: it has been written to since
    wanted,         \* history: bits a write wanted that the caller's buffer,
                    \* as recorded, does not have
    status

past == <<mallocFailed, small, given, touched, wanted>>
vars == <<storage, copyData, used, recorded, real, valid, past, status>>

TypeOK ==
    /\ storage \in {"stack", "heap", "foreign", "null", "freed"}
    /\ copyData \in BOOLEAN
    /\ used \in Nat /\ recorded \in Nat /\ real \in Nat
    /\ valid \in Nat
    /\ mallocFailed \in BOOLEAN /\ small \in BOOLEAN
    /\ given \in Nat /\ touched \in BOOLEAN /\ wanted \in Nat
    /\ status \in {"alive", "destroyed", "aborted", "corrupted"}

Bytes(bits) == (bits + 7) \div 8        \* BITS_TO_BYTES
Larger(a, b) == IF a > b THEN a ELSE b
Smaller(a, b) == IF a < b THEN a ELSE b

-----------------------------------------------------------------------------
\* The constructors.
Made(where, copy, bits, room, bytes, defined, failed) ==
    /\ storage = where /\ copyData = copy
    /\ used = bits
    /\ recorded = room /\ real = bytes /\ valid = defined
    /\ mallocFailed = failed /\ small = FALSE
    /\ given = (IF where = "foreign" THEN room ELSE 0)
    /\ touched = FALSE /\ wanted = 0
    /\ status = "alive"

MadeEmpty == Made("stack", TRUE, 0, 8 * StackBytes, StackBytes, 0, FALSE)

MadeSized(n) ==
    IF n <= StackBytes
    THEN MadeEmpty
    ELSE \/ Made("heap", TRUE, 0, 8 * n, n, 0, FALSE)
         \/ Made("null", TRUE, 0, 8 * n, 0, 0, TRUE)

\* The copy goes to the stack when shorter than it: not when as long.
MadeCopy(n) ==
    IF n = 0 THEN Made("null", TRUE, 0, 0, 0, 0, FALSE)
    ELSE IF n < StackBytes
    THEN Made("stack", TRUE, 8 * n, 8 * StackBytes, StackBytes, n, FALSE)
    ELSE \/ Made("heap", TRUE, 8 * n, 8 * n, n, n, FALSE)
         \/ Made("null", TRUE, 8 * n, 0, 0, 0, TRUE)

\* The caller's buffer may have room behind the bytes the stream is told of.
MadeOver(n, room) == Made("foreign", FALSE, 8 * n, 8 * n, n + room, n, FALSE)

Init == \/ MadeEmpty
        \/ \E n \in Lengths : MadeSized(n) \/ MadeCopy(n)
        \/ \E n \in Lengths, room \in {0, 1} : MadeOver(n, room)

-----------------------------------------------------------------------------
Alive == status = "alive"

\* Mutants: off by one at the stack's size; whole bytes only are moved.
NearlyFitsStack(bytes) == bytes <= StackBytes + 1
WholeBytes(b) == b \div 8

FitsStack(bytes) == bytes <= StackBytes
MovedBytes(b) == Bytes(b)

\* The bytes still defined after AddBitsAndReallocate asked for `amount`.
Kept(amount) ==
    IF storage # "stack" THEN Smaller(valid, amount)
    ELSE IF FitsStack(amount) THEN valid
    ELSE Smaller(valid, MovedBytes(recorded))

\* What a write of m bits makes of the storage it is left with.  (A gap in
\* front of the write offset stays a gap.)
Fill(m, bytes, kept) ==
    /\ real' = bytes
    /\ used' = used + m
    /\ valid' = IF Bytes(used) <= kept THEN Larger(kept, Bytes(used + m)) ELSE kept
    /\ status' = IF Bytes(used + m) <= bytes THEN status ELSE "corrupted"
    /\ UNCHANGED copyData

\* AddBitsAndReallocate(n) finds room; what it records is what is needed now,
\* even when the storage is larger.  The caller then writes m <= n bits.
WriteInRoom(n, m) ==
    /\ Alive
    /\ used + n <= recorded
    /\ recorded' = used + n
    /\ small' = (small \/ (storage = "heap" /\ FitsStack(Bytes(used + n))))
    /\ Fill(m, real, valid)
    /\ touched' = (touched \/ storage = "foreign")
    /\ UNCHANGED <<storage, mallocFailed, given, wanted>>

Doubled(n) == 2 * (used + n)
Grows(n) == Alive /\ used + n > recorded

\* Twice what is needed: on the stack, or in a block malloc or realloc gives.
WriteGrowing(n, m) ==
    LET amount == Bytes(Doubled(n)) IN
    /\ Grows(n)
    /\ storage # "foreign"
    /\ recorded' = Doubled(n)
    /\ IF storage = "stack" /\ FitsStack(amount)
       THEN UNCHANGED storage /\ Fill(m, real, Kept(amount))
       ELSE storage' = "heap" /\ Fill(m, amount, Kept(amount))
    /\ UNCHANGED past

\* malloc or realloc fails: nothing is recorded, the caller writes all the same.
WriteUnbacked(n, m) ==
    /\ Grows(n)
    /\ storage # "foreign"
    /\ ~(storage = "stack" /\ FitsStack(Bytes(Doubled(n))))
    /\ mallocFailed' = TRUE
    /\ Fill(m, real, valid)
    /\ UNCHANGED <<storage, recorded, small, given, touched, wanted>>

\* The caller's buffer: a Debug build's assertion fails; a Release build has
\* none, and gives realloc a pointer that is not its own.
WriteForeign(n) ==
    /\ Grows(n)
    /\ storage = "foreign"
    /\ wanted' = used + n
    /\ status' \in {"aborted", "corrupted"}
    /\ UNCHANGED <<storage, copyData, used, recorded, real, valid, mallocFailed,
                    small, given, touched>>

SetOffset(offset) ==
    /\ Alive
    /\ used' = offset
    /\ UNCHANGED <<storage, copyData, recorded, real, valid, past, status>>

Reset == SetOffset(0)
ResetWritePointer == SetOffset(0)

AlignWriteToByteBoundary == SetOffset(8 * Bytes(used))

SetWriteOffset(offset) == SetOffset(offset)

\* AssertCopyData: a stream over a foreign buffer gets a copy of its own.
AssertCopyData ==
    /\ Alive
    /\ ~copyData
    /\ copyData' = TRUE
    /\ storage' = IF recorded = 0 THEN "null" ELSE "heap"
    /\ real' = Bytes(recorded)
    /\ valid' = Smaller(valid, Bytes(recorded))
    /\ given' = 0 /\ touched' = FALSE
    /\ UNCHANGED <<used, recorded, mallocFailed, small, wanted, status>>

\* ... whose malloc fails: memcpy to the null pointer.
AssertCopyDataFails ==
    /\ Alive
    /\ ~copyData /\ recorded > 0
    /\ copyData' = TRUE
    /\ mallocFailed' = TRUE
    /\ status' = "aborted"
    /\ UNCHANGED <<storage, used, recorded, real, valid, small, given, touched,
                    wanted>>

\* The caller knows of more room behind the bytes it gave.
SetNumberOfBitsAllocated(bits) ==
    /\ Alive
    /\ storage = "foreign"
    /\ recorded' = bits /\ given' = bits /\ touched' = FALSE
    /\ UNCHANGED <<storage, copyData, used, real, valid, mallocFailed, small, wanted,
                    status>>

\* "For internal use": the stream gets other data, as long as it has recorded.
SetData ==
    /\ Alive
    /\ storage' = "foreign" /\ copyData' = FALSE
    /\ real' = Bytes(recorded) /\ valid' = Bytes(recorded)
    /\ status' = IF storage = "foreign" /\ copyData THEN "corrupted" ELSE status
    /\ given' = recorded /\ touched' = FALSE
    /\ UNCHANGED <<used, recorded, mallocFailed, small, wanted>>

\* Mutant: the size compared is not the one in bits.
FreesLarge == copyData /\ storage # "stack" /\ recorded > 64 * StackBytes
Frees == copyData /\ storage # "stack" /\ recorded > 8 * StackBytes

\* (A heap block as long as the stack buffer, or whose record is lower, stays.)
Destroy ==
    /\ Alive
    /\ status' = IF Frees /\ storage = "foreign" THEN "corrupted" ELSE "destroyed"
    /\ storage' = IF Frees THEN "freed" ELSE storage
    /\ UNCHANGED <<copyData, used, recorded, real, valid, past>>

Next ==
    \/ \E n \in Writes : \E m \in {0, n} :
          /\ used + n <= MaxBits
          /\ WriteInRoom(n, m) \/ WriteGrowing(n, m) \/ WriteUnbacked(n, m)
    \/ \E n \in Writes : WriteForeign(n)
    \/ Reset \/ ResetWritePointer \/ AlignWriteToByteBoundary
    \/ \E offset \in 0..used : SetWriteOffset(offset)
    \/ AssertCopyData \/ AssertCopyDataFails
    \/ \E bits \in recorded..8 * real : SetNumberOfBitsAllocated(bits)
    \/ SetData \/ Destroy

Spec == Init /\ [][Next]_vars

-----------------------------------------------------------------------------
(* No write lands outside the storage behind data, through any sequence of    *)
(* rewinds and writes that record less than there is, and realloc and the     *)
(* destructor get nothing but what the stream allocated, with two exceptions. *)
(* malloc fails: then the write that asked for the room overruns what there   *)
(* was.  And in the caller's buffer a write wants more than the record shows, *)
(* which a Debug build's assertion stops: either more than the caller gave,   *)
(* or no more than that, and it is not the first write to what was given,     *)
(* each of which leaves a record of no more than itself.                      *)
MemoryIsSafe ==
    status \in {"aborted", "corrupted"} =>
        \/ mallocFailed
        \/ /\ storage = "foreign" /\ ~copyData
           /\ wanted > recorded
           /\ wanted > given \/ touched

(* What the stream counts as written is there to be read: every byte below    *)
(* the write offset lies in the storage and has content, also after the move  *)
(* from the stack to the heap, which trusts the recorded size.                *)
UsedIsDefined ==
    /\ TypeOK
    /\ (status = "alive" /\ ~mallocFailed) =>
           Bytes(used) <= valid /\ valid <= real /\ Bytes(recorded) <= real

(* The destructor frees the block the stream has allocated, though the only   *)
(* sign that it has one is the recorded size: unless the block is no longer   *)
(* than the stack buffer, or a write that ended below that, the first one or  *)
(* one after a rewind, lowered the record of a longer one.                    *)
LargeBlocksAreFreed ==
    (status = "destroyed" /\ storage = "heap") => real <= StackBytes \/ small

=============================================================================
