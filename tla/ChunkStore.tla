----------------------------- MODULE ChunkStore -----------------------------
(***************************************************************************)
(* How a chunkserver stores one chunk: the chunk file and its size in      *)
(* memory (chunkserver/storage), the checksums of its blocks in memory and *)
(* in a file of their own (chunkserver/checksum), and the operations of    *)
(* Chunkserver, each under its io_mutex_.  Operations can fail half-way;   *)
(* a crash half-way leaves what a failure leaves, followed by a Restart.   *)
(*                                                                         *)
(* A chunk is a sequence of bytes out of a small set; blocks are short.    *)
(* The checksum of a block is the block itself: that CRC32 tells two       *)
(* different blocks apart is assumed.                                      *)
(***************************************************************************)
EXTENDS Integers, Sequences

CONSTANTS
  Byte,       \* what is written
  Zero,       \* what fills a hole in a file
  BlockSize,  \* kChecksumBlockSize
  ChunkSize,  \* kChunkSize
  MaxLength,  \* bound on the length of a write
  Holes,      \* whether writes begin past the end of the chunk
  Fault,      \* what can go wrong: "write", "persist", "remove", "unsum"
  MaxFaults   \* bound on how often each of them does

ASSUME StoreAssumption ==
  /\ BlockSize \in Nat \ {0} /\ ChunkSize \in Nat /\ MaxLength \in Nat
  /\ Holes \in BOOLEAN
  /\ Fault \subseteq {"write", "persist", "remove", "unsum"}
  /\ MaxFaults \in Nat

VARIABLES
  chunk,     \* the chunk on the chunkserver
  damaged,   \* blocks that an operation which failed was to change
  faults     \* how often each kind of fault has happened

vars == <<chunk, damaged, faults>>

Unit == Byte \cup {Zero}
Block == Seq(Unit)

\* No such file, and the size of a chunk that is not open.
None == -1

\* A checksum that no block has (ChecksumBlock's default).
NoSum == <<>>

Chunk ==
  [exists : BOOLEAN,    \* whether there is a chunk file,
   file : Seq(Unit),    \* and what is in it
   size : Nat \cup {None},   \* size_ of the open chunk
   sums : Seq(Block),   \* checksums_, empty when the chunk has no entry
   saved : Seq(Block)]  \* the checksum file, empty when there is none

NoChunk ==
  [exists |-> FALSE, file |-> <<>>, size |-> None, sums |-> <<>>,
   saved |-> <<>>]

TypeOK ==
  /\ chunk \in Chunk
  /\ Len(chunk.file) <= ChunkSize
  /\ chunk.size <= Len(chunk.file)
  /\ damaged \subseteq Nat
  /\ faults \in [Fault -> Nat]

Init ==
  /\ chunk = NoChunk
  /\ damaged = {}
  /\ faults = [f \in Fault |-> 0]

-----------------------------------------------------------------------------
(* Blocks and bytes.                                                       *)

Least(m, n) == IF m <= n THEN m ELSE n
Most(m, n) == IF m >= n THEN m ELSE n

\* ExpectedBlockCountLocked.
Blocks(size) == (size + BlockSize - 1) \div BlockSize

\* The block that the byte at an offset belongs to, counted from 1.
BlockAt(offset) == offset \div BlockSize + 1

\* The blocks that a write of n bytes touches.
Touched(offset, n) == BlockAt(offset)..BlockAt(offset + n - 1)

\* Block b of a file read as `size' bytes.
Content(file, size, b) ==
  SubSeq(file, (b - 1) * BlockSize + 1, Least(b * BlockSize, size))

\* A file after data has been written at an offset.
Overwritten(file, offset, data) ==
  [i \in 1..Most(Len(file), offset + Len(data)) |->
     IF i \in offset + 1..offset + Len(data) THEN data[i - offset]
     ELSE IF i <= Len(file) THEN file[i] ELSE Zero]

\* A file cut or extended to n bytes.
Resized(file, n) == [i \in 1..n |-> IF i <= Len(file) THEN file[i] ELSE Zero]

IsOpen(c) == c.size # None

\* Variant with a fault: only the block the write begins in.
RecomputedFirst(c, blocks) ==
  [c EXCEPT !.sums = [b \in 1..Blocks(c.size) |->
     IF b \in blocks /\ \A e \in blocks : b <= e
     THEN Content(c.file, c.size, b)
     ELSE IF b <= Len(c.sums) THEN c.sums[b] ELSE NoSum]]

\* The checksums of some blocks computed from the file, the vector resized.
Recomputed(c, blocks) ==
  [c EXCEPT !.sums = [b \in 1..Blocks(c.size) |->
     IF b \in blocks THEN Content(c.file, c.size, b)
     ELSE IF b <= Len(c.sums) THEN c.sums[b] ELSE NoSum]]

AllRecomputed(c) == Recomputed(c, 1..Blocks(c.size))

\* The checksum file replaced by the checksums in memory, or removed.
Persisted(c) == [c EXCEPT !.saved = c.sums]

\* VerifyChunkRange, for one block of the open chunk.
Verified(c, b) ==
  b <= Len(c.sums) /\ c.sums[b] = Content(c.file, c.size, b)

GoesWrong(fault) ==
  /\ fault \in Fault
  /\ faults[fault] < MaxFaults
  /\ faults' = [faults EXCEPT ![fault] = @ + 1]

\* The blocks the file has beyond the size in memory: a write that failed
\* after some bytes leaves them, and they appear at the next restart.
Beyond(c) ==
  IF c.size < Len(c.file) THEN BlockAt(c.size)..Blocks(Len(c.file)) ELSE {}

-----------------------------------------------------------------------------
(* The operations of a chunkserver.                                        *)

CreateChunk ==
  /\ ~IsOpen(chunk) /\ ~chunk.exists
  /\ chunk' = [chunk EXCEPT !.exists = TRUE, !.file = <<>>, !.size = 0]
  /\ UNCHANGED <<damaged, faults>>

\* Variant with a fault: the length is forgotten.
BeginsInside(offset, data) == data # <<>> /\ offset <= ChunkSize

\* A write stays within the chunk.
Fits(offset, data) == data # <<>> /\ offset + Len(data) <= ChunkSize

\* The bytes, then the size, then the checksums, then their file.
WriteChunk(offset, data) ==
  LET touched == Touched(offset, Len(data))
      written == [chunk EXCEPT !.file = Overwritten(@, offset, data),
                               !.size = Most(@, offset + Len(data))]
      summed == Recomputed(written, touched)
  IN  /\ IsOpen(chunk)
      /\ Fits(offset, data)
      /\ \/ /\ chunk' = Persisted(summed)
            /\ damaged' = (damaged \ touched) \cup Beyond(summed)
            /\ UNCHANGED faults
         \/ /\ chunk' = summed
            /\ damaged' = damaged \cup touched
            /\ GoesWrong("persist")
         \/ /\ \E n \in 1..Len(data) - 1 :
                 chunk' = [chunk EXCEPT
                   !.file = Overwritten(@, offset, SubSeq(data, 1, n))]
            /\ damaged' = damaged \cup touched
            /\ GoesWrong("write")

\* Variant with a fault: the checksums are left as they were.
TruncateChunkOnly(n) ==
  /\ IsOpen(chunk) /\ n <= ChunkSize
  /\ chunk' = [chunk EXCEPT !.file = Resized(@, n), !.size = n]
  /\ UNCHANGED <<damaged, faults>>

TruncateChunk(n) ==
  LET cut == [chunk EXCEPT !.file = Resized(@, n), !.size = n]
      summed == AllRecomputed(cut)
      changed == BlockAt(Least(chunk.size, n))..Blocks(n)
  IN  /\ IsOpen(chunk) /\ n <= ChunkSize
      /\ \/ /\ chunk' = Persisted(summed)
            /\ damaged' = {}
            /\ UNCHANGED faults
         \/ /\ chunk' = summed
            /\ IF n = 0
               THEN GoesWrong("unsum") /\ chunk.saved # <<>> /\ damaged' = {}
               ELSE GoesWrong("persist") /\ damaged' = damaged \cup changed

\* The chunk file is removed, then the checksums and their file.  A chunk
\* whose file cannot be removed is closed nevertheless.
DeleteChunk ==
  LET gone == [NoChunk EXCEPT !.saved = chunk.saved]
  IN  /\ chunk.exists
      /\ \/ /\ chunk' = NoChunk
            /\ damaged' = {}
            /\ UNCHANGED faults
         \/ /\ chunk' = gone /\ chunk.saved # <<>>
            /\ damaged' = {}
            /\ GoesWrong("unsum")
         \/ /\ chunk' = [chunk EXCEPT !.size = None]
            /\ UNCHANGED damaged
            /\ GoesWrong("remove")

\* Checksums are computed only when there are none in memory.
OpenChunk ==
  LET opened == IF IsOpen(chunk) THEN chunk
                ELSE [chunk EXCEPT !.size = Len(chunk.file)]
      summed == AllRecomputed(opened)
  IN  /\ chunk.exists
      /\ IF chunk.sums # <<>> \/ opened.size = 0
         THEN chunk' = opened /\ UNCHANGED faults
         ELSE \/ chunk' = Persisted(summed) /\ UNCHANGED faults
              \/ chunk' = summed /\ GoesWrong("persist")
      /\ UNCHANGED damaged

\* Reading no bytes passes the verification of a chunk that is not open, and
\* opens it without a look at its checksums.
ReadNothing ==
  /\ ~IsOpen(chunk) /\ chunk.exists
  /\ chunk' = [chunk EXCEPT !.size = Len(chunk.file)]
  /\ UNCHANGED <<damaged, faults>>

\* What ChunkStorage::Initialize and then ChecksumManager::Initialize make of
\* the files: checksums are taken from their file when it has one for each
\* block, and computed from the chunk otherwise.
Initialized(c) ==
  LET opened == [c EXCEPT !.size = Len(c.file), !.sums = c.saved]
  IN  IF ~c.exists THEN [c EXCEPT !.size = None, !.sums = <<>>]
      ELSE IF Len(c.saved) = Blocks(Len(c.file)) THEN opened
      ELSE Persisted(AllRecomputed(opened))

Restart ==
  /\ chunk' = Initialized(chunk)
  /\ UNCHANGED <<damaged, faults>>

\* Where a caller lets a write begin.
MayBegin(offset) == Holes \/ offset <= chunk.size

Next ==
  \/ CreateChunk \/ DeleteChunk \/ OpenChunk \/ ReadNothing \/ Restart
  \/ \E n \in 0..ChunkSize : TruncateChunk(n)
  \/ \E offset \in 0..ChunkSize, n \in 1..MaxLength :
       \E data \in [1..n -> Byte] : MayBegin(offset) /\ WriteChunk(offset, data)

Spec == Init /\ [][Next]_vars

-----------------------------------------------------------------------------
(* Properties.                                                             *)

\* A block of an open chunk can be read unless an operation that failed was to
\* change it: no failure, restart, truncation or deletion, and no later
\* write, makes the checksums of another block disagree with its bytes.
DamageContained ==
  IsOpen(chunk) =>
    \A b \in 1..Blocks(chunk.size) : b \notin damaged => Verified(chunk, b)

\* As long as nothing has failed, a restart finds the chunk as it was: the
\* checksums it loads or computes are those in memory, and so is the size.
RestartChangesNothing ==
  ((\A f \in Fault : faults[f] = 0) /\ IsOpen(chunk)) =>
    Initialized(chunk) = chunk

=============================================================================
