-------------------------- MODULE ChunkStoreProofs --------------------------
(***************************************************************************)
(* For any sizes of blocks and chunks, any data and any number of          *)
(* failures: which blocks an operation that fails can make unreadable, and *)
(* that a restart without failures finds the chunk as it was left.         *)
(***************************************************************************)
EXTENDS ChunkStore, SequenceTheorems, TLAPS

-----------------------------------------------------------------------------
(* Arithmetic of blocks.                                                   *)

\* Division by the size of a block.
LEMMA Division ==
  ASSUME NEW m \in Nat
  PROVE  /\ m \div BlockSize \in Nat
         /\ (m \div BlockSize) * BlockSize <= m
         /\ m < (m \div BlockSize + 1) * BlockSize
<1>1. BlockSize \in Nat \ {0}
  BY StoreAssumption
<1>2. m \div BlockSize \in Nat
  BY <1>1
<1>3. m = (m \div BlockSize) * BlockSize + (m % BlockSize)
  BY <1>1
<1>4. m % BlockSize \in 0..(BlockSize - 1)
  BY <1>1
<1> QED BY <1>1, <1>2, <1>3, <1>4

\* Multiplication by it.
LEMMA Multiplication ==
  ASSUME NEW m \in Int, NEW n \in Int, m <= n
  PROVE  m * BlockSize <= n * BlockSize /\ m * BlockSize \in Int
BY StoreAssumption

\* A file of n bytes has the blocks that begin before its end.
LEMMA BlocksCount ==
  ASSUME NEW n \in Nat
  PROVE  /\ Blocks(n) \in Nat
         /\ \A b \in Nat \ {0} : b <= Blocks(n) <=> (b - 1) * BlockSize < n
<1> DEFINE q == Blocks(n)
<1>1. BlockSize \in Nat \ {0} /\ n + BlockSize - 1 \in Nat
  BY StoreAssumption
<1>2. /\ q \in Nat /\ q * BlockSize <= n + BlockSize - 1
      /\ n + BlockSize - 1 < (q + 1) * BlockSize
  BY <1>1, Division DEF Blocks
<1>3. ASSUME NEW b \in Nat \ {0}, b <= q PROVE (b - 1) * BlockSize < n
  <2> HIDE DEF q
  <2>1. b * BlockSize <= q * BlockSize
    BY <1>2, <1>3, Multiplication
  <2>2. (b - 1) * BlockSize = b * BlockSize - BlockSize
    BY <1>1
  <2> QED BY <1>1, <1>2, <2>1, <2>2
<1>4. ASSUME NEW b \in Nat \ {0}, ~(b <= q) PROVE ~((b - 1) * BlockSize < n)
  <2> HIDE DEF q
  <2>1. q * BlockSize <= (b - 1) * BlockSize
    BY <1>2, <1>4, Multiplication
  <2>2. (q + 1) * BlockSize = q * BlockSize + BlockSize
    BY <1>1, <1>2
  <2>3. q * BlockSize >= n
    BY <1>1, <1>2, <2>2
  <2> QED BY <1>1, <1>2, <2>1, <2>3
<1> QED BY <1>2, <1>3, <1>4

\* The block at an offset: those before it end before the offset, those after
\* it begin after the offset.
LEMMA BlockAtBounds ==
  ASSUME NEW o \in Nat
  PROVE  /\ BlockAt(o) \in Nat \ {0}
         /\ \A b \in Nat \ {0} :
              /\ b < BlockAt(o) <=> b * BlockSize <= o
              /\ b > BlockAt(o) => (b - 1) * BlockSize > o
<1> DEFINE q == o \div BlockSize
<1>1. BlockSize \in Nat \ {0}
  BY StoreAssumption
<1>2. q \in Nat /\ q * BlockSize <= o /\ o < (q + 1) * BlockSize
  BY Division
<1>3. BlockAt(o) = q + 1
  BY DEF BlockAt
<1> HIDE DEF q
<1>4. ASSUME NEW b \in Nat \ {0}, b < q + 1 PROVE b * BlockSize <= o
  <2>1. b * BlockSize <= q * BlockSize
    BY <1>2, <1>4, Multiplication
  <2> QED BY <1>1, <1>2, <2>1
<1>5. ASSUME NEW b \in Nat \ {0}, ~(b < q + 1) PROVE ~(b * BlockSize <= o)
  <2>1. (q + 1) * BlockSize <= b * BlockSize
    BY <1>2, <1>5, Multiplication
  <2> QED BY <1>1, <1>2, <2>1
<1>6. ASSUME NEW b \in Nat \ {0}, b > q + 1 PROVE (b - 1) * BlockSize > o
  <2>1. (q + 1) * BlockSize <= (b - 1) * BlockSize
    BY <1>2, <1>6, Multiplication
  <2> QED BY <1>1, <1>2, <2>1
<1> QED BY <1>2, <1>3, <1>4, <1>5, <1>6

\* A block that a write does not touch ends before it or begins after it.
LEMMA Untouched ==
  ASSUME NEW o \in Nat, NEW n \in Nat \ {0}, NEW b \in Nat \ {0},
         b \notin Touched(o, n)
  PROVE  b * BlockSize <= o \/ (b - 1) * BlockSize >= o + n
<1>1. o + n - 1 \in Nat
  OBVIOUS
<1>2. BlockAt(o) \in Nat /\ BlockAt(o + n - 1) \in Nat
  BY <1>1, BlockAtBounds
<1>3. b < BlockAt(o) \/ b > BlockAt(o + n - 1)
  BY <1>2 DEF Touched
<1>4. CASE b < BlockAt(o)
  BY <1>4, BlockAtBounds
<1>5. CASE b > BlockAt(o + n - 1)
  <2>1. (b - 1) * BlockSize > o + n - 1
    BY <1>1, <1>5, BlockAtBounds
  <2>2. (b - 1) * BlockSize \in Int
    BY Multiplication
  <2> QED BY <2>1, <2>2
<1> QED BY <1>3, <1>4, <1>5

-----------------------------------------------------------------------------
(* Files and their blocks.                                                 *)

\* What a write makes of a file.
LEMMA OverwrittenFile ==
  ASSUME NEW file \in Seq(Unit), NEW o \in Nat, NEW data \in Seq(Byte)
  PROVE  /\ Overwritten(file, o, data) \in Seq(Unit)
         /\ Len(Overwritten(file, o, data)) = Most(Len(file), o + Len(data))
         /\ \A i \in 1..Len(file) : i \notin o + 1..o + Len(data) =>
              Overwritten(file, o, data)[i] = file[i]
<1> DEFINE n == Most(Len(file), o + Len(data))
           new == Overwritten(file, o, data)
<1>1. n \in Nat /\ Len(file) <= n /\ Len(data) \in Nat
  BY DEF Most
<1>2. new = [i \in 1..n |->
               IF i \in o + 1..o + Len(data) THEN data[i - o]
               ELSE IF i <= Len(file) THEN file[i] ELSE Zero]
  BY DEF Overwritten
<1> HIDE DEF n, new
<1>3. ASSUME NEW i \in 1..n PROVE new[i] \in Unit
  <2>1. CASE i \in o + 1..o + Len(data)
    <3>1. i - o \in 1..Len(data)
      BY <2>1, <1>1
    <3>2. data[i - o] \in Byte
      BY <3>1
    <3> QED BY <1>2, <1>3, <2>1, <3>2 DEF Unit
  <2>2. CASE i \notin o + 1..o + Len(data)
    BY <1>1, <1>2, <1>3, <2>2 DEF Unit
  <2> QED BY <2>1, <2>2
<1>4. new \in [1..n -> Unit]
  BY <1>2, <1>3
<1>5. new \in Seq(Unit) /\ Len(new) = n
  BY <1>1, <1>4
<1>6. \A i \in 1..Len(file) : i \notin o + 1..o + Len(data) =>
        new[i] = file[i]
  BY <1>1, <1>2
<1> QED BY <1>5, <1>6 DEF n, new

\* What a truncation makes of a file.
LEMMA ResizedFile ==
  ASSUME NEW file \in Seq(Unit), NEW n \in Nat
  PROVE  /\ Resized(file, n) \in Seq(Unit)
         /\ Len(Resized(file, n)) = n
         /\ \A i \in 1..Least(Len(file), n) : Resized(file, n)[i] = file[i]
<1> DEFINE new == Resized(file, n)
<1>1. new = [i \in 1..n |-> IF i <= Len(file) THEN file[i] ELSE Zero]
  BY DEF Resized
<1> HIDE DEF new
<1>2. new \in [1..n -> Unit]
  BY <1>1 DEF Unit
<1>3. new \in Seq(Unit) /\ Len(new) = n
  BY <1>2
<1>4. \A i \in 1..Least(Len(file), n) : new[i] = file[i]
  BY <1>1 DEF Least
<1> QED BY <1>3, <1>4 DEF new

\* A block read from a file is a block.
LEMMA ContentType ==
  ASSUME NEW file \in Seq(Unit), NEW size \in 0..Len(file),
         NEW b \in Nat \ {0}
  PROVE  Content(file, size, b) \in Block
<1> DEFINE m == (b - 1) * BlockSize + 1
           n == Least(b * BlockSize, size)
<1>1. m \in Int /\ n \in Int /\ m >= 1 /\ n <= Len(file)
  <2>1. 0 * BlockSize <= (b - 1) * BlockSize
    BY Multiplication
  <2>2. 0 * BlockSize = 0
    BY StoreAssumption
  <2>3. (b - 1) * BlockSize \in Int /\ b * BlockSize \in Int
    BY Multiplication
  <2> QED BY <2>1, <2>2, <2>3 DEF Least
<1> HIDE DEF m, n
<1>2. \A i \in m..n : file[i] \in Unit
  BY <1>1
<1>3. SubSeq(file, m, n) \in Seq(Unit)
  BY <1>1, <1>2, SubSeqProperties
<1> QED BY <1>3 DEF Content, Block, m, n

\* A block has the same content in two files that agree on its bytes.
LEMMA ContentSame ==
  ASSUME NEW f \in Seq(Unit), NEW g \in Seq(Unit), NEW b \in Nat \ {0},
         NEW x \in 0..Len(f), NEW y \in 0..Len(g),
         Least(b * BlockSize, x) = Least(b * BlockSize, y),
         \A i \in (b - 1) * BlockSize + 1..Least(b * BlockSize, x) :
           f[i] = g[i]
  PROVE  Content(f, x, b) = Content(g, y, b)
<1> DEFINE m == (b - 1) * BlockSize + 1
           n == Least(b * BlockSize, x)
<1>1. m \in Int /\ n \in Int /\ m >= 1 /\ n <= Len(f) /\ n <= Len(g)
  <2>1. 0 * BlockSize <= (b - 1) * BlockSize
    BY Multiplication
  <2>2. 0 * BlockSize = 0
    BY StoreAssumption
  <2>3. (b - 1) * BlockSize \in Int /\ b * BlockSize \in Int
    BY Multiplication
  <2> QED BY <2>1, <2>2, <2>3 DEF Least
<1>2. \A i \in m..n : f[i] = g[i]
  OBVIOUS
<1>3. Content(f, x, b) = SubSeq(f, m, n) /\ Content(g, y, b) = SubSeq(g, m, n)
  BY DEF Content
<1> HIDE DEF m, n
<1>4. (\A i \in m..n : f[i] \in Unit) /\ (\A i \in m..n : g[i] \in Unit)
  BY <1>1
<1>5. /\ SubSeq(f, m, n) \in Seq(Unit)
      /\ Len(SubSeq(f, m, n)) = IF m <= n THEN n - m + 1 ELSE 0
      /\ \A i \in 1..n - m + 1 : SubSeq(f, m, n)[i] = f[m + i - 1]
  BY <1>1, <1>4, SubSeqProperties
<1>6. /\ SubSeq(g, m, n) \in Seq(Unit)
      /\ Len(SubSeq(g, m, n)) = IF m <= n THEN n - m + 1 ELSE 0
      /\ \A i \in 1..n - m + 1 : SubSeq(g, m, n)[i] = g[m + i - 1]
  BY <1>1, <1>4, SubSeqProperties
<1>7. \A i \in 1..n - m + 1 : SubSeq(f, m, n)[i] = SubSeq(g, m, n)[i]
  <2> TAKE i \in 1..n - m + 1
  <2>1. m + i - 1 \in m..n
    BY <1>1
  <2> QED BY <1>2, <1>5, <1>6, <2>1
<1>8. SubSeq(f, m, n) = SubSeq(g, m, n)
  <2> DEFINE p == SubSeq(f, m, n)
             q == SubSeq(g, m, n)
  <2>1. p \in Seq(Unit) /\ q \in Seq(Unit) /\ Len(p) = Len(q)
    BY <1>5, <1>6
  <2>2. \A i \in 1..Len(p) : p[i] = q[i]
    BY <1>1, <1>5, <1>7
  <2> HIDE DEF p, q
  <2>3. p = q
    BY <2>1, <2>2, SeqEqual
  <2> QED BY <2>3 DEF p, q
<1> QED BY <1>3, <1>8

\* What computing checksums gives.
LEMMA RecomputedSums ==
  ASSUME NEW c \in Chunk, c.size \in 0..Len(c.file), NEW blocks
  PROVE  /\ Recomputed(c, blocks) = [c EXCEPT !.sums = Recomputed(c, blocks).sums]
         /\ Recomputed(c, blocks).sums \in Seq(Block)
         /\ Len(Recomputed(c, blocks).sums) = Blocks(c.size)
         /\ \A b \in 1..Blocks(c.size) :
              /\ b \in blocks =>
                   Recomputed(c, blocks).sums[b] = Content(c.file, c.size, b)
              /\ b \notin blocks /\ b <= Len(c.sums) =>
                   Recomputed(c, blocks).sums[b] = c.sums[b]
<1> DEFINE sums == [b \in 1..Blocks(c.size) |->
                      IF b \in blocks THEN Content(c.file, c.size, b)
                      ELSE IF b <= Len(c.sums) THEN c.sums[b] ELSE NoSum]
<1>1. c.file \in Seq(Unit) /\ c.sums \in Seq(Block) /\ Blocks(c.size) \in Nat
  <2>1. c.file \in Seq(Unit) /\ c.sums \in Seq(Block)
    BY DEF Chunk
  <2>2. c.size \in Nat
    BY <2>1
  <2> QED BY <2>1, <2>2, BlocksCount
<1>2. ASSUME NEW b \in 1..Blocks(c.size) PROVE sums[b] \in Block
  <2>1. Content(c.file, c.size, b) \in Block
    BY <1>1, <1>2, ContentType
  <2>2. NoSum \in Block
    BY DEF NoSum, Block
  <2>3. b <= Len(c.sums) => c.sums[b] \in Block
    BY <1>1, <1>2
  <2> QED BY <2>1, <2>2, <2>3
<1>3. sums \in Seq(Block) /\ Len(sums) = Blocks(c.size)
  <2>1. sums \in [1..Blocks(c.size) -> Block]
    BY <1>2
  <2> HIDE DEF sums
  <2> QED BY <1>1, <2>1
<1>4. \A b \in 1..Blocks(c.size) :
        /\ b \in blocks => sums[b] = Content(c.file, c.size, b)
        /\ b \notin blocks /\ b <= Len(c.sums) => sums[b] = c.sums[b]
  OBVIOUS
<1>5. Recomputed(c, blocks) = [c EXCEPT !.sums = sums]
  BY DEF Recomputed
<1> HIDE DEF sums
<1>6. Recomputed(c, blocks).sums = sums
  BY <1>5 DEF Chunk
<1> QED BY <1>3, <1>4, <1>5, <1>6

-----------------------------------------------------------------------------
(* Types.                                                                  *)

\* Faults stay counts.
LEMMA FaultsType ==
  ASSUME TypeOK, NEW fault, GoesWrong(fault)
  PROVE  faults' \in [Fault -> Nat] /\ ~(\A f \in Fault : faults'[f] = 0)
BY DEF TypeOK, GoesWrong

\* Computing and saving checksums keeps a chunk's type, file and size.
LEMMA SummedType ==
  ASSUME NEW c \in Chunk, c.size \in 0..Len(c.file), NEW blocks
  PROVE  /\ Recomputed(c, blocks) \in Chunk
         /\ Recomputed(c, blocks).file = c.file
         /\ Recomputed(c, blocks).size = c.size
         /\ Recomputed(c, blocks).exists = c.exists
         /\ Recomputed(c, blocks).saved = c.saved
         /\ Persisted(Recomputed(c, blocks)) \in Chunk
         /\ Persisted(Recomputed(c, blocks)).file = c.file
         /\ Persisted(Recomputed(c, blocks)).size = c.size
         /\ Persisted(Recomputed(c, blocks)).exists = c.exists
         /\ Persisted(Recomputed(c, blocks)).sums = Recomputed(c, blocks).sums
         /\ Persisted(Recomputed(c, blocks)).saved = Recomputed(c, blocks).sums
<1> DEFINE s == Recomputed(c, blocks)
<1>1. s = [c EXCEPT !.sums = s.sums] /\ s.sums \in Seq(Block)
  BY RecomputedSums
<1> HIDE DEF s
<1>2. /\ s \in Chunk /\ s.file = c.file /\ s.size = c.size
      /\ s.exists = c.exists /\ s.saved = c.saved
  BY <1>1 DEF Chunk
<1>3. /\ Persisted(s) \in Chunk /\ Persisted(s).file = s.file
      /\ Persisted(s).size = s.size /\ Persisted(s).exists = s.exists
      /\ Persisted(s).sums = s.sums /\ Persisted(s).saved = s.sums
  BY <1>2 DEF Persisted, Chunk
<1> QED BY <1>2, <1>3 DEF s

\* The sets of blocks that the operations name are sets of numbers.
LEMMA BlockSets ==
  /\ \A o \in Nat, n \in Nat \ {0} : Touched(o, n) \subseteq Nat
  /\ \A o \in Nat, n \in Nat : BlockAt(o)..Blocks(n) \subseteq Nat
<1>1. ASSUME NEW o \in Nat, NEW n \in Nat \ {0} PROVE Touched(o, n) \subseteq Nat
  <2>1. o + n - 1 \in Nat
    OBVIOUS
  <2>2. BlockAt(o) \in Nat /\ BlockAt(o + n - 1) \in Nat
    BY <2>1, BlockAtBounds
  <2> QED BY <2>2 DEF Touched
<1>2. ASSUME NEW o \in Nat, NEW n \in Nat PROVE BlockAt(o)..Blocks(n) \subseteq Nat
  BY BlockAtBounds, BlocksCount
<1> QED BY <1>1, <1>2

\* What WriteChunk has made of the chunk when its checksums are computed.
LEMMA WriteTypes ==
  ASSUME TypeOK, IsOpen(chunk), NEW o \in Nat, NEW data \in Seq(Byte),
         Fits(o, data),
         NEW written,
         written = [chunk EXCEPT !.file = Overwritten(@, o, data),
                                 !.size = Most(@, o + Len(data))]
  PROVE  /\ written \in Chunk /\ written.size \in 0..Len(written.file)
         /\ written.file = Overwritten(chunk.file, o, data)
         /\ written.size = Most(chunk.size, o + Len(data))
         /\ written.exists = chunk.exists
         /\ written.sums = chunk.sums /\ written.saved = chunk.saved
         /\ Len(written.file) <= ChunkSize
         /\ Len(written.file) = Most(Len(chunk.file), o + Len(data))
         /\ Len(data) \in Nat \ {0} /\ chunk.size \in 0..Len(chunk.file)
<1>1. /\ chunk \in Chunk /\ chunk.file \in Seq(Unit) /\ Len(chunk.file) \in Nat
      /\ chunk.size \in 0..Len(chunk.file) /\ Len(chunk.file) <= ChunkSize
  BY DEF TypeOK, Chunk, IsOpen, None
<1>2. Len(data) \in Nat \ {0} /\ o + Len(data) <= ChunkSize /\ ChunkSize \in Nat
  BY EmptySeq, StoreAssumption DEF Fits
<1> DEFINE file == Overwritten(chunk.file, o, data)
           size == Most(chunk.size, o + Len(data))
<1>3. file \in Seq(Unit) /\ Len(file) = Most(Len(chunk.file), o + Len(data))
  BY <1>1, OverwrittenFile
<1>4. size \in Nat /\ size <= Len(file) /\ Len(file) <= ChunkSize
  BY <1>1, <1>2, <1>3 DEF Most
<1>5. written = [chunk EXCEPT !.file = file, !.size = size]
  BY <1>1 DEF Chunk
<1> HIDE DEF file, size
<1>6. /\ written \in Chunk /\ written.file = file /\ written.size = size
      /\ written.exists = chunk.exists
      /\ written.sums = chunk.sums /\ written.saved = chunk.saved
  <2>1. written \in Chunk
    BY ONLY <1>1, <1>3, <1>4, <1>5 DEF Chunk
  <2>2. written.file = file /\ written.size = size
    BY ONLY <1>1, <1>5 DEF Chunk
  <2>3. /\ written.exists = chunk.exists
        /\ written.sums = chunk.sums /\ written.saved = chunk.saved
    BY ONLY <1>1, <1>5 DEF Chunk
  <2> QED BY <2>1, <2>2, <2>3
<1>7. written.size \in 0..Len(written.file) /\ Len(written.file) <= ChunkSize
  BY <1>3, <1>4, <1>6
<1>8. Len(written.file) = Most(Len(chunk.file), o + Len(data))
  BY <1>3, <1>6
<1>9. /\ written.file = Overwritten(chunk.file, o, data)
      /\ written.size = Most(chunk.size, o + Len(data))
  BY <1>6 DEF file, size
<1> QED BY <1>1, <1>2, <1>6, <1>7, <1>8, <1>9

\* Where the file ends, blocks of it beyond the size are numbers.
LEMMA BeyondType ==
  ASSUME NEW c \in Chunk, c.size \in 0..Len(c.file)
  PROVE  Beyond(c) \subseteq Nat
<1>1. c.size \in Nat /\ Len(c.file) \in Nat
  BY DEF Chunk
<1> QED BY <1>1, BlockSets DEF Beyond

\* Writes keep the types.
LEMMA WriteKeepsTypes ==
  ASSUME TypeOK, NEW o \in Nat, NEW data \in Seq(Byte), WriteChunk(o, data)
  PROVE  TypeOK'
<1> DEFINE written == [chunk EXCEPT !.file = Overwritten(@, o, data),
                                    !.size = Most(@, o + Len(data))]
           summed == Recomputed(written, Touched(o, Len(data)))
<1>1. IsOpen(chunk) /\ Fits(o, data)
  BY DEF WriteChunk
<1>2. /\ written \in Chunk /\ written.size \in 0..Len(written.file)
      /\ Len(written.file) <= ChunkSize /\ Len(data) \in Nat \ {0}
      /\ chunk.size \in 0..Len(chunk.file)
  BY <1>1, WriteTypes
<1>3. Touched(o, Len(data)) \subseteq Nat
  BY <1>2, BlockSets
<1>4. \/ /\ chunk' = Persisted(summed)
         /\ damaged' = (damaged \ Touched(o, Len(data))) \cup Beyond(summed)
         /\ UNCHANGED faults
      \/ /\ chunk' = summed
         /\ damaged' = damaged \cup Touched(o, Len(data))
         /\ GoesWrong("persist")
      \/ /\ \E n \in 1..Len(data) - 1 :
              chunk' = [chunk EXCEPT
                !.file = Overwritten(@, o, SubSeq(data, 1, n))]
         /\ damaged' = damaged \cup Touched(o, Len(data))
         /\ GoesWrong("write")
  BY DEF WriteChunk
<1> HIDE DEF written
<1>5. /\ summed \in Chunk /\ summed.file = written.file
      /\ summed.size = written.size
      /\ Persisted(summed) \in Chunk /\ Persisted(summed).file = written.file
      /\ Persisted(summed).size = written.size
  BY <1>2, SummedType
<1> HIDE DEF summed
<1>6. Beyond(summed) \subseteq Nat
  BY <1>2, <1>5, BeyondType
<1>7. damaged \subseteq Nat /\ faults \in [Fault -> Nat]
  BY DEF TypeOK
<1>8. CASE chunk' = Persisted(summed)
  <2>1. faults' \in [Fault -> Nat] /\ damaged' \subseteq Nat
    BY <1>3, <1>4, <1>6, <1>7, FaultsType
  <2> QED BY <1>2, <1>5, <1>8, <2>1 DEF TypeOK
<1>9. CASE chunk' = summed
  <2>1. faults' \in [Fault -> Nat] /\ damaged' \subseteq Nat
    BY <1>3, <1>4, <1>6, <1>7, FaultsType
  <2> QED BY <1>2, <1>5, <1>9, <2>1 DEF TypeOK
<1>10. ASSUME NEW n \in 1..Len(data) - 1,
              chunk' = [chunk EXCEPT
                !.file = Overwritten(@, o, SubSeq(data, 1, n))]
       PROVE  TypeOK'
  <2> DEFINE part == SubSeq(data, 1, n)
             file == Overwritten(chunk.file, o, part)
  <2>1. part \in Seq(Byte) /\ Len(part) = n
    BY <1>2
  <2> HIDE DEF part
  <2>2. chunk \in Chunk /\ chunk.file \in Seq(Unit) /\ Len(chunk.file) <= ChunkSize
    BY DEF TypeOK, Chunk
  <2>3. file \in Seq(Unit) /\ Len(file) = Most(Len(chunk.file), o + n)
    BY <2>1, <2>2, OverwrittenFile
  <2>4. o + n <= ChunkSize
    BY <1>1, <1>2, StoreAssumption DEF Fits
  <2>5. Len(file) <= ChunkSize /\ chunk.size <= Len(file)
    BY <1>2, <2>2, <2>3, <2>4, StoreAssumption DEF Most
  <2>6. chunk' = [chunk EXCEPT !.file = file]
    BY <1>10, <2>2 DEF Chunk, part
  <2> HIDE DEF file
  <2>7. chunk' \in Chunk /\ chunk'.file = file /\ chunk'.size = chunk.size
    BY <2>2, <2>3, <2>6 DEF Chunk
  <2>8. faults' \in [Fault -> Nat] /\ damaged' \subseteq Nat
    BY <1>3, <1>4, <1>6, <1>7, FaultsType
  <2> QED BY <2>5, <2>7, <2>8 DEF TypeOK
<1> QED BY <1>4, <1>8, <1>9, <1>10

\* What TruncateChunk has made of the chunk when its checksums are computed.
LEMMA TruncateTypes ==
  ASSUME TypeOK, NEW n \in Nat,
         NEW cut, cut = [chunk EXCEPT !.file = Resized(@, n), !.size = n]
  PROVE  /\ cut \in Chunk /\ cut.size \in 0..Len(cut.file)
         /\ cut.file = Resized(chunk.file, n) /\ cut.size = n
         /\ Len(cut.file) = n
         /\ cut.exists = chunk.exists /\ cut.saved = chunk.saved
<1>1. chunk \in Chunk /\ chunk.file \in Seq(Unit)
  BY DEF TypeOK, Chunk
<1> DEFINE file == Resized(chunk.file, n)
<1>2. file \in Seq(Unit) /\ Len(file) = n
  BY <1>1, ResizedFile
<1>3. cut = [chunk EXCEPT !.file = file, !.size = n]
  BY <1>1 DEF Chunk
<1> HIDE DEF file
<1>4. /\ cut \in Chunk /\ cut.file = file /\ cut.size = n
      /\ cut.exists = chunk.exists /\ cut.saved = chunk.saved
  <2>1. cut \in Chunk
    BY ONLY <1>1, <1>2, <1>3, n \in Nat DEF Chunk
  <2>2. cut.file = file /\ cut.size = n
    BY ONLY <1>1, <1>3 DEF Chunk
  <2>3. cut.exists = chunk.exists /\ cut.saved = chunk.saved
    BY ONLY <1>1, <1>3 DEF Chunk
  <2> QED BY <2>1, <2>2, <2>3
<1>5. cut.size \in 0..Len(cut.file) /\ Len(cut.file) = n
  BY <1>2, <1>4
<1> QED BY <1>4, <1>5 DEF file

\* Truncations keep the types.
LEMMA TruncateKeepsTypes ==
  ASSUME TypeOK, NEW n \in 0..ChunkSize, TruncateChunk(n)
  PROVE  TypeOK'
<1> DEFINE cut == [chunk EXCEPT !.file = Resized(@, n), !.size = n]
           summed == AllRecomputed(cut)
           changed == BlockAt(Least(chunk.size, n))..Blocks(n)
<1>1. n \in Nat /\ n <= ChunkSize /\ chunk.size \in Nat
  BY StoreAssumption DEF TruncateChunk, IsOpen, TypeOK, Chunk
<1>2. /\ cut \in Chunk /\ cut.size \in 0..Len(cut.file)
      /\ Len(cut.file) = n /\ cut.size = n
  BY <1>1, TruncateTypes
<1>3. changed \subseteq Nat
  <2>1. Least(chunk.size, n) \in Nat
    BY <1>1 DEF Least
  <2> QED BY <1>1, <2>1, BlockSets
<1>4. \/ /\ chunk' = Persisted(summed)
         /\ damaged' = {}
         /\ UNCHANGED faults
      \/ /\ chunk' = summed
         /\ IF n = 0
            THEN GoesWrong("unsum") /\ chunk.saved # <<>> /\ damaged' = {}
            ELSE GoesWrong("persist") /\ damaged' = damaged \cup changed
  BY DEF TruncateChunk
<1> HIDE DEF cut, changed
<1>5. /\ summed \in Chunk /\ summed.file = cut.file /\ summed.size = cut.size
      /\ Persisted(summed) \in Chunk /\ Persisted(summed).file = cut.file
      /\ Persisted(summed).size = cut.size
  BY <1>2, SummedType DEF AllRecomputed
<1> HIDE DEF summed
<1>6. damaged \subseteq Nat /\ faults \in [Fault -> Nat]
  BY DEF TypeOK
<1>7. faults' \in [Fault -> Nat] /\ damaged' \subseteq Nat
  BY <1>3, <1>4, <1>6, FaultsType
<1>8. /\ chunk' \in Chunk /\ Len(chunk'.file) <= ChunkSize
      /\ chunk'.size <= Len(chunk'.file)
  BY <1>1, <1>2, <1>4, <1>5
<1> QED BY <1>7, <1>8 DEF TypeOK

\* The chunk when it has been opened, before its checksums are computed.
LEMMA OpenedTypes ==
  ASSUME TypeOK, NEW opened, NEW sums \in Seq(Block),
         opened = [chunk EXCEPT !.size = Len(chunk.file), !.sums = sums]
  PROVE  /\ opened \in Chunk /\ opened.size \in 0..Len(opened.file)
         /\ opened.file = chunk.file /\ opened.size = Len(chunk.file)
         /\ opened.exists = chunk.exists /\ opened.sums = sums
         /\ opened.saved = chunk.saved /\ Len(opened.file) <= ChunkSize
<1>1. /\ chunk \in Chunk /\ chunk.file \in Seq(Unit) /\ Len(chunk.file) \in Nat
      /\ Len(chunk.file) <= ChunkSize
  BY DEF TypeOK, Chunk
<1>2. opened \in Chunk
  BY ONLY <1>1, sums \in Seq(Block),
     opened = [chunk EXCEPT !.size = Len(chunk.file), !.sums = sums] DEF Chunk
<1>3. /\ opened.file = chunk.file /\ opened.size = Len(chunk.file)
      /\ opened.exists = chunk.exists /\ opened.sums = sums
      /\ opened.saved = chunk.saved
  BY ONLY <1>1,
     opened = [chunk EXCEPT !.size = Len(chunk.file), !.sums = sums] DEF Chunk
<1> QED BY <1>1, <1>2, <1>3

\* The same when the checksums in memory are kept.
LEMMA OpenedAsWas ==
  ASSUME TypeOK
  PROVE  /\ chunk.sums \in Seq(Block) /\ chunk.saved \in Seq(Block)
         /\ [chunk EXCEPT !.size = Len(chunk.file)] =
              [chunk EXCEPT !.size = Len(chunk.file), !.sums = chunk.sums]
BY DEF TypeOK, Chunk

\* What a restart makes of the chunk.
LEMMA InitializedTypes ==
  ASSUME TypeOK
  PROVE  /\ Initialized(chunk) \in Chunk
         /\ Initialized(chunk).file = chunk.file
         /\ Initialized(chunk).exists = chunk.exists
         /\ chunk.exists =>
              /\ Initialized(chunk).size = Len(chunk.file)
              /\ \/ /\ Initialized(chunk).sums = chunk.saved
                    /\ Initialized(chunk).saved = chunk.saved
                    /\ Len(chunk.saved) = Blocks(Len(chunk.file))
                 \/ /\ Initialized(chunk).saved = Initialized(chunk).sums
                    /\ Len(Initialized(chunk).sums) = Blocks(Len(chunk.file))
                    /\ \A b \in 1..Blocks(Len(chunk.file)) :
                         Initialized(chunk).sums[b] =
                           Content(chunk.file, Len(chunk.file), b)
         /\ ~chunk.exists =>
              /\ Initialized(chunk).size = None
              /\ Initialized(chunk).sums = <<>>
              /\ Initialized(chunk).saved = chunk.saved
<1> DEFINE opened == [chunk EXCEPT !.size = Len(chunk.file), !.sums = chunk.saved]
           summed == AllRecomputed(opened)
<1>1. chunk \in Chunk /\ chunk.saved \in Seq(Block)
  BY DEF TypeOK, Chunk
<1>2. /\ opened \in Chunk /\ opened.size \in 0..Len(opened.file)
      /\ opened.file = chunk.file /\ opened.size = Len(chunk.file)
      /\ opened.exists = chunk.exists /\ opened.sums = chunk.saved
      /\ opened.saved = chunk.saved
  BY <1>1, OpenedTypes
<1>3. Initialized(chunk) =
        IF ~chunk.exists THEN [chunk EXCEPT !.size = None, !.sums = <<>>]
        ELSE IF Len(chunk.saved) = Blocks(Len(chunk.file)) THEN opened
        ELSE Persisted(summed)
  BY DEF Initialized
<1> HIDE DEF opened
<1>4. /\ Persisted(summed) \in Chunk /\ Persisted(summed).file = opened.file
      /\ Persisted(summed).size = opened.size
      /\ Persisted(summed).exists = opened.exists
      /\ Persisted(summed).sums = summed.sums
      /\ Persisted(summed).saved = summed.sums
  BY <1>2, SummedType DEF AllRecomputed
<1>5. /\ Len(summed.sums) = Blocks(opened.size)
      /\ \A b \in 1..Blocks(opened.size) :
           summed.sums[b] = Content(opened.file, opened.size, b)
  BY <1>2, RecomputedSums DEF AllRecomputed
<1> HIDE DEF summed
<1>6. CASE ~chunk.exists
  <2>1. Initialized(chunk) = [chunk EXCEPT !.size = None, !.sums = <<>>]
    BY <1>3, <1>6
  <2>2. \A e \in Seq(Block) : [chunk EXCEPT !.size = None, !.sums = e] \in Chunk
    BY ONLY <1>1 DEF Chunk
  <2>3. <<>> \in Seq(Block)
    OBVIOUS
  <2>4. Initialized(chunk) \in Chunk
    BY <2>1, <2>2, <2>3
  <2>5. /\ Initialized(chunk).size = None
        /\ Initialized(chunk).file = chunk.file
        /\ Initialized(chunk).exists = chunk.exists
        /\ Initialized(chunk).sums = <<>>
        /\ Initialized(chunk).saved = chunk.saved
    BY ONLY <1>1, <2>1 DEF Chunk
  <2> QED BY <1>6, <2>4, <2>5
<1>7. CASE chunk.exists /\ Len(chunk.saved) = Blocks(Len(chunk.file))
  <2>1. Initialized(chunk) = opened
    BY <1>3, <1>7
  <2> QED BY <1>2, <1>7, <2>1
<1>8. CASE chunk.exists /\ Len(chunk.saved) # Blocks(Len(chunk.file))
  <2>1. Initialized(chunk) = Persisted(summed)
    BY <1>3, <1>8
  <2> QED BY <1>2, <1>4, <1>5, <1>8, <2>1
<1> QED BY <1>6, <1>7, <1>8

\* Opening keeps the types, and what it computes is what the file has.
LEMMA OpenTypes ==
  ASSUME TypeOK, OpenChunk \/ ReadNothing
  PROVE  /\ chunk' \in Chunk /\ chunk'.size \in 0..Len(chunk.file)
         /\ chunk'.file = chunk.file
         /\ chunk'.size = IF IsOpen(chunk) THEN chunk.size ELSE Len(chunk.file)
         /\ chunk.exists /\ chunk'.exists
         /\ UNCHANGED damaged
         /\ \/ chunk'.sums = chunk.sums /\ chunk'.saved = chunk.saved
               /\ UNCHANGED faults
            \/ /\ Len(chunk'.sums) = Blocks(chunk'.size)
               /\ \A b \in 1..Blocks(chunk'.size) :
                    chunk'.sums[b] = Content(chunk.file, chunk'.size, b)
               /\ \/ chunk'.saved = chunk'.sums /\ UNCHANGED faults
                  \/ chunk'.saved = chunk.saved /\ GoesWrong("persist")
<1> DEFINE opened == IF IsOpen(chunk) THEN chunk
                     ELSE [chunk EXCEPT !.size = Len(chunk.file)]
           summed == AllRecomputed(opened)
<1>1. /\ opened \in Chunk /\ opened.size \in 0..Len(opened.file)
      /\ opened.file = chunk.file
      /\ opened.size = IF IsOpen(chunk) THEN chunk.size ELSE Len(chunk.file)
      /\ opened.exists = chunk.exists /\ opened.sums = chunk.sums
      /\ opened.saved = chunk.saved
  <2>1. CASE IsOpen(chunk)
    <3>1. chunk \in Chunk /\ chunk.size \in 0..Len(chunk.file)
      BY <2>1 DEF TypeOK, Chunk, IsOpen, None
    <3>2. opened = chunk
      BY <2>1
    <3> HIDE DEF opened
    <3> QED BY <2>1, <3>1, <3>2
  <2>2. CASE ~IsOpen(chunk)
    <3>1. opened = [chunk EXCEPT !.size = Len(chunk.file)]
      BY <2>2
    <3> HIDE DEF opened
    <3> QED BY <2>2, <3>1, OpenedAsWas, OpenedTypes
  <2> QED BY <2>1, <2>2
<1>2. /\ chunk.exists /\ UNCHANGED damaged
      /\ \/ chunk' = opened /\ UNCHANGED faults
         \/ chunk' = Persisted(summed) /\ UNCHANGED faults
         \/ chunk' = summed /\ GoesWrong("persist")
  <2>1. CASE OpenChunk
    BY <2>1 DEF OpenChunk
  <2>2. CASE ReadNothing
    BY <2>2 DEF ReadNothing
  <2> QED BY <2>1, <2>2
<1> HIDE DEF opened
<1>3. /\ summed \in Chunk /\ summed.file = opened.file
      /\ summed.size = opened.size /\ summed.exists = opened.exists
      /\ summed.saved = opened.saved
      /\ Persisted(summed) \in Chunk /\ Persisted(summed).file = opened.file
      /\ Persisted(summed).size = opened.size
      /\ Persisted(summed).exists = opened.exists
      /\ Persisted(summed).sums = summed.sums
      /\ Persisted(summed).saved = summed.sums
  BY <1>1, SummedType DEF AllRecomputed
<1>4. /\ Len(summed.sums) = Blocks(opened.size)
      /\ \A b \in 1..Blocks(opened.size) :
           summed.sums[b] = Content(opened.file, opened.size, b)
  BY <1>1, RecomputedSums DEF AllRecomputed
<1> HIDE DEF summed
<1>5. CASE chunk' = opened /\ UNCHANGED faults
  BY <1>1, <1>2, <1>5
<1>6. CASE chunk' = Persisted(summed) /\ UNCHANGED faults
  BY <1>1, <1>2, <1>3, <1>4, <1>6
<1>7. CASE chunk' = summed /\ GoesWrong("persist")
  BY <1>1, <1>2, <1>3, <1>4, <1>7
<1> QED BY <1>2, <1>5, <1>6, <1>7

\* The other operations keep the types.
LEMMA OthersKeepTypes ==
  ASSUME TypeOK,
         CreateChunk \/ DeleteChunk \/ OpenChunk \/ ReadNothing \/ Restart
  PROVE  TypeOK'
<1>1. /\ chunk \in Chunk /\ chunk.file \in Seq(Unit) /\ Len(chunk.file) \in Nat
      /\ Len(chunk.file) <= ChunkSize /\ ChunkSize \in Nat
      /\ damaged \subseteq Nat /\ faults \in [Fault -> Nat]
  BY StoreAssumption DEF TypeOK, Chunk
<1>2. CASE CreateChunk
  <2>1. chunk' = [chunk EXCEPT !.exists = TRUE, !.file = <<>>, !.size = 0]
    BY <1>2 DEF CreateChunk
  <2>2. chunk' \in Chunk /\ chunk'.file = <<>> /\ chunk'.size = 0
    <3>1. \A e \in Seq(Unit) : [chunk EXCEPT !.exists = TRUE, !.file = e, !.size = 0] \in Chunk
      BY ONLY <1>1 DEF Chunk
    <3>2. <<>> \in Seq(Unit)
      OBVIOUS
    <3>3. [chunk EXCEPT !.exists = TRUE, !.file = <<>>, !.size = 0] \in Chunk
      BY <3>1, <3>2
    <3>4. chunk'.file = <<>> /\ chunk'.size = 0
      BY ONLY <1>1, <2>1 DEF Chunk
    <3> QED BY <2>1, <3>3, <3>4
  <2>3. Len(chunk'.file) = 0
    BY <2>2
  <2> QED BY <1>1, <1>2, <2>2, <2>3 DEF TypeOK, CreateChunk
<1>3. CASE DeleteChunk
  <2>1. faults' \in [Fault -> Nat] /\ damaged' \subseteq Nat
    BY <1>1, <1>3, FaultsType DEF DeleteChunk
  <2>2. CASE chunk' = NoChunk
    <3>1. chunk' \in Chunk /\ chunk'.file = <<>> /\ chunk'.size = -1
      BY <2>2 DEF NoChunk, Chunk, None
    <3>2. Len(chunk'.file) = 0
      BY <3>1
    <3> QED BY <1>1, <2>1, <3>1, <3>2 DEF TypeOK
  <2>3. CASE chunk' = [NoChunk EXCEPT !.saved = chunk.saved]
    <3>1. chunk.saved \in Seq(Block)
      BY <1>1 DEF Chunk
    <3>2. chunk' \in Chunk /\ chunk'.file = <<>> /\ chunk'.size = -1
      <4>1. NoChunk \in Chunk /\ NoChunk.file = <<>> /\ NoChunk.size = -1
        BY DEF NoChunk, Chunk, None
      <4>2. \A c \in Chunk : /\ [c EXCEPT !.saved = chunk.saved] \in Chunk
                              /\ [c EXCEPT !.saved = chunk.saved].file = c.file
                              /\ [c EXCEPT !.saved = chunk.saved].size = c.size
        BY ONLY <3>1 DEF Chunk
      <4> QED BY <2>3, <4>1, <4>2
    <3>3. Len(chunk'.file) = 0
      BY <3>2
    <3> QED BY <1>1, <2>1, <3>2, <3>3 DEF TypeOK
  <2>4. CASE chunk' = [chunk EXCEPT !.size = None]
    <3>1. chunk' \in Chunk /\ chunk'.file = chunk.file /\ chunk'.size = -1
      BY ONLY <1>1, <2>4 DEF Chunk, None
    <3> QED BY <1>1, <2>1, <3>1 DEF TypeOK
  <2> QED BY <1>3, <2>2, <2>3, <2>4 DEF DeleteChunk
<1>4. CASE OpenChunk \/ ReadNothing
  <2>1. /\ chunk' \in Chunk /\ chunk'.file = chunk.file
        /\ chunk'.size \in 0..Len(chunk.file) /\ UNCHANGED damaged
        /\ (UNCHANGED faults \/ GoesWrong("persist"))
    BY <1>4, OpenTypes
  <2>2. faults' \in [Fault -> Nat]
    BY <1>1, <2>1, FaultsType
  <2> QED BY <1>1, <2>1, <2>2 DEF TypeOK
<1>5. CASE Restart
  <2>1. chunk' = Initialized(chunk) /\ UNCHANGED <<damaged, faults>>
    BY <1>5 DEF Restart
  <2>2. /\ chunk' \in Chunk /\ chunk'.file = chunk.file
        /\ chunk'.size \in {Len(chunk.file), -1}
    BY <2>1, InitializedTypes DEF None
  <2> QED BY <1>1, <2>1, <2>2 DEF TypeOK
<1> QED BY <1>2, <1>3, <1>4, <1>5

\* Every step keeps the types.
LEMMA NextKeepsTypes ==
  ASSUME TypeOK, [Next]_vars
  PROVE  TypeOK'
<1>1. ASSUME NEW n \in 0..ChunkSize, TruncateChunk(n) PROVE TypeOK'
  BY <1>1, TruncateKeepsTypes
<1>2. ASSUME NEW o \in 0..ChunkSize, NEW n \in 1..MaxLength,
             NEW data \in [1..n -> Byte], WriteChunk(o, data)
      PROVE  TypeOK'
  <2>1. o \in Nat /\ n \in Nat
    BY StoreAssumption
  <2>2. data \in Seq(Byte)
    BY <2>1
  <2> QED BY <1>2, <2>1, <2>2, WriteKeepsTypes
<1>3. CASE CreateChunk \/ DeleteChunk \/ OpenChunk \/ ReadNothing \/ Restart
  BY <1>3, OthersKeepTypes
<1>4. CASE UNCHANGED vars
  BY <1>4 DEF TypeOK, vars
<1> QED BY <1>1, <1>2, <1>3, <1>4 DEF Next

\* The chunk, its file and its checksums are always what their types say: the
\* file never outgrows the chunk and the size never outgrows the file.
THEOREM StoreTypeCorrect == Spec => []TypeOK
<1>1. Init => TypeOK
  <2> SUFFICES ASSUME Init PROVE TypeOK
    OBVIOUS
  <2>1. chunk \in Chunk /\ chunk.file = <<>> /\ chunk.size = -1
    BY DEF Init, NoChunk, Chunk, None
  <2>2. Len(chunk.file) = 0
    BY <2>1
  <2>3. damaged \subseteq Nat /\ faults \in [Fault -> Nat]
    BY DEF Init
  <2> QED BY <2>1, <2>2, <2>3, StoreAssumption DEF TypeOK
<1> QED BY <1>1, NextKeepsTypes, PTL DEF Spec

-----------------------------------------------------------------------------
(* Damage.  The invariant holds when writes begin within the chunk: every  *)
(* block of the file that no failed operation was to change has its        *)
(* checksum in memory, and in the checksum file if that has one for it;    *)
(* and what the file has beyond the size in memory, which a restart will   *)
(* uncover, is damaged.                                                    *)

SumsRight ==
  \A b \in 1..Blocks(Len(chunk.file)) : b \notin damaged =>
    /\ b <= Len(chunk.sums)
    /\ chunk.sums[b] = Content(chunk.file, Len(chunk.file), b)

SavedRight ==
  \A b \in 1..Blocks(Len(chunk.file)) :
    b \notin damaged /\ b <= Len(chunk.saved) =>
      chunk.saved[b] = Content(chunk.file, Len(chunk.file), b)

BeyondDamaged == IsOpen(chunk) => chunk.exists /\ Beyond(chunk) \subseteq damaged

NothingThere == ~chunk.exists => chunk.file = <<>>

StoreInv ==
  /\ TypeOK
  /\ SumsRight
  /\ SavedRight
  /\ BeyondDamaged
  /\ NothingThere

\* A file without bytes has no blocks.
LEMMA NoBlocks == Blocks(0) = 0
<1>1. 1 <= Blocks(0) <=> (1 - 1) * BlockSize < 0
  BY BlocksCount
<1>2. (1 - 1) * BlockSize = 0
  BY StoreAssumption
<1>3. Blocks(0) \in Nat
  BY BlocksCount
<1> QED BY <1>1, <1>2, <1>3

\* A longer file has at least as many blocks.
LEMMA MoreBlocks ==
  ASSUME NEW m \in Nat, NEW n \in Nat, m <= n
  PROVE  Blocks(m) <= Blocks(n)
<1>1. Blocks(m) \in Nat /\ Blocks(n) \in Nat
  BY BlocksCount
<1>2. CASE Blocks(m) = 0
  BY <1>1, <1>2
<1>3. CASE Blocks(m) # 0
  <2> DEFINE b == Blocks(m)
  <2>1. b \in Nat \ {0} /\ (b - 1) * BlockSize \in Int
    BY <1>1, <1>3, Multiplication
  <2>2. (b - 1) * BlockSize < m
    BY <2>1, BlocksCount
  <2> HIDE DEF b
  <2>3. (b - 1) * BlockSize < n
    BY <2>1, <2>2
  <2>4. b <= Blocks(n)
    BY <2>1, <2>3, BlocksCount
  <2> QED BY <2>4 DEF b
<1> QED BY <1>2, <1>3

\* What a write of at most n bytes, begun within a file, leaves of a block that
\* it does not touch: such a block ends before the write or begins after it,
\* in which case the file has not grown.
LEMMA WrittenBlocks ==
  ASSUME NEW file \in Seq(Unit), NEW o \in 0..Len(file), NEW n \in Nat \ {0},
         NEW data \in Seq(Byte), Len(data) \in 1..n,
         NEW new, new = Overwritten(file, o, data),
         NEW b \in 1..Blocks(Len(new)), b \notin Touched(o, n)
  PROVE  /\ b \in 1..Blocks(Len(file))
         /\ Content(new, Len(new), b) = Content(file, Len(file), b)
         /\ b * BlockSize <= o \/ Len(new) = Len(file)
<1> DEFINE len == Len(file)
           nlen == Len(new)
           lo == (b - 1) * BlockSize
           hi == b * BlockSize
<1>1. /\ new \in Seq(Unit) /\ nlen = Most(len, o + Len(data))
      /\ \A i \in 1..len : i \notin o + 1..o + Len(data) => new[i] = file[i]
  <2>1. o \in Nat
    OBVIOUS
  <2> DEFINE over == Overwritten(file, o, data)
  <2>2. /\ over \in Seq(Unit) /\ Len(over) = Most(Len(file), o + Len(data))
        /\ \A i \in 1..Len(file) :
             i \notin o + 1..o + Len(data) => over[i] = file[i]
    BY ONLY file \in Seq(Unit), <2>1, data \in Seq(Byte), OverwrittenFile
  <2>3. new = over
    OBVIOUS
  <2> HIDE DEF over
  <2> QED BY ONLY <2>2, <2>3 DEF len, nlen
<1>2. len \in Nat /\ nlen \in Nat /\ len <= nlen /\ o \in Nat
  BY <1>1 DEF Most
<1>3. b \in Nat \ {0} /\ lo \in Int /\ hi \in Int /\ lo < hi
  <2>1. b \in Nat \ {0} /\ lo \in Int /\ hi \in Int
    <3>1. Blocks(Len(new)) \in Nat
      BY <1>2, BlocksCount
    <3>2. b \in Nat \ {0} /\ b - 1 \in Int
      BY <3>1
    <3> QED BY <3>2, Multiplication
  <2>2. hi = lo + BlockSize
    BY <2>1, StoreAssumption
  <2> HIDE DEF lo, hi
  <2> QED BY <2>1, <2>2, StoreAssumption
<1>4. lo < nlen
  BY <1>2, <1>3, BlocksCount
<1>5. hi <= o \/ lo >= o + n
  BY <1>2, <1>3, Untouched
<1>6. b <= Blocks(len) <=> lo < len
  BY <1>2, <1>3, BlocksCount
<1>7. Blocks(len) \in Nat /\ Blocks(nlen) \in Nat
  BY <1>2, BlocksCount
<1> HIDE DEF lo, hi, len, nlen
<1>8. CASE hi <= o
  <2>1. o <= len
    BY DEF len
  <2>2. Least(hi, nlen) = Least(hi, len) /\ Least(hi, nlen) = hi /\ lo < len
    BY <1>2, <1>3, <1>8, <2>1 DEF Least
  <2>3. \A i \in lo + 1..Least(hi, nlen) : new[i] = file[i]
    <3>1. lo >= 0
      <4>1. 0 * BlockSize <= (b - 1) * BlockSize
        BY <1>3, Multiplication
      <4>2. 0 * BlockSize = 0
        BY StoreAssumption
      <4> QED BY <4>1, <4>2 DEF lo
    <3>2. ASSUME NEW i \in lo + 1..hi
          PROVE  i \in 1..len /\ i \notin o + 1..o + Len(data)
      BY <1>2, <1>3, <1>8, <2>1, <3>1
    <3> QED BY <1>1, <2>2, <3>2
  <2>4. Content(new, nlen, b) = Content(file, len, b)
    <3>1. nlen \in 0..Len(new) /\ len \in 0..Len(file)
      BY <1>2 DEF len, nlen
    <3>2. \A i \in (b - 1) * BlockSize + 1..Least(b * BlockSize, nlen) :
            new[i] = file[i]
      BY <2>3 DEF lo, hi
    <3>3. Least(b * BlockSize, nlen) = Least(b * BlockSize, len)
      BY <2>2 DEF hi
    <3> QED BY <1>1, <1>3, <3>1, <3>2, <3>3, ContentSame
  <2>5. b \in 1..Blocks(len)
    BY <1>3, <1>6, <1>7, <2>2
  <2> QED BY <1>8, <2>4, <2>5 DEF len, nlen, hi
<1>9. CASE lo >= o + n
  <2>1. Len(data) <= n /\ Len(data) \in Nat /\ n \in Nat
    OBVIOUS
  <2>2. nlen = len /\ lo < len
    BY <1>1, <1>2, <1>3, <1>4, <1>9, <2>1 DEF Most
  <2>3. Least(hi, nlen) = Least(hi, len) /\ Least(hi, nlen) <= len
    BY <1>2, <1>3, <2>2 DEF Least
  <2>4. \A i \in lo + 1..Least(hi, nlen) : new[i] = file[i]
    <3>1. ASSUME NEW i \in lo + 1..Least(hi, nlen)
          PROVE  i \in 1..len /\ i \notin o + 1..o + Len(data)
      <4>1. Least(hi, nlen) \in Int
        BY <1>2, <1>3 DEF Least
      <4> QED BY <1>2, <1>3, <1>9, <2>1, <2>3, <4>1
    <3> QED BY <1>1, <3>1
  <2>5. Content(new, nlen, b) = Content(file, len, b)
    <3>1. nlen \in 0..Len(new) /\ len \in 0..Len(file)
      BY <1>2 DEF len, nlen
    <3>2. \A i \in (b - 1) * BlockSize + 1..Least(b * BlockSize, nlen) :
            new[i] = file[i]
      BY <2>4 DEF lo, hi
    <3>3. Least(b * BlockSize, nlen) = Least(b * BlockSize, len)
      BY <2>3 DEF hi
    <3> QED BY <1>1, <1>3, <3>1, <3>2, <3>3, ContentSame
  <2>6. b \in 1..Blocks(len)
    BY <1>3, <1>6, <1>7, <2>2
  <2> QED BY <2>2, <2>5, <2>6 DEF len, nlen
<1> QED BY <1>5, <1>8, <1>9

\* A block that is not beyond the size is the same read up to the size or up to
\* the end of the file.
LEMMA BeforeSize ==
  ASSUME NEW c \in Chunk, c.size \in 0..Len(c.file),
         NEW b \in 1..Blocks(Len(c.file)), b \notin Beyond(c)
  PROVE  /\ b \in 1..Blocks(c.size)
         /\ Content(c.file, c.size, b) = Content(c.file, Len(c.file), b)
<1> DEFINE len == Len(c.file)
           size == c.size
           hi == b * BlockSize
<1>1. c.file \in Seq(Unit) /\ len \in Nat /\ size \in Nat /\ size <= len
  BY DEF Chunk
<1>2. Blocks(len) \in Nat /\ Blocks(size) \in Nat
  BY <1>1, BlocksCount
<1>3. b \in Nat \ {0} /\ hi \in Int /\ b <= Blocks(len)
  <2>1. b \in Nat \ {0} /\ b <= Blocks(len)
    BY <1>2
  <2> QED BY <2>1, Multiplication
<1>4. CASE size = len
  BY <1>2, <1>3, <1>4
<1>5. CASE size < len
  <2>1. b < BlockAt(size)
    <3>1. BlockAt(size) \in Nat
      BY <1>1, BlockAtBounds
    <3>2. b \notin BlockAt(size)..Blocks(len)
      BY <1>5 DEF Beyond
    <3> QED BY <1>2, <1>3, <3>1, <3>2
  <2>2. hi <= size
    BY <1>1, <1>3, <2>1, BlockAtBounds
  <2>3. (b - 1) * BlockSize = hi - BlockSize
    BY <1>3, StoreAssumption
  <2> HIDE DEF hi, len, size
  <2>4. (b - 1) * BlockSize < size
    BY <1>1, <1>3, <2>2, <2>3, StoreAssumption
  <2>5. b <= Blocks(size)
    BY <1>1, <1>3, <2>4, BlocksCount
  <2>6. Least(hi, size) = Least(hi, len)
    BY <1>1, <1>3, <2>2 DEF Least
  <2>7. Content(c.file, size, b) = Content(c.file, len, b)
    BY <2>6 DEF Content, hi
  <2> QED BY <1>2, <1>3, <2>5, <2>7 DEF len, size
<1> QED BY <1>1, <1>4, <1>5

\* A write uncovers nothing beyond the size but what it touches.
LEMMA GrownBeyond ==
  ASSUME NEW c \in Chunk, c.size \in 0..Len(c.file),
         NEW d \in Chunk, d.size \in 0..Len(d.file), c.size <= d.size,
         NEW o \in 0..c.size, NEW n \in Nat \ {0},
         NEW data \in Seq(Byte), Len(data) \in 1..n,
         d.file = Overwritten(c.file, o, data)
  PROVE  Beyond(d) \subseteq Beyond(c) \cup Touched(o, n)
<1>1. /\ c.file \in Seq(Unit) /\ d.file \in Seq(Unit)
      /\ Len(c.file) \in Nat /\ Len(d.file) \in Nat
      /\ c.size \in Nat /\ d.size \in Nat
      /\ o \in Nat /\ o \in 0..Len(c.file)
  BY DEF Chunk
<1>2. /\ BlockAt(c.size) \in Nat \ {0} /\ BlockAt(d.size) \in Nat \ {0}
      /\ Blocks(Len(c.file)) \in Nat /\ Blocks(Len(d.file)) \in Nat
  BY <1>1, BlockAtBounds, BlocksCount
<1>3. SUFFICES ASSUME NEW b \in Beyond(d), b \notin Touched(o, n)
               PROVE  b \in Beyond(c)
  OBVIOUS
<1>4. /\ d.size < Len(d.file) /\ b \in BlockAt(d.size)..Blocks(Len(d.file))
  BY <1>3 DEF Beyond
<1>5. b \in Nat \ {0} /\ b \in 1..Blocks(Len(d.file)) /\ b * BlockSize \in Int
  <2>1. b \in Nat \ {0} /\ b \in 1..Blocks(Len(d.file))
    BY <1>2, <1>4
  <2> QED BY <2>1, Multiplication
<1>6. /\ b \in 1..Blocks(Len(c.file))
      /\ b * BlockSize <= o \/ Len(d.file) = Len(c.file)
  BY <1>1, <1>3, <1>5, WrittenBlocks
<1>7. ~(b * BlockSize <= d.size)
  <2>1. ~(b < BlockAt(d.size))
    BY <1>2, <1>4
  <2> QED BY <1>1, <1>5, <2>1, BlockAtBounds
<1>8. ~(b * BlockSize <= o) /\ ~(b * BlockSize <= c.size)
  BY <1>1, <1>5, <1>7
<1>9. ~(b < BlockAt(c.size))
  BY <1>1, <1>5, <1>8, BlockAtBounds
<1>10. c.size < Len(c.file)
  BY <1>1, <1>4, <1>6, <1>8
<1> QED BY <1>2, <1>5, <1>6, <1>9, <1>10 DEF Beyond

\* Writes keep the invariant.
LEMMA WriteKeepsStore ==
  ASSUME StoreInv, NEW o \in Nat, o <= chunk.size, NEW data \in Seq(Byte),
         WriteChunk(o, data)
  PROVE  StoreInv'
<1> DEFINE written == [chunk EXCEPT !.file = Overwritten(@, o, data),
                                    !.size = Most(@, o + Len(data))]
           touched == Touched(o, Len(data))
           summed == Recomputed(written, touched)
<1>1. TypeOK /\ TypeOK' /\ IsOpen(chunk) /\ Fits(o, data) /\ chunk.exists
  BY WriteKeepsTypes DEF StoreInv, WriteChunk, BeyondDamaged
<1>2. /\ written \in Chunk /\ written.size \in 0..Len(written.file)
      /\ written.file = Overwritten(chunk.file, o, data)
      /\ written.size = Most(chunk.size, o + Len(data))
      /\ written.exists = chunk.exists
      /\ written.sums = chunk.sums /\ written.saved = chunk.saved
      /\ Len(data) \in Nat \ {0} /\ chunk.size \in 0..Len(chunk.file)
  <2>1. written = [chunk EXCEPT !.file = Overwritten(@, o, data),
                                !.size = Most(@, o + Len(data))]
    OBVIOUS
  <2>2. TypeOK /\ IsOpen(chunk) /\ o \in Nat /\ data \in Seq(Byte)
        /\ Fits(o, data)
    BY <1>1
  <2> HIDE DEF written, touched, summed
  <2> QED BY ONLY <2>1, <2>2, WriteTypes
<1>3. /\ \/ /\ chunk' = Persisted(summed)
            /\ damaged' = (damaged \ touched) \cup Beyond(summed)
         \/ /\ chunk' = summed
            /\ damaged' = damaged \cup touched
         \/ /\ \E n \in 1..Len(data) - 1 :
                 chunk' = [chunk EXCEPT
                   !.file = Overwritten(@, o, SubSeq(data, 1, n))]
            /\ damaged' = damaged \cup touched
  BY DEF WriteChunk
<1>4. /\ chunk \in Chunk /\ chunk.file \in Seq(Unit) /\ Len(chunk.file) \in Nat
      /\ chunk.size \in Nat /\ o \in 0..chunk.size /\ o \in 0..Len(chunk.file)
      /\ chunk.size <= written.size
  BY <1>1, <1>2 DEF TypeOK, Chunk, Most
<1>5. SumsRight /\ SavedRight /\ Beyond(chunk) \subseteq damaged
  BY <1>1 DEF StoreInv, BeyondDamaged
<1> HIDE DEF written
<1>6. /\ summed \in Chunk /\ summed.file = written.file
      /\ summed.size = written.size /\ summed.exists = written.exists
      /\ summed.saved = written.saved
      /\ Persisted(summed) \in Chunk /\ Persisted(summed).file = written.file
      /\ Persisted(summed).size = written.size
      /\ Persisted(summed).exists = written.exists
      /\ Persisted(summed).sums = summed.sums
      /\ Persisted(summed).saved = summed.sums
  BY <1>2, SummedType
<1>7. /\ Len(summed.sums) = Blocks(written.size)
      /\ \A b \in 1..Blocks(written.size) :
           /\ b \in touched =>
                summed.sums[b] = Content(written.file, written.size, b)
           /\ b \notin touched /\ b <= Len(written.sums) =>
                summed.sums[b] = written.sums[b]
  BY <1>2, RecomputedSums
<1> HIDE DEF summed
<1>8. ASSUME NEW b \in 1..Blocks(Len(written.file)), b \notin touched
      PROVE  /\ b \in 1..Blocks(Len(chunk.file))
             /\ Content(written.file, Len(written.file), b) =
                  Content(chunk.file, Len(chunk.file), b)
  <2>1. Len(data) \in 1..Len(data)
    BY <1>2
  <2> HIDE DEF touched
  <2>2. b \notin Touched(o, Len(data))
    BY <1>8 DEF touched
  <2>3. /\ chunk.file \in Seq(Unit) /\ o \in 0..Len(chunk.file)
        /\ Len(data) \in Nat \ {0} /\ data \in Seq(Byte)
        /\ written.file = Overwritten(chunk.file, o, data)
        /\ b \in 1..Blocks(Len(written.file))
    BY <1>2, <1>4, <1>8
  <2> QED BY ONLY <2>1, <2>2, <2>3, WrittenBlocks
<1>9. Beyond(summed) \subseteq Beyond(chunk) \cup touched
  <2>1. Len(data) \in 1..Len(data)
    BY <1>2
  <2>2. /\ summed.size \in 0..Len(summed.file) /\ chunk.size <= summed.size
        /\ summed.file = Overwritten(chunk.file, o, data)
    BY <1>2, <1>4, <1>6
  <2> QED BY <1>2, <1>4, <1>6, <2>1, <2>2, GrownBeyond
<1>10. ASSUME NEW b \in 1..Blocks(Len(written.file)), b \notin Beyond(summed),
              b \in touched \/ b \notin damaged
       PROVE  /\ b <= Len(summed.sums)
              /\ summed.sums[b] = Content(written.file, Len(written.file), b)
  <2>1. /\ b \in 1..Blocks(written.size)
        /\ Content(written.file, written.size, b) =
             Content(written.file, Len(written.file), b)
    <3>1. b \notin Beyond(written)
      BY <1>6, <1>10 DEF Beyond
    <3> QED BY <1>2, <1>10, <3>1, BeforeSize
  <2>2. b <= Len(summed.sums)
    <3>1. Blocks(written.size) \in Nat
      BY <1>2, <1>4, BlocksCount
    <3> QED BY <1>7, <2>1, <3>1
  <2>3. CASE b \in touched
    BY <1>7, <2>1, <2>2, <2>3
  <2>4. CASE b \notin touched
    <3>1. /\ b \in 1..Blocks(Len(chunk.file)) /\ b \notin damaged
          /\ Content(written.file, Len(written.file), b) =
               Content(chunk.file, Len(chunk.file), b)
      BY <1>8, <1>10, <2>4
    <3>2. /\ b <= Len(chunk.sums)
          /\ chunk.sums[b] = Content(chunk.file, Len(chunk.file), b)
      BY <1>5, <3>1 DEF SumsRight
    <3>3. summed.sums[b] = chunk.sums[b]
      BY <1>2, <1>7, <2>1, <2>4, <3>2
    <3> QED BY <2>2, <3>1, <3>2, <3>3
  <2> QED BY <2>3, <2>4
<1>11. CASE /\ chunk' = Persisted(summed)
            /\ damaged' = (damaged \ touched) \cup Beyond(summed)
  <2>1. /\ chunk'.file = written.file /\ chunk'.size = written.size
        /\ chunk'.exists = chunk.exists /\ chunk'.sums = summed.sums
        /\ chunk'.saved = summed.sums
    BY <1>2, <1>6, <1>11
  <2>2. SumsRight'
    BY <1>10, <1>11, <2>1 DEF SumsRight
  <2>3. SavedRight'
    BY <1>10, <1>11, <2>1 DEF SavedRight
  <2>4. Beyond(chunk') = Beyond(summed)
    BY <1>6, <2>1 DEF Beyond
  <2>5. BeyondDamaged' /\ NothingThere'
    BY <1>1, <1>11, <2>1, <2>4 DEF BeyondDamaged, NothingThere
  <2> QED BY <1>1, <2>2, <2>3, <2>5 DEF StoreInv
<1>12. CASE chunk' = summed /\ damaged' = damaged \cup touched
  <2>1. /\ chunk'.file = written.file /\ chunk'.size = written.size
        /\ chunk'.exists = chunk.exists /\ chunk'.sums = summed.sums
        /\ chunk'.saved = chunk.saved
    BY <1>2, <1>6, <1>12
  <2>2. Beyond(summed) \subseteq damaged'
    BY <1>5, <1>9, <1>12
  <2>3. SumsRight'
    BY <1>10, <1>12, <2>1, <2>2 DEF SumsRight
  <2>4. SavedRight'
    BY <1>5, <1>8, <1>12, <2>1 DEF SavedRight
  <2>5. BeyondDamaged' /\ NothingThere'
    BY <1>1, <1>12, <2>1, <2>2 DEF BeyondDamaged, NothingThere
  <2> QED BY <1>1, <2>3, <2>4, <2>5 DEF StoreInv
<1>13. ASSUME NEW n \in 1..Len(data) - 1,
              chunk' = [chunk EXCEPT
                !.file = Overwritten(@, o, SubSeq(data, 1, n))],
              damaged' = damaged \cup touched
       PROVE  StoreInv'
  <2> DEFINE part == SubSeq(data, 1, n)
             file == Overwritten(chunk.file, o, part)
  <2>1. part \in Seq(Byte) /\ Len(part) = n /\ Len(part) \in 1..Len(data)
    <3>1. n \in Int /\ 1 \in Int /\ 1 <= n /\ n <= Len(data) /\ n - 1 + 1 = n
      BY <1>2
    <3>2. \A i \in 1..n : data[i] \in Byte
      BY <3>1
    <3>3. part \in Seq(Byte) /\ Len(part) = n
      BY <3>1, <3>2, SubSeqProperties
    <3> QED BY <1>2, <3>1, <3>3
  <2> HIDE DEF part
  <2>2. file \in Seq(Unit) /\ Len(file) \in Nat
    <3>1. file \in Seq(Unit)
      BY <1>4, <2>1, OverwrittenFile
    <3> HIDE DEF file
    <3> QED BY <3>1
  <2>3. chunk' = [chunk EXCEPT !.file = file]
    BY <1>4, <1>13 DEF Chunk, part
  <2>4. file = Overwritten(chunk.file, o, part)
    OBVIOUS
  <2> HIDE DEF file
  <2>5. /\ chunk' \in Chunk /\ chunk'.file = file /\ chunk'.size = chunk.size
        /\ chunk'.exists = chunk.exists /\ chunk'.sums = chunk.sums
        /\ chunk'.saved = chunk.saved
    BY <1>4, <2>2, <2>3 DEF Chunk
  <2>6. ASSUME NEW b \in 1..Blocks(Len(file)), b \notin touched
        PROVE  /\ b \in 1..Blocks(Len(chunk.file))
               /\ Content(file, Len(file), b) =
                    Content(chunk.file, Len(chunk.file), b)
    <3>1. /\ chunk.file \in Seq(Unit) /\ o \in 0..Len(chunk.file)
          /\ Len(data) \in Nat \ {0} /\ part \in Seq(Byte)
          /\ Len(part) \in 1..Len(data)
          /\ b \in 1..Blocks(Len(file)) /\ b \notin Touched(o, Len(data))
      BY <1>2, <1>4, <2>1, <2>6
    <3> QED BY ONLY <2>4, <3>1, WrittenBlocks
  <2>7. SumsRight'
    BY <1>5, <1>13, <2>5, <2>6 DEF SumsRight
  <2>8. SavedRight'
    BY <1>5, <1>13, <2>5, <2>6 DEF SavedRight
  <2>9. Beyond(chunk') \subseteq damaged'
    <3>1. chunk'.size \in 0..Len(chunk'.file)
      BY <1>1, <1>4, <2>2, <2>5 DEF TypeOK
    <3>2. Beyond(chunk') \subseteq Beyond(chunk) \cup touched
      <4>1. /\ chunk \in Chunk /\ chunk.size \in 0..Len(chunk.file)
            /\ chunk' \in Chunk /\ chunk.size <= chunk'.size
            /\ o \in 0..chunk.size /\ Len(data) \in Nat \ {0}
            /\ part \in Seq(Byte) /\ Len(part) \in 1..Len(data)
            /\ chunk'.file = Overwritten(chunk.file, o, part)
        BY <1>2, <1>4, <2>1, <2>4, <2>5
      <4> QED BY ONLY <3>1, <4>1, GrownBeyond
    <3> QED BY <1>5, <1>13, <3>2
  <2>10. BeyondDamaged' /\ NothingThere'
    BY <1>1, <2>5, <2>9 DEF BeyondDamaged, NothingThere
  <2> QED BY <1>1, <2>7, <2>8, <2>10 DEF StoreInv
<1> QED BY <1>3, <1>11, <1>12, <1>13

\* A block that a truncation does not change: it ends before the old size and
\* before the new one.
LEMMA CutBlocks ==
  ASSUME NEW c \in Chunk, c.size \in 0..Len(c.file), NEW n \in Nat,
         NEW new, new = Resized(c.file, n),
         NEW b \in 1..Blocks(n), b \notin BlockAt(Least(c.size, n))..Blocks(n)
  PROVE  /\ b \in 1..Blocks(Len(c.file))
         /\ Content(new, n, b) = Content(c.file, Len(c.file), b)
<1> DEFINE m == Least(c.size, n)
           len == Len(c.file)
           lo == (b - 1) * BlockSize
           hi == b * BlockSize
<1>1. /\ c.file \in Seq(Unit) /\ len \in Nat /\ c.size \in Nat /\ c.size <= len
      /\ m \in Nat /\ m <= n /\ m <= c.size
  BY DEF Chunk, Least
<1>2. /\ Blocks(n) \in Nat /\ Blocks(len) \in Nat /\ BlockAt(m) \in Nat
  BY <1>1, BlocksCount, BlockAtBounds
<1>3. b \in Nat \ {0} /\ b < BlockAt(m)
  BY <1>2
<1>4. /\ lo \in Int /\ hi \in Int /\ lo >= 0 /\ lo < hi /\ hi <= m
  <2>1. lo \in Int /\ hi \in Int
    BY <1>3, Multiplication
  <2>2. hi <= m
    BY <1>1, <1>3, BlockAtBounds
  <2>3. hi = lo + BlockSize
    BY <1>3, StoreAssumption
  <2>4. 0 * BlockSize <= (b - 1) * BlockSize /\ 0 * BlockSize = 0
    BY <1>3, Multiplication, StoreAssumption
  <2>5. lo >= 0
    BY <2>4
  <2> HIDE DEF lo, hi
  <2> QED BY <2>1, <2>2, <2>3, <2>5, StoreAssumption
<1>5. /\ new \in Seq(Unit) /\ Len(new) = n
      /\ \A i \in 1..Least(len, n) : new[i] = c.file[i]
  BY <1>1, ResizedFile
<1> HIDE DEF lo, hi, m, len
<1>6. lo < len
  BY <1>1, <1>4
<1>7. b \in 1..Blocks(len)
  <2>1. b <= Blocks(len)
    BY <1>1, <1>3, <1>6, BlocksCount DEF lo
  <2> QED BY <1>2, <1>3, <2>1
<1>8. Least(hi, n) = hi /\ Least(hi, len) = hi
  BY <1>1, <1>4 DEF Least
<1>9. \A i \in lo + 1..hi : new[i] = c.file[i]
  <2>1. \A i \in lo + 1..hi : i \in 1..Least(len, n)
    BY <1>1, <1>4 DEF Least
  <2> QED BY <1>5, <2>1
<1>10. Content(new, n, b) = Content(c.file, len, b)
  <2>1. n \in 0..Len(new) /\ len \in 0..Len(c.file)
    BY <1>1, <1>5 DEF len
  <2>2. \A i \in (b - 1) * BlockSize + 1..Least(b * BlockSize, n) :
          new[i] = c.file[i]
    BY <1>8, <1>9 DEF lo, hi
  <2>3. Least(b * BlockSize, n) = Least(b * BlockSize, len)
    BY <1>8 DEF hi
  <2>4. new \in Seq(Unit) /\ c.file \in Seq(Unit) /\ b \in Nat \ {0}
    BY ONLY <1>1, <1>3, <1>5 DEF Chunk
  <2> QED BY ONLY <2>1, <2>2, <2>3, <2>4, ContentSame
<1> QED BY <1>7, <1>10 DEF len

\* Truncations keep the invariant.
LEMMA TruncateKeepsStore ==
  ASSUME StoreInv, NEW n \in 0..ChunkSize, TruncateChunk(n)
  PROVE  StoreInv'
<1> DEFINE cut == [chunk EXCEPT !.file = Resized(@, n), !.size = n]
           summed == AllRecomputed(cut)
           changed == BlockAt(Least(chunk.size, n))..Blocks(n)
<1>1. /\ n \in Nat /\ TypeOK /\ TypeOK' /\ chunk.exists
      /\ chunk \in Chunk /\ chunk.size \in 0..Len(chunk.file)
  <2>1. TypeOK /\ BeyondDamaged
    BY DEF StoreInv
  <2>2. IsOpen(chunk)
    BY DEF TruncateChunk
  <2>3. n \in Nat /\ TypeOK'
    BY <2>1, TruncateKeepsTypes, StoreAssumption
  <2>4. chunk.exists
    BY <2>1, <2>2 DEF BeyondDamaged
  <2> QED BY <2>1, <2>2, <2>3, <2>4 DEF TypeOK, Chunk, IsOpen, None
<1>2. /\ cut \in Chunk /\ cut.size \in 0..Len(cut.file)
      /\ cut.file = Resized(chunk.file, n) /\ cut.size = n
      /\ Len(cut.file) = n
      /\ cut.exists = chunk.exists /\ cut.saved = chunk.saved
  BY <1>1, TruncateTypes
<1>3. \/ chunk' = Persisted(summed) /\ damaged' = {}
      \/ /\ chunk' = summed
         /\ IF n = 0 THEN damaged' = {} ELSE damaged' = damaged \cup changed
  BY DEF TruncateChunk
<1> HIDE DEF cut
<1>4. /\ summed.file = cut.file /\ summed.size = cut.size
      /\ summed.exists = cut.exists /\ summed.saved = cut.saved
      /\ Persisted(summed).file = cut.file /\ Persisted(summed).size = cut.size
      /\ Persisted(summed).exists = cut.exists
      /\ Persisted(summed).sums = summed.sums
      /\ Persisted(summed).saved = summed.sums
  BY <1>2, SummedType DEF AllRecomputed
<1>5. /\ Len(summed.sums) = Blocks(n)
      /\ \A b \in 1..Blocks(n) : summed.sums[b] = Content(cut.file, n, b)
  BY <1>2, RecomputedSums DEF AllRecomputed
<1> HIDE DEF summed
<1>6. Blocks(n) \in Nat
  BY <1>1, BlocksCount
<1>7. /\ chunk'.file = cut.file /\ chunk'.size = n /\ Len(chunk'.file) = n
      /\ chunk'.exists /\ chunk'.sums = summed.sums
  BY <1>1, <1>2, <1>3, <1>4
<1>8. SumsRight'
  BY <1>5, <1>6, <1>7 DEF SumsRight
<1>9. SavedRight'
  <2>1. CASE chunk' = Persisted(summed)
    <3>1. chunk'.saved = summed.sums
      BY <1>4, <2>1
    <3> QED BY <1>5, <1>6, <1>7, <3>1 DEF SavedRight
  <2>2. CASE n = 0
    BY <1>7, <2>2, NoBlocks DEF SavedRight
  <2>3. CASE chunk' = summed /\ damaged' = damaged \cup changed
    <3>1. ASSUME NEW b \in 1..Blocks(n), b \notin changed
          PROVE  /\ b \in 1..Blocks(Len(chunk.file))
                 /\ Content(cut.file, n, b) =
                      Content(chunk.file, Len(chunk.file), b)
      BY ONLY <1>1, <1>2, <3>1, CutBlocks
    <3> HIDE DEF changed
    <3>2. chunk'.saved = chunk.saved
      BY <1>2, <1>4, <2>3
    <3>3. SavedRight
      BY DEF StoreInv
    <3> QED BY <1>7, <2>3, <3>1, <3>2, <3>3 DEF SavedRight
  <2> QED BY <1>3, <2>1, <2>2, <2>3
<1>10. BeyondDamaged' /\ NothingThere'
  BY <1>1, <1>7 DEF BeyondDamaged, NothingThere, Beyond
<1> QED BY <1>1, <1>8, <1>9, <1>10 DEF StoreInv

\* The other operations keep the invariant.
LEMMA OthersKeepStore ==
  ASSUME StoreInv,
         CreateChunk \/ DeleteChunk \/ OpenChunk \/ ReadNothing \/ Restart
  PROVE  StoreInv'
<1>1. /\ TypeOK /\ TypeOK' /\ SumsRight /\ SavedRight /\ NothingThere
      /\ chunk \in Chunk /\ Len(chunk.file) \in Nat
  BY OthersKeepTypes DEF StoreInv, TypeOK, Chunk
<1>2. ASSUME chunk'.file = <<>>, IsOpen(chunk') => chunk'.exists /\ chunk'.size = 0
      PROVE  StoreInv'
  <2>1. Len(chunk'.file) = 0
    BY <1>2
  <2>2. SumsRight' /\ SavedRight'
    BY <2>1, NoBlocks DEF SumsRight, SavedRight
  <2>3. BeyondDamaged' /\ NothingThere'
    BY <1>2, <2>1 DEF BeyondDamaged, NothingThere, Beyond
  <2> QED BY <1>1, <2>2, <2>3 DEF StoreInv
<1>3. CASE CreateChunk
  <2>1. chunk' = [chunk EXCEPT !.exists = TRUE, !.file = <<>>, !.size = 0]
    BY <1>3 DEF CreateChunk
  <2>2. chunk'.file = <<>> /\ chunk'.exists /\ chunk'.size = 0
    BY ONLY <1>1, <2>1 DEF Chunk
  <2> QED BY <1>2, <2>2
<1>4. CASE DeleteChunk
  <2>1. CASE chunk' = NoChunk
    <3>1. chunk'.file = <<>> /\ ~IsOpen(chunk')
      BY <2>1 DEF NoChunk, IsOpen
    <3> QED BY <1>2, <3>1
  <2>2. CASE chunk' = [NoChunk EXCEPT !.saved = chunk.saved]
    <3>1. chunk'.file = <<>> /\ chunk'.size = None
      BY <2>2 DEF NoChunk
    <3>2. ~IsOpen(chunk')
      BY <3>1 DEF IsOpen
    <3> QED BY <1>2, <3>1, <3>2
  <2>3. CASE chunk' = [chunk EXCEPT !.size = None] /\ UNCHANGED damaged
    <3>1. /\ chunk'.file = chunk.file /\ chunk'.size = None
          /\ chunk'.exists = chunk.exists /\ chunk'.sums = chunk.sums
          /\ chunk'.saved = chunk.saved
      BY ONLY <1>1, <2>3 DEF Chunk
    <3>2. SumsRight' /\ SavedRight'
      BY <1>1, <2>3, <3>1 DEF SumsRight, SavedRight
    <3>3. BeyondDamaged' /\ NothingThere'
      BY <1>1, <3>1 DEF BeyondDamaged, NothingThere, IsOpen
    <3> QED BY <1>1, <3>2, <3>3 DEF StoreInv
  <2> QED BY <1>4, <2>1, <2>2, <2>3 DEF DeleteChunk
<1>5. ASSUME chunk'.file = chunk.file, chunk'.exists = chunk.exists,
             UNCHANGED damaged,
             IsOpen(chunk') => chunk'.exists /\ chunk'.size = Len(chunk.file),
             SumsRight', SavedRight'
      PROVE  StoreInv'
  <2>1. BeyondDamaged' /\ NothingThere'
    BY <1>1, <1>5 DEF BeyondDamaged, NothingThere, Beyond
  <2> QED BY <1>1, <1>5, <2>1 DEF StoreInv
<1>6. Blocks(Len(chunk.file)) \in Nat
  BY <1>1, BlocksCount
<1>7. CASE OpenChunk \/ ReadNothing
  <2>1. /\ chunk' \in Chunk /\ chunk'.size \in 0..Len(chunk'.file)
        /\ chunk'.file = chunk.file
        /\ chunk'.size = IF IsOpen(chunk) THEN chunk.size ELSE Len(chunk.file)
        /\ chunk.exists /\ chunk'.exists /\ UNCHANGED damaged
        /\ \/ chunk'.sums = chunk.sums /\ chunk'.saved = chunk.saved
           \/ /\ Len(chunk'.sums) = Blocks(chunk'.size)
              /\ \A b \in 1..Blocks(chunk'.size) :
                   chunk'.sums[b] = Content(chunk.file, chunk'.size, b)
              /\ chunk'.saved = chunk'.sums \/ chunk'.saved = chunk.saved
    BY <1>1, <1>7, OpenTypes
  <2>2. Beyond(chunk') \subseteq damaged
    <3>1. CASE IsOpen(chunk)
      <4>1. Beyond(chunk) \subseteq damaged
        BY <3>1 DEF StoreInv, BeyondDamaged
      <4> QED BY <2>1, <3>1, <4>1 DEF Beyond
    <3>2. CASE ~IsOpen(chunk)
      BY <1>1, <2>1, <3>2 DEF Beyond
    <3> QED BY <3>1, <3>2
  <2>3. CASE chunk'.sums = chunk.sums /\ chunk'.saved = chunk.saved
    BY <1>1, <2>1, <2>2, <2>3 DEF StoreInv, SumsRight, SavedRight, BeyondDamaged,
                                  NothingThere
  <2>4. CASE /\ Len(chunk'.sums) = Blocks(chunk'.size)
             /\ \A b \in 1..Blocks(chunk'.size) :
                  chunk'.sums[b] = Content(chunk.file, chunk'.size, b)
             /\ chunk'.saved = chunk'.sums \/ chunk'.saved = chunk.saved
    <3>1. ASSUME NEW b \in 1..Blocks(Len(chunk'.file)), b \notin damaged
          PROVE  /\ b <= Len(chunk'.sums)
                 /\ chunk'.sums[b] = Content(chunk'.file, Len(chunk'.file), b)
      <4>1. /\ b \in 1..Blocks(chunk'.size)
            /\ Content(chunk'.file, chunk'.size, b) =
                 Content(chunk'.file, Len(chunk'.file), b)
        <5>1. b \notin Beyond(chunk')
          BY <2>2, <3>1
        <5> QED BY ONLY <2>1, <3>1, <5>1, BeforeSize
      <4>2. Blocks(chunk'.size) \in Nat
        <5>1. chunk'.size \in Nat
          BY <2>1
        <5> QED BY <5>1, BlocksCount
      <4> QED BY <2>1, <2>4, <4>1, <4>2
    <3>2. SumsRight'
      BY <2>1, <3>1 DEF SumsRight
    <3>3. SavedRight'
      BY <1>1, <2>1, <2>4, <3>1 DEF SavedRight
    <3>4. BeyondDamaged' /\ NothingThere'
      BY <2>1, <2>2 DEF BeyondDamaged, NothingThere
    <3> QED BY <1>1, <3>2, <3>3, <3>4 DEF StoreInv
  <2> QED BY <2>1, <2>3, <2>4
<1>8. CASE Restart
  <2>1. chunk' = Initialized(chunk) /\ UNCHANGED damaged
    BY <1>8 DEF Restart
  <2>2. chunk'.file = chunk.file /\ chunk'.exists = chunk.exists
    BY <1>1, <2>1, InitializedTypes
  <2>3. CASE ~chunk.exists
    <3>1. chunk'.file = <<>> /\ ~IsOpen(chunk')
      BY <1>1, <2>1, <2>2, <2>3, InitializedTypes DEF NothingThere, IsOpen
    <3> QED BY <1>2, <3>1
  <2>4. CASE chunk.exists
    <3>1. /\ chunk'.size = Len(chunk.file)
          /\ \/ /\ chunk'.sums = chunk.saved /\ chunk'.saved = chunk.saved
                /\ Len(chunk.saved) = Blocks(Len(chunk.file))
             \/ /\ chunk'.saved = chunk'.sums
                /\ Len(chunk'.sums) = Blocks(Len(chunk.file))
                /\ \A b \in 1..Blocks(Len(chunk.file)) :
                     chunk'.sums[b] = Content(chunk.file, Len(chunk.file), b)
      BY <1>1, <2>1, <2>4, InitializedTypes
    <3>2. SumsRight'
      BY <1>1, <1>6, <2>1, <2>2, <3>1 DEF SumsRight, SavedRight
    <3>3. SavedRight'
      BY <1>1, <1>6, <2>1, <2>2, <3>1 DEF SavedRight
    <3> QED BY <1>5, <2>1, <2>2, <2>4, <3>1, <3>2, <3>3
  <2> QED BY <2>3, <2>4
<1> QED BY <1>3, <1>4, <1>7, <1>8

\* Every step keeps the invariant when writes begin within the chunk.
LEMMA NextKeepsStore ==
  ASSUME Holes = FALSE, StoreInv, [Next]_vars
  PROVE  StoreInv'
<1>1. ASSUME NEW n \in 0..ChunkSize, TruncateChunk(n) PROVE StoreInv'
  BY <1>1, TruncateKeepsStore
<1>2. ASSUME NEW o \in 0..ChunkSize, NEW n \in 1..MaxLength,
             NEW data \in [1..n -> Byte], MayBegin(o), WriteChunk(o, data)
      PROVE  StoreInv'
  <2>1. o \in Nat /\ n \in Nat
    BY StoreAssumption
  <2>2. data \in Seq(Byte)
    BY <2>1
  <2>3. o <= chunk.size
    BY <1>2 DEF MayBegin
  <2> QED BY <1>2, <2>1, <2>2, <2>3, WriteKeepsStore
<1>3. CASE CreateChunk \/ DeleteChunk \/ OpenChunk \/ ReadNothing \/ Restart
  BY <1>3, OthersKeepStore
<1>4. CASE UNCHANGED vars
  <2>1. UNCHANGED <<chunk, damaged, faults>>
    BY <1>4 DEF vars
  <2> QED BY <2>1 DEF StoreInv, TypeOK, SumsRight, SavedRight, BeyondDamaged,
                     NothingThere
<1> QED BY <1>1, <1>2, <1>3, <1>4 DEF Next

\* The invariant says that blocks which are not damaged can be read.
LEMMA StoreReadable == StoreInv => DamageContained
<1> SUFFICES ASSUME StoreInv, IsOpen(chunk), NEW b \in 1..Blocks(chunk.size),
                    b \notin damaged
             PROVE  Verified(chunk, b)
  BY DEF DamageContained
<1>1. /\ chunk \in Chunk /\ chunk.size \in 0..Len(chunk.file)
      /\ chunk.size \in Nat /\ Len(chunk.file) \in Nat
  BY DEF StoreInv, TypeOK, Chunk, IsOpen, None
<1>2. b \in 1..Blocks(Len(chunk.file))
  <2>1. Blocks(chunk.size) <= Blocks(Len(chunk.file))
    BY <1>1, MoreBlocks
  <2>2. Blocks(chunk.size) \in Nat /\ Blocks(Len(chunk.file)) \in Nat
    BY <1>1, BlocksCount
  <2>3. b \in 1..Blocks(chunk.size)
    OBVIOUS
  <2> QED BY ONLY <2>1, <2>2, <2>3
<1>3. Content(chunk.file, chunk.size, b) = Content(chunk.file, Len(chunk.file), b)
  <2>1. b \notin Beyond(chunk)
    BY DEF StoreInv, BeyondDamaged
  <2> QED BY <1>1, <1>2, <2>1, BeforeSize
<1>4. /\ b <= Len(chunk.sums)
      /\ chunk.sums[b] = Content(chunk.file, Len(chunk.file), b)
  BY <1>2 DEF StoreInv, SumsRight
<1> QED BY <1>3, <1>4 DEF Verified

\* For any data, sizes and number of failures, and as long as writes begin
\* within the chunk: only blocks that a failed operation was to change can
\* become unreadable.
THEOREM DamageContainedHolds ==
  ASSUME Holes = FALSE
  PROVE  Spec => []DamageContained
<1>1. Init => StoreInv
  <2> SUFFICES ASSUME Init PROVE StoreInv
    OBVIOUS
  <2>1. chunk.file = <<>> /\ chunk.size = None /\ Len(chunk.file) = 0
    <3>1. chunk.file = <<>> /\ chunk.size = None
      BY DEF Init, NoChunk
    <3> QED BY <3>1
  <2>2. SumsRight /\ SavedRight
    BY <2>1, NoBlocks DEF SumsRight, SavedRight
  <2>3. BeyondDamaged /\ NothingThere
    BY <2>1 DEF BeyondDamaged, NothingThere, IsOpen
  <2>4. TypeOK
    <3>1. chunk \in Chunk /\ chunk.size = -1
      BY DEF Init, NoChunk, Chunk, None
    <3>2. damaged \subseteq Nat /\ faults \in [Fault -> Nat]
      BY DEF Init
    <3> QED BY <2>1, <3>1, <3>2, StoreAssumption DEF TypeOK
  <2> QED BY <2>2, <2>3, <2>4 DEF StoreInv
<1>2. StoreInv /\ [Next]_vars => StoreInv'
  BY NextKeepsStore
<1> QED BY <1>1, <1>2, StoreReadable, PTL DEF Spec

-----------------------------------------------------------------------------
(* Restarts without failures.                                              *)

NoFaults == \A f \in Fault : faults[f] = 0

\* Without failures a chunk that is there is open, its size is that of its
\* file, it has a checksum for each block and the checksum file has the same.
InStep ==
  /\ chunk.saved = chunk.sums
  /\ IsOpen(chunk) <=> chunk.exists
  /\ ~chunk.exists => chunk.file = <<>> /\ chunk.sums = <<>>
  /\ chunk.exists => /\ chunk.size = Len(chunk.file)
                     /\ Len(chunk.sums) = Blocks(chunk.size)

RestartInv == TypeOK /\ (NoFaults => InStep)

\* Writes keep a chunk in step with its checksum file.
LEMMA WriteInStep ==
  ASSUME TypeOK, NoFaults', InStep, NEW o \in Nat, NEW data \in Seq(Byte),
         WriteChunk(o, data)
  PROVE  InStep'
<1> DEFINE written == [chunk EXCEPT !.file = Overwritten(@, o, data),
                                    !.size = Most(@, o + Len(data))]
           touched == Touched(o, Len(data))
           summed == Recomputed(written, touched)
<1>1. /\ IsOpen(chunk) /\ Fits(o, data)
      /\ \/ chunk' = Persisted(summed)
         \/ GoesWrong("persist") \/ GoesWrong("write")
  BY DEF WriteChunk
<1>2. chunk' = Persisted(summed)
  BY <1>1, FaultsType DEF NoFaults
<1>3. /\ written \in Chunk /\ written.size \in 0..Len(written.file)
      /\ written.size = Most(chunk.size, o + Len(data))
      /\ Len(written.file) = Most(Len(chunk.file), o + Len(data))
      /\ written.exists = chunk.exists
  BY <1>1, WriteTypes
<1> HIDE DEF written
<1>4. /\ Persisted(summed).file = written.file
      /\ Persisted(summed).size = written.size
      /\ Persisted(summed).exists = written.exists
      /\ Persisted(summed).sums = summed.sums
      /\ Persisted(summed).saved = summed.sums
      /\ Len(summed.sums) = Blocks(written.size)
  BY <1>3, SummedType, RecomputedSums
<1> HIDE DEF summed
<1>5. chunk.exists /\ chunk.size = Len(chunk.file)
  BY <1>1 DEF InStep
<1>6. written.size = Len(written.file) /\ written.size # None
  BY <1>3, <1>5 DEF None
<1> QED BY <1>2, <1>3, <1>4, <1>5, <1>6 DEF InStep, IsOpen

\* Truncations keep a chunk in step with its checksum file.
LEMMA TruncateInStep ==
  ASSUME TypeOK, NoFaults', InStep, NEW n \in Nat, TruncateChunk(n)
  PROVE  InStep'
<1> DEFINE cut == [chunk EXCEPT !.file = Resized(@, n), !.size = n]
           summed == AllRecomputed(cut)
<1>1. /\ IsOpen(chunk)
      /\ chunk' = Persisted(summed) \/ GoesWrong("unsum") \/ GoesWrong("persist")
  BY DEF TruncateChunk
<1>2. chunk' = Persisted(summed)
  BY <1>1, FaultsType DEF NoFaults
<1>3. /\ cut \in Chunk /\ cut.size \in 0..Len(cut.file)
      /\ cut.size = n /\ Len(cut.file) = n /\ cut.exists = chunk.exists
  BY TruncateTypes
<1> HIDE DEF cut
<1>4. /\ Persisted(summed).file = cut.file
      /\ Persisted(summed).size = cut.size
      /\ Persisted(summed).exists = cut.exists
      /\ Persisted(summed).sums = summed.sums
      /\ Persisted(summed).saved = summed.sums
      /\ Len(summed.sums) = Blocks(cut.size)
  BY <1>3, SummedType, RecomputedSums DEF AllRecomputed
<1> HIDE DEF summed
<1>5. chunk.exists
  BY <1>1 DEF InStep
<1>6. n # None
  BY DEF None
<1> QED BY <1>2, <1>3, <1>4, <1>5, <1>6 DEF InStep, IsOpen

\* The other operations keep a chunk in step with its checksum file.
LEMMA OthersInStep ==
  ASSUME TypeOK, NoFaults', InStep,
         CreateChunk \/ DeleteChunk \/ OpenChunk \/ ReadNothing \/ Restart
  PROVE  InStep'
<1>1. chunk \in Chunk /\ Len(chunk.file) \in Nat
  BY DEF TypeOK, Chunk
<1>2. CASE CreateChunk
  <2>1. /\ chunk' = [chunk EXCEPT !.exists = TRUE, !.file = <<>>, !.size = 0]
        /\ ~chunk.exists
    BY <1>2 DEF CreateChunk
  <2>2. /\ chunk'.file = <<>> /\ chunk'.exists /\ chunk'.size = 0
        /\ chunk'.sums = chunk.sums /\ chunk'.saved = chunk.saved
    BY ONLY <1>1, <2>1 DEF Chunk
  <2>3. chunk.sums = <<>> /\ chunk.saved = <<>>
    BY <2>1 DEF InStep
  <2>4. Len(chunk'.file) = 0 /\ Len(chunk'.sums) = 0
    BY <2>2, <2>3
  <2>5. IsOpen(chunk')
    BY <2>2 DEF IsOpen, None
  <2> QED BY <2>2, <2>3, <2>4, <2>5, NoBlocks DEF InStep
<1>3. CASE DeleteChunk
  <2>1. chunk' = NoChunk
    BY <1>3, FaultsType DEF DeleteChunk, NoFaults
  <2> QED BY <2>1 DEF InStep, NoChunk, IsOpen
<1>4. CASE OpenChunk \/ ReadNothing
  <2>1. /\ chunk'.file = chunk.file
        /\ chunk'.size = IF IsOpen(chunk) THEN chunk.size ELSE Len(chunk.file)
        /\ chunk.exists /\ chunk'.exists
        /\ \/ chunk'.sums = chunk.sums /\ chunk'.saved = chunk.saved
           \/ /\ Len(chunk'.sums) = Blocks(chunk'.size)
              /\ chunk'.saved = chunk'.sums \/ GoesWrong("persist")
    BY <1>4, OpenTypes
  <2>2. chunk'.size = chunk.size /\ IsOpen(chunk)
    BY <2>1 DEF InStep
  <2>3. ~GoesWrong("persist")
    BY FaultsType DEF NoFaults
  <2> QED BY <2>1, <2>2, <2>3 DEF InStep, IsOpen
<1>5. CASE Restart
  <2>1. chunk' = Initialized(chunk)
    BY <1>5 DEF Restart
  <2>2. chunk'.file = chunk.file /\ chunk'.exists = chunk.exists
    BY <2>1, InitializedTypes
  <2>3. CASE ~chunk.exists
    <3>1. /\ chunk'.size = None /\ chunk'.sums = <<>>
          /\ chunk'.saved = chunk.saved
      BY <2>1, <2>3, InitializedTypes
    <3>2. chunk.saved = <<>> /\ chunk.file = <<>>
      BY <2>3 DEF InStep
    <3> QED BY <2>2, <2>3, <3>1, <3>2 DEF InStep, IsOpen
  <2>4. CASE chunk.exists
    <3>1. /\ chunk'.size = Len(chunk.file) /\ chunk'.saved = chunk'.sums
          /\ Len(chunk'.sums) = Blocks(Len(chunk.file))
      BY <2>1, <2>4, InitializedTypes
    <3>2. chunk'.size # None
      BY <1>1, <3>1 DEF None
    <3> QED BY <2>2, <2>4, <3>1, <3>2 DEF InStep, IsOpen
  <2> QED BY <2>3, <2>4
<1> QED BY <1>2, <1>3, <1>4, <1>5

\* Every step keeps the invariant: a step without a fault follows a state
\* without faults.
LEMMA NextKeepsRestart ==
  ASSUME RestartInv, [Next]_vars
  PROVE  RestartInv'
<1>1. TypeOK /\ TypeOK' /\ (NoFaults => InStep)
  BY NextKeepsTypes DEF RestartInv
<1> SUFFICES ASSUME NoFaults' PROVE InStep'
  BY <1>1 DEF RestartInv
<1>2. NoFaults
  <2>1. UNCHANGED faults \/ \E f \in Fault : GoesWrong(f)
    BY DEF Next, vars, CreateChunk, DeleteChunk, OpenChunk, ReadNothing, Restart,
           TruncateChunk, WriteChunk, GoesWrong
  <2>2. CASE UNCHANGED faults
    BY <2>2 DEF NoFaults
  <2>3. CASE \E f \in Fault : GoesWrong(f)
    BY <1>1, <2>3, FaultsType DEF NoFaults
  <2> QED BY <2>1, <2>2, <2>3
<1>3. InStep
  BY <1>1, <1>2
<1>4. ASSUME NEW n \in 0..ChunkSize, TruncateChunk(n) PROVE InStep'
  <2>1. n \in Nat
    BY StoreAssumption
  <2> QED BY <1>1, <1>3, <1>4, <2>1, TruncateInStep
<1>5. ASSUME NEW o \in 0..ChunkSize, NEW n \in 1..MaxLength,
             NEW data \in [1..n -> Byte], WriteChunk(o, data)
      PROVE  InStep'
  <2>1. o \in Nat /\ n \in Nat
    BY StoreAssumption
  <2>2. data \in Seq(Byte)
    BY <2>1
  <2> QED BY <1>1, <1>3, <1>5, <2>1, <2>2, WriteInStep
<1>6. CASE CreateChunk \/ DeleteChunk \/ OpenChunk \/ ReadNothing \/ Restart
  BY <1>1, <1>3, <1>6, OthersInStep
<1>7. CASE UNCHANGED vars
  BY <1>3, <1>7 DEF vars, InStep
<1> QED BY <1>4, <1>5, <1>6, <1>7 DEF Next

\* A restart of a chunk that is in step with its files leaves it as it was.
LEMMA InStepRestarts ==
  ASSUME TypeOK, InStep, IsOpen(chunk)
  PROVE  Initialized(chunk) = chunk
<1>1. /\ chunk \in Chunk /\ chunk.exists /\ chunk.saved = chunk.sums
      /\ chunk.size = Len(chunk.file) /\ Len(chunk.sums) = Blocks(chunk.size)
  BY DEF TypeOK, InStep
<1>2. Initialized(chunk) =
        [chunk EXCEPT !.size = Len(chunk.file), !.sums = chunk.saved]
  BY <1>1 DEF Initialized
<1>3. [chunk EXCEPT !.size = Len(chunk.file), !.sums = chunk.saved] = chunk
  BY ONLY <1>1 DEF Chunk
<1> QED BY <1>2, <1>3

\* As long as no operation has failed, a chunkserver that restarts finds every
\* chunk with the size and the checksums it had.
THEOREM RestartChangesNothingHolds == Spec => []RestartChangesNothing
<1>1. Init => RestartInv
  <2> SUFFICES ASSUME Init PROVE RestartInv
    OBVIOUS
  <2>1. /\ chunk \in Chunk /\ chunk.size = -1 /\ chunk.file = <<>>
        /\ damaged \subseteq Nat /\ faults \in [Fault -> Nat]
    BY DEF Init, NoChunk, Chunk, None
  <2>2. Len(chunk.file) = 0
    BY <2>1
  <2>3. TypeOK
    BY <2>1, <2>2, StoreAssumption DEF TypeOK
  <2>4. InStep
    BY DEF Init, NoChunk, InStep, IsOpen
  <2> QED BY <2>3, <2>4 DEF RestartInv
<1>2. RestartInv /\ [Next]_vars => RestartInv'
  BY NextKeepsRestart
<1>3. RestartInv => RestartChangesNothing
  BY InStepRestarts DEF RestartInv, RestartChangesNothing, NoFaults
<1> QED BY <1>1, <1>2, <1>3, PTL DEF Spec

=============================================================================
