--------------------------- MODULE MetadataProofs ---------------------------
(***************************************************************************)
(* Every function of Metadata that the master or its replay applies to the *)
(* tables keeps them consistent.                                           *)
(***************************************************************************)
EXTENDS Metadata, TLAPS, SequenceTheorems, WellFoundedInduction

-----------------------------------------------------------------------------
(* The functions of the namespace.                                         *)

\* A fresh master has consistent tables.
LEMMA EmptyConsistent == Consistent(EmptyState)
<1>1. IsState(EmptyState)
  BY DEF IsState, EmptyState, Tables, Root, Handle, NodeType
<1>2. TreeConnected(EmptyState) /\ NamespaceMatchesFiles(EmptyState)
  BY DEF EmptyState, Tables, TreeConnected, NamespaceMatchesFiles, IsDirectory, Exists
<1>3. ChunksResolvable(EmptyState) /\ HandlesBelowNext(EmptyState)
  BY DEF EmptyState, Tables, ChunksResolvable, HandlesBelowNext
<1> QED BY <1>1, <1>2, <1>3 DEF Consistent

\* NamespaceManager::CreateDirectory keeps the tables consistent.
LEMMA WithDirectoryConsistent ==
  ASSUME NEW st, Consistent(st), NEW p \in Seq(Name), CanAddNode(st, p)
  PROVE  Consistent(WithDirectory(st, p))
<1> DEFINE new == WithDirectory(st, p)
<1>1. new = [ns |-> Put(st.ns, p, "Directory"), files |-> st.files,
             chunks |-> st.chunks, next |-> st.next]
  BY DEF WithDirectory, Tables
<1> HIDE DEF new
<1>2. IsState(new)
  BY <1>1 DEF Consistent, IsState, Tables, Put, NodeType
<1>3. TreeConnected(new)
  BY <1>1 DEF Consistent, TreeConnected, IsDirectory, Exists, CanAddNode, Put
<1>4. NamespaceMatchesFiles(new)
  BY <1>1 DEF Consistent, NamespaceMatchesFiles, Exists, CanAddNode, Put
<1>5. ChunksResolvable(new) /\ HandlesBelowNext(new)
  BY <1>1 DEF Consistent, ChunksResolvable, HandlesBelowNext
<1> QED BY <1>2, <1>3, <1>4, <1>5 DEF Consistent, new

\* So does the creation of a file in the namespace and in the file table.
LEMMA WithFileConsistent ==
  ASSUME NEW st, Consistent(st), NEW p \in Seq(Name), NEW factor \in Factor,
         CanAddNode(st, p)
  PROVE  Consistent(WithFile(st, p, factor))
<1> DEFINE new == WithFile(st, p, factor)
           file == [size |-> 0, factor |-> factor, chunks |-> <<>>]
<1>1. new = [ns |-> Put(st.ns, p, "File"), files |-> Put(st.files, p, file),
             chunks |-> st.chunks, next |-> st.next]
  BY DEF WithFile, Tables
<1>2. file \in FileMetadata /\ file.chunks = <<>>
  BY DataAssumption DEF FileMetadata
<1> HIDE DEF new, file
<1>3. IsState(new)
  BY <1>1, <1>2 DEF Consistent, IsState, Tables, Put, NodeType
<1>4. TreeConnected(new)
  BY <1>1 DEF Consistent, TreeConnected, IsDirectory, Exists, CanAddNode, Put
<1>5. NamespaceMatchesFiles(new)
  BY <1>1 DEF Consistent, NamespaceMatchesFiles, Exists, CanAddNode, Put
<1>6. ChunksResolvable(new)
  BY <1>1, <1>2 DEF Consistent, ChunksResolvable, Put, Range, IsInjective
<1>7. HandlesBelowNext(new)
  BY <1>1 DEF Consistent, HandlesBelowNext
<1> QED BY <1>3, <1>4, <1>5, <1>6, <1>7 DEF Consistent, new

\* So does the deletion of a file: no other file refers to the chunks it takes.
LEMMA WithoutFileConsistent ==
  ASSUME NEW st, Consistent(st), NEW p, IsFile(st, p)
  PROVE  Consistent(WithoutFile(st, p))
<1> DEFINE new == WithoutFile(st, p)
           dead == {h \in DOMAIN st.chunks : Holders(st, h) = {p}}
<1>1. new = [ns |-> Drop(st.ns, {p}), files |-> Drop(st.files, {p}),
             chunks |-> Drop(st.chunks, dead), next |-> st.next]
  BY DEF WithoutFile, Tables
<1>2. \A q \in DOMAIN st.files \ {p} :
        Range(st.files[q].chunks) \cap dead = {}
  BY DEF Holders
<1> HIDE DEF new, dead
<1>3. IsState(new)
  BY <1>1 DEF Consistent, IsState, Tables, Drop, Restrict
<1>4. TreeConnected(new)
  BY <1>1 DEF Consistent, TreeConnected, IsDirectory, IsFile, Exists, Drop,
              Restrict
<1>5. NamespaceMatchesFiles(new)
  BY <1>1 DEF Consistent, NamespaceMatchesFiles, Drop, Restrict
<1>6. ChunksResolvable(new)
  BY <1>1, <1>2 DEF Consistent, ChunksResolvable, Drop, Restrict
<1>7. HandlesBelowNext(new)
  BY <1>1 DEF Consistent, HandlesBelowNext, Drop, Restrict
<1> QED BY <1>3, <1>4, <1>5, <1>6, <1>7 DEF Consistent, new

\* So does a rename in the namespace and in the file table.
LEMMA WithRenamedConsistent ==
  ASSUME NEW st, Consistent(st), NEW src, NEW dst \in Seq(Name),
         CanRename(st, src, dst)
  PROVE  Consistent(WithRenamed(st, src, dst))
<1> DEFINE new == WithRenamed(st, src, dst)
<1>1. new = [ns |-> Put(Drop(st.ns, {src}), dst, "File"),
             files |-> Put(Drop(st.files, {src}), dst, st.files[src]),
             chunks |-> st.chunks, next |-> st.next]
  BY DEF WithRenamed, Tables
<1> HIDE DEF new
<1>2. IsState(new)
  BY <1>1 DEF Consistent, IsState, Tables, CanRename, HasFile, Put, Drop, Restrict,
              NodeType
<1>3. TreeConnected(new)
  BY <1>1 DEF Consistent, TreeConnected, IsDirectory, IsFile, Exists,
              CanRename, CanAddNode, Put, Drop, Restrict
<1>4. NamespaceMatchesFiles(new)
  BY <1>1 DEF Consistent, NamespaceMatchesFiles, Exists, CanRename,
              CanAddNode, Put, Drop, Restrict
<1>5. ChunksResolvable(new)
  BY <1>1 DEF Consistent, ChunksResolvable, CanRename, HasFile, Put, Drop,
              Restrict
<1>6. HandlesBelowNext(new)
  BY <1>1 DEF Consistent, HandlesBelowNext
<1> QED BY <1>2, <1>3, <1>4, <1>5, <1>6 DEF Consistent, new

-----------------------------------------------------------------------------
(* The functions of the file and chunk tables.                             *)

\* The size of a file plays no part in the consistency of the tables.
LEMMA WithSizeConsistent ==
  ASSUME NEW st, Consistent(st), NEW p, HasFile(st, p), NEW size \in Size
  PROVE  Consistent(WithSize(st, p, size))
<1> DEFINE files == [st.files EXCEPT ![p].size = size]
           new == WithSize(st, p, size)
<1>1. new = Tables(st.ns, files, st.chunks, st.next)
  BY DEF WithSize
<1>2. /\ files \in [DOMAIN st.files -> FileMetadata]
      /\ \A q \in DOMAIN st.files : files[q].chunks = st.files[q].chunks
  BY DEF Consistent, IsState, FileMetadata, HasFile
<1> HIDE DEF new, files
<1>3. IsState(new)
  BY <1>1, <1>2 DEF Consistent, IsState, Tables
<1>4. /\ TreeConnected(new)
      /\ NamespaceMatchesFiles(new)
      /\ ChunksResolvable(new)
      /\ HandlesBelowNext(new)
  BY <1>1, <1>2 DEF Consistent, Tables, TreeConnected, IsDirectory, Exists,
    NamespaceMatchesFiles, ChunksResolvable, HandlesBelowNext
<1> QED BY <1>3, <1>4 DEF Consistent, new

\* SetChunkVersion and SetChunkSize replace one entry of the chunk table.
LEMMA ChunkUpdateConsistent ==
  ASSUME NEW st, Consistent(st),
         NEW chunks \in [DOMAIN st.chunks -> ChunkMetadata]
  PROVE  Consistent(Tables(st.ns, st.files, chunks, st.next))
BY DEF Consistent, IsState, Tables, TreeConnected, IsDirectory, Exists,
  NamespaceMatchesFiles, ChunksResolvable, HandlesBelowNext

\* SetChunkVersion keeps the tables consistent.
LEMMA WithChunkVersionConsistent ==
  ASSUME NEW st, Consistent(st), NEW h, HasChunk(st, h), NEW v \in Version
  PROVE  Consistent(WithChunkVersion(st, h, v))
<1> DEFINE chunks == [st.chunks EXCEPT ![h].version = v]
<1>1. WithChunkVersion(st, h, v) = Tables(st.ns, st.files, chunks, st.next)
  BY DEF WithChunkVersion
<1>2. chunks \in [DOMAIN st.chunks -> ChunkMetadata]
  BY DEF Consistent, IsState, ChunkMetadata, HasChunk
<1> QED BY <1>1, <1>2, ChunkUpdateConsistent

\* SetChunkSize keeps the tables consistent.
LEMMA WithChunkSizeConsistent ==
  ASSUME NEW st, Consistent(st), NEW h, HasChunk(st, h), NEW size \in Size
  PROVE  Consistent(WithChunkSize(st, h, size))
<1> DEFINE chunks == [st.chunks EXCEPT ![h].size = size]
<1>1. WithChunkSize(st, h, size) = Tables(st.ns, st.files, chunks, st.next)
  BY DEF WithChunkSize
<1>2. chunks \in [DOMAIN st.chunks -> ChunkMetadata]
  BY DEF Consistent, IsState, ChunkMetadata, HasChunk
<1> QED BY <1>1, <1>2, ChunkUpdateConsistent

\* A file may be given any list of known chunks without a repetition.
LEMMA WithChunkListConsistent ==
  ASSUME NEW st, Consistent(st), NEW p, HasFile(st, p),
         NEW list \in Seq(Handle),
         Range(list) \subseteq DOMAIN st.chunks, IsInjective(list)
  PROVE  Consistent(WithChunkList(st, p, list))
<1> DEFINE files == [st.files EXCEPT ![p].chunks = list]
           new == WithChunkList(st, p, list)
<1>1. new = Tables(st.ns, files, st.chunks, st.next)
  BY DEF WithChunkList
<1>2. /\ files \in [DOMAIN st.files -> FileMetadata]
      /\ \A q \in DOMAIN st.files :
           files[q].chunks = IF q = p THEN list ELSE st.files[q].chunks
  BY DEF Consistent, IsState, FileMetadata, HasFile
<1> HIDE DEF new, files
<1>3. IsState(new)
  BY <1>1, <1>2 DEF Consistent, IsState, Tables
<1>4. ChunksResolvable(new)
  BY <1>1, <1>2 DEF Consistent, Tables, ChunksResolvable
<1>5. /\ TreeConnected(new)
      /\ NamespaceMatchesFiles(new)
      /\ HandlesBelowNext(new)
  BY <1>1, <1>2 DEF Consistent, Tables, TreeConnected, IsDirectory, Exists,
    NamespaceMatchesFiles, HandlesBelowNext
<1> QED BY <1>3, <1>4, <1>5 DEF Consistent, new

\* A chunk entered in the table without a file raises the next handle above it.
LEMMA WithStandaloneChunkConsistent ==
  ASSUME NEW st, Consistent(st), NEW h \in Handle, NEW chunk \in ChunkMetadata
  PROVE  Consistent(WithStandaloneChunk(st, h, chunk))
<1> DEFINE new == WithStandaloneChunk(st, h, chunk)
<1>1. new = Tables(st.ns, st.files, Put(st.chunks, h, chunk),
                   NextAfter(st.next, h))
  BY DEF WithStandaloneChunk
<1> HIDE DEF new
<1>2. IsState(new)
  BY <1>1 DEF Consistent, IsState, Tables, Put, NextAfter, Handle
<1>3. HandlesBelowNext(new)
  BY <1>1 DEF Consistent, IsState, HandlesBelowNext, Tables, Put, NextAfter,
    Handle
<1>4. /\ TreeConnected(new)
      /\ NamespaceMatchesFiles(new)
      /\ ChunksResolvable(new)
  BY <1>1 DEF Consistent, Tables, TreeConnected, IsDirectory, Exists,
    NamespaceMatchesFiles, ChunksResolvable, Put
<1> QED BY <1>2, <1>3, <1>4 DEF Consistent, new

\* A chunk appended to a list that does not name it.
LEMMA AppendKeepsInjective ==
  ASSUME NEW s \in Seq(Handle), NEW h \in Handle,
         IsInjective(s), h \notin Range(s)
  PROVE  /\ Append(s, h) \in Seq(Handle)
         /\ Range(Append(s, h)) = Range(s) \cup {h}
         /\ IsInjective(Append(s, h))
<1>1. /\ Append(s, h) \in Seq(Handle)
      /\ DOMAIN Append(s, h) = 1..(Len(s) + 1)
      /\ DOMAIN s = 1..Len(s)
      /\ \A i \in 1..Len(s) : Append(s, h)[i] = s[i]
      /\ Append(s, h)[Len(s) + 1] = h
  OBVIOUS
<1>2. Range(Append(s, h)) = Range(s) \cup {h}
  BY <1>1 DEF Range
<1>3. IsInjective(Append(s, h))
  BY <1>1 DEF Range, IsInjective
<1> QED BY <1>1, <1>2, <1>3

\* A chunk taken out of a list leaves the rest of it.
LEMMA WithoutChunkKeepsInjective ==
  ASSUME NEW s \in Seq(Handle), NEW h, IsInjective(s)
  PROVE  /\ WithoutChunk(s, h) \in Seq(Handle)
         /\ Range(WithoutChunk(s, h)) = Range(s) \ {h}
         /\ IsInjective(WithoutChunk(s, h))
<1>1. CASE h \notin Range(s)
  BY <1>1 DEF WithoutChunk
<1>2. CASE h \in Range(s)
  <2> DEFINE i == CHOOSE i \in DOMAIN s : s[i] = h
             t == [j \in 1..(Len(s) - 1) |-> IF j < i THEN s[j] ELSE s[j + 1]]
  <2>1. i \in DOMAIN s /\ s[i] = h
    BY <1>2 DEF Range
  <2>2. WithoutChunk(s, h) = t
    BY <1>2 DEF WithoutChunk
  <2>3. DOMAIN s = 1..Len(s) /\ Len(s) \in Nat /\ i \in 1..Len(s)
    BY <2>1
  <2> HIDE DEF i
  <2>4. /\ Len(s) - 1 \in Nat
        /\ \A j \in 1..(Len(s) - 1) :
             /\ j < i => j \in 1..Len(s)
             /\ ~(j < i) => j + 1 \in 1..Len(s)
    BY <2>3
  <2>5. t \in Seq(Handle)
    <3>1. \A j \in 1..(Len(s) - 1) : t[j] \in Handle
      BY <2>3, <2>4
    <3> QED BY <2>4, <3>1, SMT
  <2>6. IsInjective(t)
    <3> SUFFICES ASSUME NEW j \in 1..(Len(s) - 1), NEW k \in 1..(Len(s) - 1),
                        t[j] = t[k]
                 PROVE  j = k
      BY DEF IsInjective
    <3> DEFINE at(n) == IF n < i THEN n ELSE n + 1
    <3>1. at(j) \in DOMAIN s /\ at(k) \in DOMAIN s
      BY <2>3, <2>4
    <3>2. t[j] = s[at(j)] /\ t[k] = s[at(k)]
      OBVIOUS
    <3>3. at(j) = at(k)
      BY <3>1, <3>2 DEF IsInjective
    <3> QED BY <3>3, <2>3
  <2>7. Range(t) \subseteq Range(s) \ {h}
    BY <2>1, <2>3, <2>4 DEF Range, IsInjective
  <2>8. ASSUME NEW x \in Range(s) \ {h} PROVE x \in Range(t)
    <3>1. PICK k \in 1..Len(s) : s[k] = x
      BY <2>3 DEF Range
    <3>2. CASE k < i
      <4>1. k \in 1..(Len(s) - 1)
        BY <3>2, <2>3
      <4>2. t[k] = x
        BY <3>1, <3>2, <4>1
      <4> QED BY <4>1, <4>2 DEF Range
    <3>3. CASE k > i
      <4>1. k - 1 \in 1..(Len(s) - 1) /\ ~(k - 1 < i) /\ (k - 1) + 1 = k
        BY <3>3, <2>3
      <4>2. t[k - 1] = x
        BY <3>1, <4>1
      <4> QED BY <4>1, <4>2 DEF Range
    <3> QED BY <3>1, <3>2, <3>3, <2>1, <2>3
  <2> QED BY <2>2, <2>5, <2>6, <2>7, <2>8
<1> QED BY <1>1, <1>2

\* A new chunk at the end of a file keeps the tables consistent.
LEMMA WithAllocatedConsistent ==
  ASSUME NEW st, Consistent(st), NEW p, HasFile(st, p), NEW h \in Handle,
         h \notin Range(st.files[p].chunks)
  PROVE  Consistent(WithAllocated(st, p, h))
<1> DEFINE new == WithStandaloneChunk(st, h, NewChunk)
           list == Append(st.files[p].chunks, h)
<1>1. NewChunk \in ChunkMetadata
  BY DataAssumption DEF NewChunk, ChunkMetadata
<1>2. Consistent(new)
  BY <1>1, WithStandaloneChunkConsistent
<1>3. new.files = st.files /\ DOMAIN new.chunks = DOMAIN st.chunks \cup {h}
  BY DEF WithStandaloneChunk, Tables, Put
<1>4. /\ st.files[p].chunks \in Seq(Handle)
      /\ IsInjective(st.files[p].chunks)
      /\ Range(st.files[p].chunks) \subseteq DOMAIN st.chunks
  BY DEF Consistent, IsState, ChunksResolvable, HasFile, FileMetadata
<1>5. /\ list \in Seq(Handle)
      /\ Range(list) = Range(st.files[p].chunks) \cup {h}
      /\ IsInjective(list)
  BY <1>4, AppendKeepsInjective
<1> HIDE DEF new, list
<1>6. Consistent(WithChunkList(new, p, list))
  BY <1>2, <1>3, <1>4, <1>5, WithChunkListConsistent DEF HasFile
<1> QED BY <1>6 DEF WithAllocated, new, list

\* So does a known chunk the file does not list yet.
LEMMA WithAddedConsistent ==
  ASSUME NEW st, Consistent(st), NEW p, HasFile(st, p), NEW h, HasChunk(st, h),
         h \notin Range(st.files[p].chunks)
  PROVE  Consistent(WithAdded(st, p, h))
<1>1. /\ st.files[p].chunks \in Seq(Handle)
      /\ IsInjective(st.files[p].chunks)
      /\ Range(st.files[p].chunks) \subseteq DOMAIN st.chunks
      /\ h \in Handle
  BY DEF Consistent, IsState, ChunksResolvable, HasFile, HasChunk, FileMetadata
<1>2. /\ Append(st.files[p].chunks, h) \in Seq(Handle)
      /\ Range(Append(st.files[p].chunks, h))
           = Range(st.files[p].chunks) \cup {h}
      /\ IsInjective(Append(st.files[p].chunks, h))
  BY <1>1, AppendKeepsInjective
<1> QED BY <1>1, <1>2, WithChunkListConsistent DEF WithAdded, HasChunk

\* So does a chunk taken out of a file.
LEMMA WithRemovedConsistent ==
  ASSUME NEW st, Consistent(st), NEW p, HasFile(st, p), NEW h
  PROVE  Consistent(WithRemoved(st, p, h))
<1>1. /\ st.files[p].chunks \in Seq(Handle)
      /\ IsInjective(st.files[p].chunks)
      /\ Range(st.files[p].chunks) \subseteq DOMAIN st.chunks
  BY DEF Consistent, IsState, ChunksResolvable, HasFile, FileMetadata
<1>2. /\ WithoutChunk(st.files[p].chunks, h) \in Seq(Handle)
      /\ Range(WithoutChunk(st.files[p].chunks, h)) \subseteq DOMAIN st.chunks
      /\ IsInjective(WithoutChunk(st.files[p].chunks, h))
  BY <1>1, WithoutChunkKeepsInjective
<1> QED BY <1>2, WithChunkListConsistent DEF WithRemoved

\* So does the redirection of one entry of a file to another known chunk.
LEMMA WithReplacedConsistent ==
  ASSUME NEW st, Consistent(st), NEW p, NEW i, NEW h, CanReplace(st, p, i, h)
  PROVE  Consistent(WithReplaced(st, p, i, h))
<1> DEFINE old == st.files[p].chunks
           list == [old EXCEPT ![i] = h]
<1>1. /\ HasFile(st, p) /\ h \in DOMAIN st.chunks /\ h \in Handle
      /\ old \in Seq(Handle) /\ IsInjective(old)
      /\ Range(old) \subseteq DOMAIN st.chunks
      /\ i \in DOMAIN old
      /\ old[i] = h \/ h \notin Range(old)
  BY DEF CanReplace, Consistent, IsState, ChunksResolvable, HasFile, HasChunk,
    FileMetadata
<1> HIDE DEF old
<1>2. list \in Seq(Handle)
  BY <1>1
<1>3. /\ DOMAIN list = DOMAIN old
      /\ list[i] = h
      /\ \A j \in DOMAIN old : j # i => list[j] = old[j]
  BY <1>1
<1> HIDE DEF list
<1>4. Range(list) \subseteq DOMAIN st.chunks /\ IsInjective(list)
  BY <1>1, <1>3 DEF Range, IsInjective
<1> QED BY <1>1, <1>2, <1>4, WithChunkListConsistent
        DEF WithReplaced, old, list

\* So does a chunk that leaves the table and every file.
LEMMA WithoutChunkEntryConsistent ==
  ASSUME NEW st, Consistent(st), NEW h
  PROVE  Consistent(WithoutChunkEntry(st, h))
<1> DEFINE files == [p \in DOMAIN st.files |->
                       [st.files[p] EXCEPT !.chunks = WithoutChunk(@, h)]]
           new == WithoutChunkEntry(st, h)
<1>1. new = Tables(st.ns, files, Drop(st.chunks, {h}), st.next)
  BY DEF WithoutChunkEntry
<1>2. ASSUME NEW p \in DOMAIN st.files
      PROVE  /\ files[p] \in FileMetadata
             /\ files[p].chunks = WithoutChunk(st.files[p].chunks, h)
             /\ Range(files[p].chunks) \subseteq DOMAIN st.chunks \ {h}
             /\ IsInjective(files[p].chunks)
  <2>1. /\ st.files[p] \in FileMetadata
        /\ IsInjective(st.files[p].chunks)
        /\ Range(st.files[p].chunks) \subseteq DOMAIN st.chunks
    BY DEF Consistent, IsState, ChunksResolvable
  <2>2. st.files[p].chunks \in Seq(Handle)
    BY <2>1 DEF FileMetadata
  <2> DEFINE list == WithoutChunk(st.files[p].chunks, h)
  <2>3. /\ list \in Seq(Handle)
        /\ Range(list) = Range(st.files[p].chunks) \ {h}
        /\ IsInjective(list)
    BY <2>1, <2>2, WithoutChunkKeepsInjective
  <2> HIDE DEF list
  <2>4. files[p] = [st.files[p] EXCEPT !.chunks = list]
    BY DEF list
  <2>5. files[p] \in FileMetadata /\ files[p].chunks = list
    BY <2>1, <2>3, <2>4 DEF FileMetadata
  <2> QED BY <2>1, <2>3, <2>5 DEF list
<1>3. /\ DOMAIN files = DOMAIN st.files
      /\ files \in [DOMAIN st.files -> FileMetadata]
  BY <1>2
<1> HIDE DEF new, files
<1>6. IsState(new)
  BY <1>1, <1>3 DEF Consistent, IsState, Tables, Drop, Restrict
<1>4. ChunksResolvable(new)
  BY <1>1, <1>2, <1>3 DEF ChunksResolvable, Tables, Drop, Restrict
<1>5. TreeConnected(new) /\ NamespaceMatchesFiles(new) /\ HandlesBelowNext(new)
  BY <1>1, <1>3 DEF Consistent, Tables, TreeConnected, IsDirectory, Exists,
    NamespaceMatchesFiles, HandlesBelowNext, Drop, Restrict
<1> QED BY <1>4, <1>5, <1>6 DEF Consistent, new

\* A chunk that no file lists leaves the table and changes no list.
LEMMA UnlistedLeaves ==
  ASSUME NEW st, st.files \in [DOMAIN st.files -> FileMetadata], NEW h,
         \A q \in DOMAIN st.files : h \notin Range(st.files[q].chunks)
  PROVE  LET st2 == WithoutChunkEntry(st, h)
         IN  /\ st2.ns = st.ns /\ st2.files = st.files /\ st2.next = st.next
             /\ st2.chunks = [g \in DOMAIN st.chunks \ {h} |-> st.chunks[g]]
<1> DEFINE left == [q \in DOMAIN st.files |->
                      [st.files[q] EXCEPT !.chunks = WithoutChunk(@, h)]]
           st2 == WithoutChunkEntry(st, h)
<1>1. /\ st2.ns = st.ns /\ st2.files = left /\ st2.next = st.next
      /\ st2.chunks = [g \in DOMAIN st.chunks \ {h} |-> st.chunks[g]]
  BY DEF WithoutChunkEntry, Tables, Drop, Restrict
<1>2. \A q \in DOMAIN st.files : left[q] = st.files[q]
  <2> SUFFICES ASSUME NEW q \in DOMAIN st.files PROVE left[q] = st.files[q]
    OBVIOUS
  <2>1. WithoutChunk(st.files[q].chunks, h) = st.files[q].chunks
    BY DEF WithoutChunk
  <2>2. st.files[q] \in FileMetadata
    OBVIOUS
  <2> QED BY <2>1, <2>2 DEF FileMetadata
<1>3. DOMAIN left = DOMAIN st.files /\ left = [q \in DOMAIN left |-> left[q]]
  OBVIOUS
<1> HIDE DEF left
<1>4. left = st.files
  BY <1>2, <1>3
<1> QED BY <1>1, <1>4

-----------------------------------------------------------------------------
(* Snapshots.                                                              *)

\* The elements of a part of a path.
LEMMA SubSeqElements ==
  ASSUME NEW q \in Seq(Name), NEW m \in Nat, NEW n \in Nat,
         1 <= m, n <= Len(q), m <= n + 1
  PROVE  /\ SubSeq(q, m, n) \in Seq(Name)
         /\ Len(SubSeq(q, m, n)) = n - m + 1
         /\ \A i \in 1..(n - m + 1) : SubSeq(q, m, n)[i] = q[m + i - 1]
<1>1. \A i \in m..n : q[i] \in Name
  BY LenProperties, ElementOfSeq
<1>2. m \in Int /\ n \in Int
  OBVIOUS
<1> QED BY <1>1, <1>2, SubSeqProperties

\* Where the copy of a node is put, component by component.
LEMMA DestinationElements ==
  ASSUME NEW src \in Seq(Name), NEW dst \in Seq(Name),
         NEW q \in Seq(Name), Under(src, q)
  PROVE  /\ DestinationFor(q, src, dst) \in Seq(Name)
         /\ Len(DestinationFor(q, src, dst)) = Len(dst) + (Len(q) - Len(src))
         /\ \A i \in 1..(Len(dst) + (Len(q) - Len(src))) :
              DestinationFor(q, src, dst)[i] =
                IF i <= Len(dst) THEN dst[i] ELSE q[Len(src) + (i - Len(dst))]
<1> DEFINE m == Len(src) + 1
           tail == SubSeq(q, m, Len(q))
<1>1. Len(src) \in Nat /\ Len(q) \in Nat /\ Len(dst) \in Nat
      /\ Len(src) <= Len(q)
  BY LenProperties DEF Under
<1>2. m \in Nat /\ 1 <= m /\ m <= Len(q) + 1 /\ Len(q) <= Len(q)
  BY <1>1
<1> HIDE DEF m
<1>3. /\ tail \in Seq(Name)
      /\ Len(tail) = Len(q) - m + 1
      /\ \A i \in 1..(Len(q) - m + 1) : tail[i] = q[m + i - 1]
  BY <1>1, <1>2, SubSeqElements
<1> HIDE DEF tail
<1>4. /\ Len(tail) = Len(q) - Len(src)
      /\ \A i \in 1..(Len(q) - Len(src)) : tail[i] = q[Len(src) + i]
  BY <1>1, <1>3 DEF m
<1>5. /\ dst \o tail \in Seq(Name)
      /\ Len(dst \o tail) = Len(dst) + Len(tail)
      /\ \A i \in 1..(Len(dst) + Len(tail)) : (dst \o tail)[i] =
           IF i <= Len(dst) THEN dst[i] ELSE tail[i - Len(dst)]
  BY <1>3, ConcatProperties
<1>6. ASSUME NEW i \in 1..(Len(dst) + (Len(q) - Len(src)))
      PROVE  (dst \o tail)[i] =
               IF i <= Len(dst) THEN dst[i] ELSE q[Len(src) + (i - Len(dst))]
  <2>1. i \in 1..(Len(dst) + Len(tail))
    BY <1>4
  <2>2. (dst \o tail)[i] =
          IF i <= Len(dst) THEN dst[i] ELSE tail[i - Len(dst)]
    BY ONLY <1>5, <2>1
  <2>3. CASE i <= Len(dst)
    BY ONLY <2>2, <2>3
  <2>4. CASE ~(i <= Len(dst))
    <3>1. i - Len(dst) \in 1..(Len(q) - Len(src))
      BY <1>1, <2>4
    <3>2. tail[i - Len(dst)] = q[Len(src) + (i - Len(dst))]
      BY ONLY <1>4, <3>1
    <3> QED BY ONLY <2>2, <2>4, <3>2
  <2> QED BY ONLY <2>3, <2>4
<1>7. DestinationFor(q, src, dst) = dst \o tail
  BY DEF DestinationFor, tail, m
<1> QED BY <1>4, <1>5, <1>6, <1>7

\* A node begins with the path of the tree it lies in.
LEMMA UnderElements ==
  ASSUME NEW src \in Seq(Name), NEW q \in Seq(Name), Len(src) <= Len(q)
  PROVE  Under(src, q) <=> \A i \in 1..Len(src) : src[i] = q[i]
<1> DEFINE head == SubSeq(q, 1, Len(src))
<1>1. Len(src) \in Nat /\ Len(q) \in Nat
  BY LenProperties
<1>2. /\ head \in Seq(Name)
      /\ Len(head) = Len(src)
      /\ \A i \in 1..Len(src) : head[i] = q[i]
  <2>1. /\ 1 \in Nat /\ 1 <= 1 /\ 1 <= Len(src) + 1
        /\ Len(src) - 1 + 1 = Len(src)
        /\ \A i \in 1..Len(src) : 1 + i - 1 = i
    BY <1>1
  <2> HIDE DEF head
  <2>2. /\ head \in Seq(Name)
        /\ Len(head) = Len(src) - 1 + 1
        /\ \A i \in 1..(Len(src) - 1 + 1) : head[i] = q[1 + i - 1]
    BY <1>1, <2>1, SubSeqElements DEF head
  <2> QED BY <2>1, <2>2
<1>3. Under(src, q) <=> head = src
  BY DEF Under
<1> HIDE DEF head
<1>4. (\A i \in 1..Len(src) : src[i] = q[i]) => head = src
  BY <1>2, SeqEqual
<1> QED BY <1>2, <1>3, <1>4

\* Two nodes are not copied to the same place.
LEMMA DestinationInjective ==
  ASSUME NEW src \in Seq(Name), NEW dst \in Seq(Name),
         NEW q \in Seq(Name), Under(src, q),
         NEW r \in Seq(Name), Under(src, r),
         DestinationFor(q, src, dst) = DestinationFor(r, src, dst)
  PROVE  q = r
<1>1. /\ Len(src) \in Nat /\ Len(q) \in Nat /\ Len(dst) \in Nat /\ Len(r) \in Nat
      /\ Len(src) <= Len(q) /\ Len(src) <= Len(r)
  BY LenProperties DEF Under
<1> DEFINE d == DestinationFor(q, src, dst)
<1>2. /\ Len(d) = Len(dst) + (Len(q) - Len(src))
      /\ \A i \in 1..(Len(dst) + (Len(q) - Len(src))) : d[i] =
           IF i <= Len(dst) THEN dst[i] ELSE q[Len(src) + (i - Len(dst))]
  BY DestinationElements
<1>5. /\ DestinationFor(r, src, dst) \in Seq(Name)
      /\ Len(DestinationFor(r, src, dst)) = Len(dst) + (Len(r) - Len(src))
      /\ \A i \in 1..(Len(dst) + (Len(r) - Len(src))) :
           DestinationFor(r, src, dst)[i] =
             IF i <= Len(dst) THEN dst[i] ELSE r[Len(src) + (i - Len(dst))]
  BY DestinationElements
<1>6. /\ Len(d) = Len(dst) + (Len(r) - Len(src))
      /\ \A i \in 1..(Len(dst) + (Len(r) - Len(src))) : d[i] =
           IF i <= Len(dst) THEN dst[i] ELSE r[Len(src) + (i - Len(dst))]
  BY <1>5
<1> HIDE DEF d
<1>3. Len(q) = Len(r)
  BY <1>1, <1>2, <1>6
<1>4. ASSUME NEW i \in 1..Len(q) PROVE q[i] = r[i]
  <2>1. CASE i <= Len(src)
    <3>1. i \in 1..Len(src)
      BY <1>1, <2>1
    <3> QED BY <1>1, <3>1, UnderElements
  <2>2. CASE i > Len(src)
    <3> DEFINE k == Len(dst) + (i - Len(src))
    <3>1. /\ k \in 1..(Len(dst) + (Len(q) - Len(src)))
          /\ ~(k <= Len(dst)) /\ Len(src) + (k - Len(dst)) = i
      BY <1>1, <2>2
    <3> HIDE DEF k
    <3>2. d[k] = q[i]
      BY <3>1, <1>2
    <3>3. d[k] = r[i]
      BY <3>1, <1>3, <1>6
    <3> QED BY <3>2, <3>3
  <2> QED BY <2>1, <2>2, <1>1
<1> QED BY <1>3, <1>4, SeqEqual

\* The root of the copied tree is copied to dst itself.
LEMMA DestinationOfRoot ==
  ASSUME NEW src \in Seq(Name), NEW dst \in Seq(Name)
  PROVE  Under(src, src) /\ DestinationFor(src, src, dst) = dst
<1> DEFINE d == DestinationFor(src, src, dst)
<1>1. Len(src) \in Nat /\ Len(dst) \in Nat /\ Len(src) <= Len(src)
  BY LenProperties
<1>2. Under(src, src)
  BY <1>1, UnderElements
<1>3. /\ d \in Seq(Name)
      /\ Len(d) = Len(dst) + (Len(src) - Len(src))
      /\ \A i \in 1..(Len(dst) + (Len(src) - Len(src))) : d[i] =
           IF i <= Len(dst) THEN dst[i] ELSE src[Len(src) + (i - Len(dst))]
  BY <1>2, DestinationElements
<1> HIDE DEF d
<1>4. Len(d) = Len(dst) /\ \A i \in 1..Len(d) : d[i] = dst[i]
  BY <1>1, <1>3
<1>5. d = dst
  BY <1>3, <1>4, SeqEqual
<1> QED BY <1>2, <1>5 DEF d

\* The parent of a path other than "/".
LEMMA ParentElements ==
  ASSUME NEW q \in Seq(Name), 1 <= Len(q)
  PROVE  /\ Parent(q) \in Seq(Name)
         /\ Len(Parent(q)) = Len(q) - 1
         /\ \A i \in 1..(Len(q) - 1) : Parent(q)[i] = q[i]
<1>1. Len(q) \in Nat
  BY LenProperties
<1> DEFINE n == Len(q) - 1
<1>2. /\ n \in Nat /\ 1 \in Nat /\ 1 <= 1 /\ n <= Len(q) /\ 1 <= n + 1
      /\ n - 1 + 1 = n
      /\ \A i \in 1..n : 1 + i - 1 = i
  BY <1>1
<1> HIDE DEF n
<1>3. /\ SubSeq(q, 1, n) \in Seq(Name)
      /\ Len(SubSeq(q, 1, n)) = n - 1 + 1
      /\ \A i \in 1..(n - 1 + 1) : SubSeq(q, 1, n)[i] = q[1 + i - 1]
  BY <1>2, SubSeqElements
<1>4. Parent(q) = SubSeq(q, 1, n)
  BY DEF Parent, n
<1>5. /\ Parent(q) \in Seq(Name)
      /\ Len(Parent(q)) = n
      /\ \A i \in 1..n : Parent(q)[i] = q[i]
  BY <1>2, <1>3, <1>4
<1> QED BY <1>5 DEF n

\* A copy is put under the copy of its parent.
LEMMA ParentOfDestination ==
  ASSUME NEW src \in Seq(Name), NEW dst \in Seq(Name),
         NEW q \in Seq(Name), Under(src, q), q # src
  PROVE  /\ q # Root
         /\ Parent(q) \in Seq(Name)
         /\ Under(src, Parent(q))
         /\ Parent(DestinationFor(q, src, dst))
              = DestinationFor(Parent(q), src, dst)
<1> DEFINE d == DestinationFor(q, src, dst)
           e == DestinationFor(Parent(q), src, dst)
<1>1. Len(src) \in Nat /\ Len(q) \in Nat /\ Len(dst) \in Nat
      /\ Len(src) <= Len(q)
  BY LenProperties DEF Under
<1>2. Len(q) # Len(src)
  <2> SUFFICES ASSUME Len(q) = Len(src) PROVE FALSE
    OBVIOUS
  <2>1. \A i \in 1..Len(src) : src[i] = q[i]
    BY <1>1, UnderElements
  <2> QED BY <2>1, SeqEqual
<1>3. /\ Parent(q) \in Seq(Name)
      /\ Len(Parent(q)) = Len(q) - 1
      /\ \A i \in 1..(Len(q) - 1) : Parent(q)[i] = q[i]
  BY <1>1, <1>2, ParentElements
<1>4. Under(src, Parent(q))
  <2>1. \A i \in 1..Len(src) : src[i] = q[i]
    BY <1>1, UnderElements
  <2>2. Len(src) <= Len(Parent(q)) /\ 1..Len(src) \subseteq 1..(Len(q) - 1)
    BY <1>1, <1>2, <1>3
  <2>3. \A i \in 1..Len(src) : src[i] = Parent(q)[i]
    BY <1>3, <2>1, <2>2
  <2> QED BY <1>3, <2>2, <2>3, UnderElements
<1>5. /\ d \in Seq(Name)
      /\ Len(d) = Len(dst) + (Len(q) - Len(src))
      /\ \A i \in 1..(Len(dst) + (Len(q) - Len(src))) : d[i] =
           IF i <= Len(dst) THEN dst[i] ELSE q[Len(src) + (i - Len(dst))]
  BY DestinationElements
<1>6. /\ e \in Seq(Name)
      /\ Len(e) = Len(dst) + (Len(Parent(q)) - Len(src))
      /\ \A i \in 1..(Len(dst) + (Len(Parent(q)) - Len(src))) : e[i] =
           IF i <= Len(dst) THEN dst[i]
           ELSE Parent(q)[Len(src) + (i - Len(dst))]
  BY <1>3, <1>4, DestinationElements
<1> HIDE DEF d, e
<1>7. /\ Parent(d) \in Seq(Name)
      /\ Len(Parent(d)) = Len(e)
      /\ \A i \in 1..Len(e) : Parent(d)[i] = d[i]
  <2>1. 1 <= Len(d) /\ Len(d) - 1 = Len(e)
    BY <1>1, <1>2, <1>3, <1>5, <1>6
  <2> QED BY <1>5, <2>1, ParentElements
<1>8. ASSUME NEW i \in 1..Len(e) PROVE d[i] = e[i]
  <2>1. /\ i \in 1..(Len(dst) + (Len(q) - Len(src)))
        /\ i \in 1..(Len(dst) + (Len(Parent(q)) - Len(src)))
        /\ ~(i <= Len(dst)) => Len(src) + (i - Len(dst)) \in 1..(Len(q) - 1)
    BY <1>1, <1>3, <1>6
  <2> QED BY <2>1, <1>3, <1>5, <1>6
<1>9. Parent(d) = e
  BY <1>6, <1>7, <1>8, SeqEqual
<1>10. q # Root
  BY <1>1, <1>2, EmptySeq DEF Root
<1> QED BY <1>3, <1>4, <1>9, <1>10 DEF d, e

\* A snapshot of a file or of a directory keeps the tables consistent: the
\* copies hang from copied directories and share chunks the table knows.
LEMMA WithSnapshotConsistent ==
  ASSUME NEW st, Consistent(st), NEW src, NEW dst \in Seq(Name),
         CanSnapshot(st, src, dst)
  PROVE  Consistent(WithSnapshot(st, src, dst))
<1> DEFINE D(q) == DestinationFor(q, src, dst)
           C == Copied(st, src)
           origin(p) == CHOOSE q \in C : D(q) = p
           nodes == {D(q) : q \in C}
           copies == {p \in nodes : IsFile(st, origin(p))}
           ns == [p \in DOMAIN st.ns \cup nodes |->
                    IF p \in nodes THEN st.ns[origin(p)] ELSE st.ns[p]]
           files == [p \in DOMAIN st.files \cup copies |->
                       IF p \in copies THEN st.files[origin(p)]
                       ELSE st.files[p]]
           new == WithSnapshot(st, src, dst)
<1>1. new = Tables(ns, files, st.chunks, st.next)
  BY DEF WithSnapshot
<1> HIDE DEF new
<1>2. /\ src \in Seq(Name) /\ DOMAIN st.ns \subseteq Seq(Name)
      /\ C \subseteq DOMAIN st.ns
      /\ \A q \in C : q \in Seq(Name) /\ Under(src, q)
  BY DEF Consistent, IsState, CanSnapshot, Exists, Copied
<1>3. \A q, r \in C : D(q) = D(r) => q = r
  BY <1>2, DestinationInjective
<1>4. \A q \in C : D(q) \in Seq(Name)
  BY <1>2, DestinationElements
<1>5. src \in C /\ D(src) = dst
  BY <1>2, DestinationOfRoot DEF Copied, CanSnapshot, Exists
<1>6. ASSUME NEW q \in C, q # src
      PROVE  /\ q # Root
             /\ Parent(q) \in C
             /\ Parent(D(q)) = D(Parent(q))
             /\ st.ns[Parent(q)] = "Directory"
  <2>1. q \in Seq(Name) /\ Under(src, q) /\ q \in DOMAIN st.ns
    BY <1>2
  <2>2. /\ q # Root
        /\ Under(src, Parent(q))
        /\ Parent(D(q)) = D(Parent(q))
    BY <1>2, <1>6, <2>1, ParentOfDestination
  <2>3. IsDirectory(st, Parent(q))
    BY <2>1, <2>2 DEF Consistent, TreeConnected
  <2> QED BY <2>2, <2>3 DEF IsDirectory, Exists, Copied
<1>7. /\ \A q \in C : D(q) \notin DOMAIN st.ns
      /\ \A q \in C : st.ns[q] = "File" => q \in DOMAIN st.files
      /\ Parent(dst) \in DOMAIN st.ns /\ st.ns[Parent(dst)] = "Directory"
  BY <1>2 DEF CanSnapshot, CanAddNode, IsDirectory, IsFile, Exists, HasFile
<1> HIDE DEF D, C
<1>8. \A q \in C : origin(D(q)) = q
  BY <1>3
<1>9. \A p \in nodes : origin(p) \in C /\ D(origin(p)) = p
  BY <1>8
<1> HIDE DEF origin
<1>10. nodes \cap DOMAIN st.ns = {} /\ nodes \subseteq Seq(Name)
  BY <1>4, <1>7
<1>11. /\ DOMAIN ns = DOMAIN st.ns \cup nodes
       /\ \A p \in nodes : ns[p] = st.ns[origin(p)]
       /\ \A p \in DOMAIN st.ns : ns[p] = st.ns[p]
  BY <1>10
<1>12. copies = {p \in nodes : st.ns[origin(p)] = "File"}
  BY <1>2, <1>9 DEF IsFile, Exists
<1>13. DOMAIN st.files = {p \in DOMAIN st.ns : st.ns[p] = "File"}
  BY DEF Consistent, NamespaceMatchesFiles
<1>14. /\ DOMAIN files = DOMAIN st.files \cup copies
       /\ \A p \in copies : files[p] = st.files[origin(p)]
                            /\ origin(p) \in DOMAIN st.files
       /\ \A p \in DOMAIN st.files : files[p] = st.files[p]
  BY <1>7, <1>9, <1>10, <1>12, <1>13
<1>15. \A p \in nodes : origin(p) \in DOMAIN st.ns
  BY <1>2, <1>9
<1>16. TreeConnected(new)
  <2>1. Root \in DOMAIN st.ns /\ st.ns[Root] = "Directory"
    BY DEF Consistent, TreeConnected, IsDirectory, Exists
  <2>2. ASSUME NEW p \in DOMAIN ns, p # Root
        PROVE  Parent(p) \in DOMAIN ns /\ ns[Parent(p)] = "Directory"
    <3>1. CASE p \in DOMAIN st.ns
      <4>1. Parent(p) \in DOMAIN st.ns /\ st.ns[Parent(p)] = "Directory"
        BY <2>2, <3>1 DEF Consistent, TreeConnected, IsDirectory, Exists
      <4> QED BY <4>1, <1>11
    <3>2. CASE p \in nodes /\ origin(p) = src
      BY <3>2, <1>5, <1>7, <1>9, <1>11
    <3>3. CASE p \in nodes /\ origin(p) # src
      <4> DEFINE q == origin(p)
      <4>1. q \in C /\ q # src /\ D(q) = p
        BY <3>3, <1>9
      <4>2. /\ Parent(q) \in C /\ Parent(p) = D(Parent(q))
            /\ st.ns[Parent(q)] = "Directory"
        BY <4>1, <1>6
      <4>3. Parent(p) \in nodes /\ origin(Parent(p)) = Parent(q)
        BY <4>2, <1>8
      <4> QED BY <4>2, <4>3, <1>11
    <3> QED BY <3>1, <3>2, <3>3, <2>2, <1>11
  <2>3. Root \in DOMAIN ns /\ ns[Root] = "Directory"
    BY <2>1, <1>11
  <2> HIDE DEF ns, files
  <2> QED BY <2>2, <2>3, <1>1 DEF TreeConnected, IsDirectory, Exists, Tables
<1>17. NamespaceMatchesFiles(new)
  <2>1. DOMAIN files = {p \in DOMAIN ns : ns[p] = "File"}
    BY <1>10, <1>11, <1>12, <1>13, <1>14
  <2> HIDE DEF ns, files
  <2> QED BY <2>1, <1>1 DEF NamespaceMatchesFiles, Tables
<1>18. ChunksResolvable(new)
  <2>1. ASSUME NEW p \in DOMAIN files
        PROVE  /\ Range(files[p].chunks) \subseteq DOMAIN st.chunks
               /\ IsInjective(files[p].chunks)
    <3>1. PICK q \in DOMAIN st.files : files[p] = st.files[q]
      BY <1>14
    <3> QED BY <3>1 DEF Consistent, ChunksResolvable
  <2> HIDE DEF ns, files
  <2> QED BY <2>1, <1>1 DEF ChunksResolvable, Tables
<1>19. IsState(new)
  <2>1. files \in [DOMAIN files -> FileMetadata]
    BY <1>14 DEF Consistent, IsState
  <2>2. ns \in [DOMAIN ns -> NodeType]
    BY <1>11, <1>15 DEF Consistent, IsState
  <2>3. DOMAIN ns \subseteq Seq(Name)
    BY <1>2, <1>10, <1>11
  <2> HIDE DEF files, ns
  <2> QED BY <2>1, <2>2, <2>3, <1>1 DEF Consistent, IsState, Tables
<1>20. HandlesBelowNext(new)
  BY <1>1 DEF Consistent, HandlesBelowNext, Tables
<1> QED BY <1>16, <1>17, <1>18, <1>19, <1>20 DEF Consistent, new

-----------------------------------------------------------------------------
(* Checkpoints.                                                            *)

\* A bound on the handles in use has a least one, and NextFor is it.
LEMMA NextForLeast ==
  ASSUME NEW S \in SUBSET Handle, NEW b \in Handle, \A h \in S : h < b
  PROVE  /\ NextFor(S) \in Handle /\ \A h \in S : h < NextFor(S)
         /\ NextFor(S) <= b
<1> DEFINE T == {n \in Nat : n # 0 /\ \A h \in S : h < n}
<1>1. PICK n \in T : \A m \in T : ~(<<m, n>> \in OpToRel(<, Nat))
  <2>1. T \subseteq Nat /\ T # {}
    BY DEF Handle
  <2> HIDE DEF T
  <2> QED BY <2>1, NatLessThanWellFounded, WFMin
<1>2. n \in Handle /\ \A h \in S : h < n
  BY DEF Handle
<1>3. \A m \in T : ~(m < n)
  BY <1>1 DEF OpToRel
<1>4. n \in {1} \cup {h + 1 : h \in S}
  <2> SUFFICES ASSUME n # 1 PROVE \E h \in S : n = h + 1
    OBVIOUS
  <2>1. n - 1 \in Nat /\ n - 1 # 0 /\ n - 1 < n
    BY <1>2 DEF Handle
  <2>2. n - 1 \notin T
    BY <1>3, <2>1
  <2>3. PICK h \in S : ~(h < n - 1)
    BY <2>1, <2>2
  <2>4. h \in Nat /\ h < n
    BY <1>2 DEF Handle
  <2> QED BY <1>2, <2>3, <2>4 DEF Handle
<1>5. NextFor(S) \in {1} \cup {h + 1 : h \in S} /\ \A h \in S : h < NextFor(S)
  BY <1>2, <1>4 DEF NextFor
<1> QED BY <1>5 DEF Handle

\* A checkpoint of consistent tables restores to consistent tables.
LEMMA RestoredConsistent ==
  ASSUME NEW st, Consistent(st)
  PROVE  Consistent(Restored(st))
<1>1. /\ DOMAIN st.chunks \in SUBSET Handle
      /\ st.next \in Handle
      /\ \A h \in DOMAIN st.chunks : h < st.next
  BY DEF Consistent, IsState, HandlesBelowNext
<1> DEFINE n == NextFor(DOMAIN st.chunks)
<1>2. n \in Handle /\ \A h \in DOMAIN st.chunks : h < n
  BY <1>1, NextForLeast
<1> HIDE DEF n
<1>3. Restored(st) = Tables(st.ns, st.files, st.chunks, n)
  BY DEF Restored, n
<1> QED BY <1>2, <1>3 DEF Consistent, IsState, Tables, TreeConnected,
  IsDirectory, Exists, NamespaceMatchesFiles, ChunksResolvable,
  HandlesBelowNext

-----------------------------------------------------------------------------
(* Replay of the operation log.                                            *)

\* The replay of a copy-on-write keeps the tables consistent, whether the
\* copy is already in them or not.
LEMMA ReplayedCopyOnWriteConsistent ==
  ASSUME NEW st, Consistent(st), NEW op, op.path \in Seq(Name),
         op.dst \in Handle, op.chunk \in ChunkMetadata,
         CanReplayCopyOnWrite(st, op)
  PROVE  Consistent(ReplayedCopyOnWrite(st, op))
<1> DEFINE list == ChunksOf(st, op.path)
<1>1. HasFile(st, op.path) /\ list = st.files[op.path].chunks
  BY DEF CanReplayCopyOnWrite, ChunksOf
<1>2. CASE list[op.index] = op.dst
  BY <1>2 DEF ReplayedCopyOnWrite
<1>3. CASE list[op.index] # op.dst
  <2> DEFINE st1 == IF HasChunk(st, op.dst) THEN st
                    ELSE WithStandaloneChunk(st, op.dst, op.chunk)
  <2>1. Consistent(st1)
    BY WithStandaloneChunkConsistent
  <2>2. st1.files = st.files /\ HasChunk(st1, op.dst)
    BY DEF WithStandaloneChunk, Tables, HasChunk, Put
  <2> HIDE DEF st1
  <2>3. CanReplace(st1, op.path, op.index, op.dst)
    BY <1>1, <1>3, <2>2 DEF CanReplayCopyOnWrite, CanReplace, HasFile
  <2>4. Consistent(WithReplaced(st1, op.path, op.index, op.dst))
    BY <2>1, <2>3, WithReplacedConsistent
  <2> QED BY <1>3, <2>4 DEF ReplayedCopyOnWrite, st1
<1> QED BY <1>2, <1>3

\* A record that replays keeps the tables consistent.
LEMMA ReplayedConsistent ==
  ASSUME NEW st, Consistent(st), NEW op \in Operation, CanReplay(st, op)
  PROVE  Consistent(Replayed(st, op))
<1> USE DEF Operation
<1>1. CASE op.type = "CreateDirectory"
  BY <1>1, WithDirectoryConsistent DEF CanReplay, Replayed, IsDirectory
<1>2. CASE op.type = "CreateFile"
  BY <1>2, WithFileConsistent DEF CanReplay, Replayed, IsFile, CanAddFile
<1>3. CASE op.type = "DeleteFile"
  <2>1. HasFile(st, op.path) => IsFile(st, op.path)
    BY DEF Consistent, NamespaceMatchesFiles, HasFile, IsFile, Exists
  <2> QED BY <1>3, <2>1, WithoutFileConsistent DEF CanReplay, Replayed
<1>4. CASE op.type = "RenameFile"
  BY <1>4, WithRenamedConsistent DEF CanReplay, Replayed
<1>5. CASE op.type = "UpdateFileSize"
  BY <1>5, WithSizeConsistent DEF CanReplay, Replayed
<1>6. CASE op.type = "AllocateChunk"
  BY <1>6, WithAllocatedConsistent DEF CanReplay, Replayed
<1>7. CASE op.type = "SetChunkVersion"
  BY <1>7, WithChunkVersionConsistent DEF CanReplay, Replayed
<1>8. CASE op.type = "SetChunkSize"
  BY <1>8, WithChunkSizeConsistent DEF CanReplay, Replayed
<1>9. CASE op.type = "AddChunkToFile"
  BY <1>9, WithAddedConsistent DEF CanReplay, Replayed, ChunksOf
<1>10. CASE op.type = "RemoveChunkFromFile"
  BY <1>10, WithRemovedConsistent DEF CanReplay, Replayed
<1>11. CASE op.type = "DeleteChunk"
  BY <1>11, WithoutChunkEntryConsistent DEF CanReplay, Replayed
<1>12. CASE op.type = "CreateSnapshot"
  BY <1>12, WithSnapshotConsistent DEF CanReplay, Replayed
<1>13. CASE op.type = "CopyOnWrite"
  BY <1>13, ReplayedCopyOnWriteConsistent DEF CanReplay, Replayed
<1> QED
  BY <1>1, <1>2, <1>3, <1>4, <1>5, <1>6, <1>7, <1>8, <1>9, <1>10, <1>11,
     <1>12, <1>13

=============================================================================
