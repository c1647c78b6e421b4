---------------------------- MODULE MasterProofs ----------------------------
(***************************************************************************)
(* The master keeps its types, its tables consistent (the live ones and    *)
(* those a restart would build) and its replica lists sound, for every     *)
(* number of names, versions, chunkservers, chunks and failed appends.     *)
(* And recovery is faithful: what the newest checkpoint and the log yield  *)
(* is what the running master has.                                         *)
(***************************************************************************)
EXTENDS Master, MetadataProofs, ReplicasProofs, FiniteSetTheorems

-----------------------------------------------------------------------------
(* The inductive invariant, in the parts that actions change together.     *)

TablesOK == up \in BOOLEAN /\ orphans \subseteq Handle /\ Consistent(live)

DiskOK ==
  /\ Consistent(recovered)
  /\ replayable \in BOOLEAN /\ torn \in BOOLEAN /\ applied \in BOOLEAN
  /\ faults \in Nat

ReplicasOK ==
  /\ DOMAIN replicas \subseteq Handle
  /\ replicas \in [DOMAIN replicas -> Seq(Entry(Server))]
  /\ ReplicaListsSound

LeasesOK ==
  /\ DOMAIN leases \subseteq Handle
  /\ leases \in [DOMAIN leases -> Lease]

IInv == TablesOK /\ DiskOK /\ ReplicasOK /\ LeasesOK

\* The initial state satisfies the invariant.
LEMMA InitOK == Init => IInv
<1> SUFFICES ASSUME Init PROVE IInv
  OBVIOUS
<1>1. TablesOK /\ DiskOK
  BY EmptyConsistent DEF Init, TablesOK, DiskOK
<1>2. ReplicasOK /\ LeasesOK
  BY DEF Init, ReplicasOK, LeasesOK, ReplicaListsSound, NoEntries
<1> QED BY <1>1, <1>2 DEF IInv

\* A record, however much of it is written, leaves tables on disk that are
\* consistent.
LEMMA AppendOK ==
  ASSUME DiskOK, NEW op \in Operation, NEW outcome \in LogOutcome,
         AppendOperation(op, outcome)
  PROVE  DiskOK'
<1>1. Consistent(recovered')
  <2>1. CASE outcome \in {"written", "unflushed"}
    <3>1. replayable' = (replayable /\ CanReplay(recovered, op))
          /\ recovered' = IF replayable' THEN Replayed(recovered, op)
                          ELSE recovered
      BY <2>1 DEF AppendOperation
    <3>2. CASE CanReplay(recovered, op)
      <4>1. Consistent(Replayed(recovered, op))
        BY <3>2, ReplayedConsistent DEF DiskOK
      <4> QED BY <3>1, <4>1 DEF DiskOK
    <3>3. CASE ~CanReplay(recovered, op)
      BY <3>1, <3>3 DEF DiskOK
    <3> QED BY <3>2, <3>3
  <2>2. CASE outcome \notin {"written", "unflushed"}
    BY <2>2 DEF AppendOperation, DiskOK
  <2> QED BY <2>1, <2>2
<1>2. replayable' \in BOOLEAN
  BY DEF AppendOperation, DiskOK
<1>3. torn' \in BOOLEAN /\ applied' \in BOOLEAN
  BY DEF AppendOperation, DiskOK
<1>4. faults' \in Nat
  BY DEF AppendOperation, DiskOK
<1> QED BY <1>1, <1>2, <1>3, <1>4 DEF DiskOK


\* A step that leaves the replica lists and the leases alone.
LEMMA ServingOK ==
  ASSUME IInv, UNCHANGED serving
  PROVE  ReplicasOK' /\ LeasesOK'
BY DEF serving, IInv, ReplicasOK, LeasesOK, ReplicaListsSound

\* Chunks leave the replica lists and the leases one by one or together.
LEMMA DroppedOK ==
  ASSUME IInv, NEW S
  PROVE  /\ replicas' = Drop(replicas, S) => ReplicasOK'
         /\ leases' = Drop(leases, S) => LeasesOK'
         /\ replicas' = replicas => ReplicasOK'
         /\ leases' = leases => LeasesOK'
<1>1. ASSUME replicas' = Drop(replicas, S) PROVE ReplicasOK'
  BY <1>1 DEF IInv, ReplicasOK, ReplicaListsSound, Drop, Restrict
<1>2. ASSUME leases' = Drop(leases, S) PROVE LeasesOK'
  BY <1>2 DEF IInv, LeasesOK, Drop, Restrict
<1>3. ASSUME replicas' = replicas PROVE ReplicasOK'
  BY <1>3 DEF IInv, ReplicasOK, ReplicaListsSound
<1>4. ASSUME leases' = leases PROVE LeasesOK'
  BY <1>4 DEF IInv, LeasesOK
<1> QED BY <1>1, <1>2, <1>3, <1>4

-----------------------------------------------------------------------------
(* Namespace requests.                                                     *)

\* CreateFile keeps the invariant.
LEMMA CreateFileOK ==
  ASSUME IInv, NEW p \in Seq(Name), NEW factor \in Factor,
         CreateFile(p, factor)
  PROVE  IInv'
<1> DEFINE op == [type |-> "CreateFile", path |-> p, factor |-> factor]
<1>1. op \in Operation
  BY DEF Operation, CreateFile, IInv, TablesOK, Consistent, IsState, HasChunk
<1>2. PICK outcome \in LogOutcome :
        /\ AppendOperation(op, outcome)
        /\ live' = IF outcome = "written" /\ CanAddFile(live, p)
                   THEN WithFile(live, p, factor)
                   ELSE live
  BY DEF CreateFile, LoggedRequest
<1> HIDE DEF op
<1>3. DiskOK'
  BY <1>1, <1>2, AppendOK DEF IInv
<1>4. CanAddFile(live, p) => Consistent(WithFile(live, p, factor))
  BY WithFileConsistent DEF CanAddFile, IInv, TablesOK
<1>5. TablesOK'
  BY <1>2, <1>4 DEF CreateFile, IInv, TablesOK, Handle
<1>6. ReplicasOK' /\ LeasesOK'
  BY ServingOK DEF CreateFile
<1> QED BY <1>3, <1>5, <1>6 DEF IInv

\* CreateDirectory keeps the invariant.
LEMMA CreateDirectoryOK ==
  ASSUME IInv, NEW p \in Seq(Name),
         CreateDirectory(p)
  PROVE  IInv'
<1> DEFINE op == [type |-> "CreateDirectory", path |-> p]
<1>1. op \in Operation
  BY DEF Operation, CreateDirectory, IInv, TablesOK, Consistent, IsState, HasChunk
<1>2. PICK outcome \in LogOutcome :
        /\ AppendOperation(op, outcome)
        /\ live' = IF outcome = "written" /\ CanAddNode(live, p)
                   THEN WithDirectory(live, p)
                   ELSE live
  BY DEF CreateDirectory, LoggedRequest
<1> HIDE DEF op
<1>3. DiskOK'
  BY <1>1, <1>2, AppendOK DEF IInv
<1>4. CanAddNode(live, p) => Consistent(WithDirectory(live, p))
  BY WithDirectoryConsistent DEF IInv, TablesOK
<1>5. TablesOK'
  BY <1>2, <1>4 DEF CreateDirectory, IInv, TablesOK, Handle
<1>6. ReplicasOK' /\ LeasesOK'
  BY ServingOK DEF CreateDirectory
<1> QED BY <1>3, <1>5, <1>6 DEF IInv

\* RenameFile keeps the invariant.
LEMMA RenameFileOK ==
  ASSUME IInv, NEW src \in Seq(Name), NEW dst \in Seq(Name),
         RenameFile(src, dst)
  PROVE  IInv'
<1> DEFINE op == [type |-> "RenameFile", src |-> src, dst |-> dst]
<1>1. op \in Operation
  BY DEF Operation, RenameFile, IInv, TablesOK, Consistent, IsState, HasChunk
<1>2. PICK outcome \in LogOutcome :
        /\ AppendOperation(op, outcome)
        /\ live' = IF outcome = "written" /\ CanRename(live, src, dst)
                   THEN WithRenamed(live, src, dst)
                   ELSE live
  BY DEF RenameFile, LoggedRequest
<1> HIDE DEF op
<1>3. DiskOK'
  BY <1>1, <1>2, AppendOK DEF IInv
<1>4. CanRename(live, src, dst) => Consistent(WithRenamed(live, src, dst))
  BY WithRenamedConsistent DEF IInv, TablesOK
<1>5. TablesOK'
  BY <1>2, <1>4 DEF RenameFile, IInv, TablesOK, Handle
<1>6. ReplicasOK' /\ LeasesOK'
  BY ServingOK DEF RenameFile
<1> QED BY <1>3, <1>5, <1>6 DEF IInv

\* DeleteFile keeps the invariant, whether the log takes the record or not.
LEMMA DeleteFileOK ==
  ASSUME IInv, NEW p \in Seq(Name), DeleteFile(p)
  PROVE  IInv'
<1> DEFINE op == [type |-> "DeleteFile", path |-> p]
           last == {h \in Range(ChunksOf(live, p)) : References(h) = {p}}
<1>1. op \in Operation
  BY DEF Operation
<1>2. PICK outcome \in LogOutcome :
        LET done == outcome = "written" /\ HasFile(live, p)
        IN  /\ AppendOperation(op, outcome)
            /\ orphans' = orphans \cup last
            /\ live' = IF done THEN WithoutFile(live, p) ELSE live
            /\ replicas' = IF done THEN Drop(replicas, last) ELSE replicas
            /\ leases' = IF done THEN Drop(leases, last) ELSE leases
  BY DEF DeleteFile
<1>3. last \subseteq Handle
  BY DEF References, HasChunk, IInv, TablesOK, Consistent, IsState
<1> HIDE DEF op, last
<1>4. DiskOK'
  BY <1>1, <1>2, AppendOK DEF IInv
<1>5. Consistent(WithoutFile(live, p))
  BY WithoutFileConsistent DEF DeleteFile, IInv, TablesOK
<1>6. TablesOK'
  BY <1>2, <1>3, <1>5 DEF DeleteFile, IInv, TablesOK
<1>7. ReplicasOK' /\ LeasesOK'
  BY <1>2, DroppedOK
<1> QED BY <1>4, <1>6, <1>7 DEF IInv

\* CreateSnapshot keeps the invariant.
LEMMA CreateSnapshotOK ==
  ASSUME IInv, NEW src \in Seq(Name), NEW dst \in Seq(Name),
         CreateSnapshot(src, dst)
  PROVE  IInv'
<1> DEFINE op == [type |-> "CreateSnapshot", src |-> src, dst |-> dst]
           shared == UNION {Range(ChunksOf(live, q)) : q \in Copied(live, src)}
<1>1. op \in Operation
  BY DEF Operation
<1>2. PICK outcome \in LogOutcome :
        LET done == outcome = "written" /\ CanSnapshot(live, src, dst)
        IN  /\ AppendOperation(op, outcome)
            /\ live' = IF done THEN WithSnapshot(live, src, dst) ELSE live
            /\ leases' = IF done THEN Drop(leases, shared) ELSE leases
  BY DEF CreateSnapshot
<1> HIDE DEF op, shared
<1>3. DiskOK'
  BY <1>1, <1>2, AppendOK DEF IInv
<1>4. CanSnapshot(live, src, dst) => Consistent(WithSnapshot(live, src, dst))
  BY WithSnapshotConsistent DEF IInv, TablesOK
<1>5. TablesOK'
  BY <1>2, <1>4 DEF CreateSnapshot, IInv, TablesOK
<1>6. ReplicasOK' /\ LeasesOK'
  BY <1>2, DroppedOK DEF CreateSnapshot
<1> QED BY <1>3, <1>5, <1>6 DEF IInv

-----------------------------------------------------------------------------
(* Chunk requests.                                                         *)

\* UpdateFileSize keeps the invariant.
LEMMA UpdateFileSizeOK ==
  ASSUME IInv, NEW p \in Seq(Name), NEW size \in Size,
         UpdateFileSize(p, size)
  PROVE  IInv'
<1> DEFINE op == [type |-> "UpdateFileSize", path |-> p, size |-> size]
<1>1. op \in Operation
  BY DEF Operation, UpdateFileSize, IInv, TablesOK, Consistent, IsState, HasChunk
<1>2. PICK outcome \in LogOutcome :
        /\ AppendOperation(op, outcome)
        /\ live' = IF outcome = "written" /\ TRUE
                   THEN WithSize(live, p, size)
                   ELSE live
  BY DEF UpdateFileSize, LoggedRequest
<1> HIDE DEF op
<1>3. DiskOK'
  BY <1>1, <1>2, AppendOK DEF IInv
<1>4. TRUE => Consistent(WithSize(live, p, size))
  BY WithSizeConsistent DEF UpdateFileSize, IInv, TablesOK
<1>5. TablesOK'
  BY <1>2, <1>4 DEF UpdateFileSize, IInv, TablesOK, Handle
<1>6. ReplicasOK' /\ LeasesOK'
  BY ServingOK DEF UpdateFileSize
<1> QED BY <1>3, <1>5, <1>6 DEF IInv

\* The handle a request gives out is in no list and not in the table.
LEMMA NextIsFresh ==
  ASSUME NEW st, Consistent(st)
  PROVE  /\ st.next \in Handle /\ st.next \notin DOMAIN st.chunks
         /\ \A p \in DOMAIN st.files : st.next \notin Range(st.files[p].chunks)
<1>1. st.next \in Handle /\ st.next \notin DOMAIN st.chunks
  BY DEF Consistent, IsState, HandlesBelowNext, Handle
<1> QED BY <1>1 DEF Consistent, ChunksResolvable

\* AllocateChunk keeps the invariant: the handle it gives out is fresh.
LEMMA AllocateChunkOK ==
  ASSUME IInv, NEW p \in Seq(Name),
         AllocateChunk(p)
  PROVE  IInv'
<1> DEFINE op == [type |-> "AllocateChunk", path |-> p, handle |-> live.next]
<1>1. op \in Operation
  BY DEF Operation, AllocateChunk, IInv, TablesOK, Consistent, IsState, HasChunk
<1>2. PICK outcome \in LogOutcome :
        /\ AppendOperation(op, outcome)
        /\ live' = IF outcome = "written" /\ TRUE
                   THEN WithAllocated(live, p, live.next)
                   ELSE live
  BY DEF AllocateChunk, LoggedRequest
<1> HIDE DEF op
<1>3. DiskOK'
  BY <1>1, <1>2, AppendOK DEF IInv
<1>4. TRUE => Consistent(WithAllocated(live, p, live.next))
  BY NextIsFresh, WithAllocatedConsistent DEF AllocateChunk, HasFile, IInv, TablesOK
<1>5. TablesOK'
  BY <1>2, <1>4 DEF AllocateChunk, IInv, TablesOK, Handle
<1>6. ReplicasOK' /\ LeasesOK'
  BY ServingOK DEF AllocateChunk
<1> QED BY <1>3, <1>5, <1>6 DEF IInv

\* SetChunkVersion keeps the invariant.
LEMMA SetChunkVersionOK ==
  ASSUME IInv, NEW h, NEW version \in Version,
         SetChunkVersion(h, version)
  PROVE  IInv'
<1> DEFINE op == [type |-> "SetChunkVersion", handle |-> h, version |-> version]
<1>1. op \in Operation
  BY DEF Operation, SetChunkVersion, IInv, TablesOK, Consistent, IsState, HasChunk
<1>2. PICK outcome \in LogOutcome :
        /\ AppendOperation(op, outcome)
        /\ live' = IF outcome = "written" /\ TRUE
                   THEN WithChunkVersion(live, h, version)
                   ELSE live
  BY DEF SetChunkVersion, LoggedRequest
<1> HIDE DEF op
<1>3. DiskOK'
  BY <1>1, <1>2, AppendOK DEF IInv
<1>4. TRUE => Consistent(WithChunkVersion(live, h, version))
  BY WithChunkVersionConsistent DEF SetChunkVersion, IInv, TablesOK
<1>5. TablesOK'
  BY <1>2, <1>4 DEF SetChunkVersion, IInv, TablesOK, Handle
<1>6. ReplicasOK' /\ LeasesOK'
  BY ServingOK DEF SetChunkVersion
<1> QED BY <1>3, <1>5, <1>6 DEF IInv

\* SetChunkSize keeps the invariant.
LEMMA SetChunkSizeOK ==
  ASSUME IInv, NEW h, NEW size \in Size,
         SetChunkSize(h, size)
  PROVE  IInv'
<1> DEFINE op == [type |-> "SetChunkSize", handle |-> h, size |-> size]
<1>1. op \in Operation
  BY DEF Operation, SetChunkSize, IInv, TablesOK, Consistent, IsState, HasChunk
<1>2. PICK outcome \in LogOutcome :
        /\ AppendOperation(op, outcome)
        /\ live' = IF outcome = "written" /\ TRUE
                   THEN WithChunkSize(live, h, size)
                   ELSE live
  BY DEF SetChunkSize, LoggedRequest
<1> HIDE DEF op
<1>3. DiskOK'
  BY <1>1, <1>2, AppendOK DEF IInv
<1>4. TRUE => Consistent(WithChunkSize(live, h, size))
  BY WithChunkSizeConsistent DEF SetChunkSize, IInv, TablesOK
<1>5. TablesOK'
  BY <1>2, <1>4 DEF SetChunkSize, IInv, TablesOK, Handle
<1>6. ReplicasOK' /\ LeasesOK'
  BY ServingOK DEF SetChunkSize
<1> QED BY <1>3, <1>5, <1>6 DEF IInv

\* AddChunkToFile keeps the invariant.
LEMMA AddChunkToFileOK ==
  ASSUME IInv, NEW p \in Seq(Name), NEW h,
         AddChunkToFile(p, h)
  PROVE  IInv'
<1> DEFINE op == [type |-> "AddChunkToFile", path |-> p, handle |-> h]
<1>1. op \in Operation
  BY DEF Operation, AddChunkToFile, IInv, TablesOK, Consistent, IsState, HasChunk
<1>2. PICK outcome \in LogOutcome :
        /\ AppendOperation(op, outcome)
        /\ live' = IF outcome = "written" /\ h \notin Range(ChunksOf(live, p))
                   THEN WithAdded(live, p, h)
                   ELSE live
  BY DEF AddChunkToFile, LoggedRequest
<1> HIDE DEF op
<1>3. DiskOK'
  BY <1>1, <1>2, AppendOK DEF IInv
<1>4. h \notin Range(ChunksOf(live, p)) => Consistent(WithAdded(live, p, h))
  BY WithAddedConsistent DEF AddChunkToFile, ChunksOf, IInv, TablesOK
<1>5. TablesOK'
  BY <1>2, <1>4 DEF AddChunkToFile, IInv, TablesOK, Handle
<1>6. ReplicasOK' /\ LeasesOK'
  BY ServingOK DEF AddChunkToFile
<1> QED BY <1>3, <1>5, <1>6 DEF IInv

\* RemoveChunkFromFile keeps the invariant.
LEMMA RemoveChunkFromFileOK ==
  ASSUME IInv, NEW p \in Seq(Name), NEW h,
         RemoveChunkFromFile(p, h)
  PROVE  IInv'
<1> DEFINE op == [type |-> "RemoveChunkFromFile", path |-> p, handle |-> h]
<1>1. op \in Operation
  BY DEF Operation, RemoveChunkFromFile, IInv, TablesOK, Consistent, IsState, HasChunk
<1>2. PICK outcome \in LogOutcome :
        /\ AppendOperation(op, outcome)
        /\ live' = IF outcome = "written" /\ TRUE
                   THEN WithRemoved(live, p, h)
                   ELSE live
  BY DEF RemoveChunkFromFile, LoggedRequest
<1> HIDE DEF op
<1>3. DiskOK'
  BY <1>1, <1>2, AppendOK DEF IInv
<1>4. TRUE => Consistent(WithRemoved(live, p, h))
  BY WithRemovedConsistent DEF RemoveChunkFromFile, IInv, TablesOK
<1>5. TablesOK'
  <2>1. h \in Handle
    BY DEF RemoveChunkFromFile, HasChunk, IInv, TablesOK, Consistent, IsState
  <2>2. orphans' \subseteq Handle
    BY <2>1 DEF RemoveChunkFromFile, IInv, TablesOK
  <2> QED BY <1>2, <1>4, <2>2 DEF RemoveChunkFromFile, IInv, TablesOK
<1>6. ReplicasOK' /\ LeasesOK'
  BY ServingOK DEF RemoveChunkFromFile
<1> QED BY <1>3, <1>5, <1>6 DEF IInv

\* A copy-on-write keeps the invariant: whether it goes through or is undone,
\* the tables are consistent, and so is the replica list of the copy.
LEMMA PrepareCopyOnWriteOK ==
  ASSUME IInv, NEW p \in Seq(Name), NEW i \in Nat, PrepareCopyOnWrite(p, i)
  PROVE  IInv'
<1> DEFINE src == ChunksOf(live, p)[i]
           dst == live.next
           chunk == live.chunks[src]
           servers == [j \in DOMAIN ReplicasOf(src) |->
                         ReplicasOf(src)[j].server]
           copied == WithStandaloneChunk(live, dst, chunk)
           failed == WithoutChunkEntry(copied, dst)
           registrable == Range(servers) \cap Servers(ReplicasOf(dst)) = {}
           op == [type |-> "CopyOnWrite", path |-> p, index |-> i,
                  src |-> src, dst |-> dst, chunk |-> chunk]
           registered == Put(replicas, dst,
                             RegisteredAll(ReplicasOf(dst), servers))
<1>1. /\ HasFile(live, p) /\ i \in DOMAIN ChunksOf(live, p)
      /\ up' = up /\ orphans' = orphans
      /\ leases' = IF registrable THEN Drop(leases, {src}) ELSE leases
      /\ \/ \E outcome \in LogOutcome :
              /\ CanReplace(copied, p, i, dst)
              /\ AppendOperation(op, outcome)
              /\ live' = IF outcome = "written"
                         THEN WithReplaced(copied, p, i, dst)
                         ELSE failed
              /\ replicas' = IF outcome # "written" THEN Drop(replicas, {dst})
                             ELSE IF servers = <<>> THEN replicas
                             ELSE registered
         \/ /\ live' = failed
            /\ replicas' = Drop(replicas, {dst})
            /\ UNCHANGED disk
  BY DEF PrepareCopyOnWrite
<1>2. Consistent(live)
  BY DEF IInv, TablesOK
<1>3. /\ src \in Handle /\ src \in DOMAIN live.chunks
      /\ chunk \in ChunkMetadata /\ dst \in Handle
  BY <1>1, <1>2 DEF ChunksOf, HasFile, Consistent, IsState, ChunksResolvable,
    Range
<1>4. Consistent(copied)
  BY <1>2, <1>3, WithStandaloneChunkConsistent
<1>5. Consistent(failed)
  BY <1>4, WithoutChunkEntryConsistent
<1>6. CanReplace(copied, p, i, dst) =>
        Consistent(WithReplaced(copied, p, i, dst))
  BY <1>4, WithReplacedConsistent
<1>7. op \in Operation
  BY <1>3 DEF Operation
<1>8. servers # <<>> =>
        /\ registered \in [DOMAIN replicas \cup {dst} -> Seq(Entry(Server))]
        /\ \A h \in DOMAIN replicas \cup {dst} : IsReplicaList(registered[h])
  <2>1. \A h \in Handle : /\ ReplicasOf(h) \in Seq(Entry(Server))
                          /\ ReplicasOf(h) = <<>> \/ IsReplicaList(ReplicasOf(h))
    BY EmptySeq DEF ReplicasOf, IInv, ReplicasOK, ReplicaListsSound
  <2>2. servers \in Seq(Server)
    <3> DEFINE rs == ReplicasOf(src)
    <3>1. rs \in Seq(Entry(Server))
      BY <1>3, <2>1
    <3> HIDE DEF rs
    <3>2. Len(rs) \in Nat /\ DOMAIN rs = 1..Len(rs)
          /\ \A j \in 1..Len(rs) : rs[j] \in Entry(Server)
      BY <3>1, LenProperties, ElementOfSeq
    <3>3. \A j \in 1..Len(rs) : rs[j].server \in Server
      BY <3>2 DEF Entry
    <3>4. servers = [j \in 1..Len(rs) |-> rs[j].server]
      BY <3>2 DEF rs
    <3> HIDE DEF servers
    <3> QED BY <3>2, <3>3, <3>4
  <2>3. servers # <<>> => IsInjective(servers)
    <3>1. IsReplicaList(ReplicasOf(src)) => IsInjective(servers)
      BY DEF IsReplicaList, IsInjective
    <3>2. ReplicasOf(src) = <<>> => servers = <<>>
      BY EmptySeq
    <3> QED BY <3>1, <3>2, <1>3, <2>1
  <2> HIDE DEF servers, dst
  <2>4. servers # <<>> =>
          /\ RegisteredAll(ReplicasOf(dst), servers) \in Seq(Entry(Server))
          /\ IsReplicaList(RegisteredAll(ReplicasOf(dst), servers))
    BY <1>3, <2>1, <2>2, <2>3, RegisteredAllSound
  <2> QED BY <2>4 DEF Put, IInv, ReplicasOK, ReplicaListsSound
<1> HIDE DEF registered, servers, failed, copied, registrable, op, src, dst
<1>9. TablesOK' /\ DiskOK'
  <2>1. CASE UNCHANGED disk /\ live' = failed
    BY <1>1, <1>5, <2>1 DEF disk, IInv, TablesOK, DiskOK
  <2>2. ASSUME NEW outcome \in LogOutcome,
               AppendOperation(op, outcome), CanReplace(copied, p, i, dst),
               live' = IF outcome = "written"
                       THEN WithReplaced(copied, p, i, dst) ELSE failed
        PROVE  TablesOK' /\ DiskOK'
    <3>1. DiskOK'
      BY <1>7, <2>2, AppendOK DEF IInv
    <3> QED BY <1>1, <1>5, <1>6, <2>2, <3>1 DEF IInv, TablesOK
  <2> QED BY <1>1, <2>1, <2>2
<1>10. ReplicasOK'
  <2>1. CASE replicas' = Drop(replicas, {dst}) \/ replicas' = replicas
    BY <2>1, DroppedOK
  <2>2. CASE servers # <<>> /\ replicas' = registered
    BY <1>3, <1>8, <2>2 DEF IInv, ReplicasOK, ReplicaListsSound
  <2> QED BY <1>1, <2>1, <2>2
<1>11. LeasesOK'
  BY <1>1, DroppedOK
<1> QED BY <1>9, <1>10, <1>11 DEF IInv

-----------------------------------------------------------------------------
(* Garbage collection, checkpoints, crashes and restarts.                  *)

\* The scan for orphans keeps the invariant.
LEMMA IdentifyOrphansOK ==
  ASSUME IInv, IdentifyOrphans
  PROVE  IInv'
<1>1. TablesOK' /\ DiskOK'
  BY DEF IdentifyOrphans, disk, IInv, TablesOK, DiskOK, Consistent, IsState
<1>2. ReplicasOK' /\ LeasesOK'
  BY ServingOK DEF IdentifyOrphans
<1> QED BY <1>1, <1>2 DEF IInv

\* The collection of a chunk keeps the invariant.
LEMMA CollectChunkOK ==
  ASSUME IInv, NEW h, CollectChunk(h)
  PROVE  IInv'
<1> DEFINE op == [type |-> "DeleteChunk", handle |-> h]
<1>1. CASE References(h) # {} \/ ~HasChunk(live, h)
  <2>1. TablesOK' /\ DiskOK'
    BY <1>1 DEF CollectChunk, disk, IInv, TablesOK, DiskOK
  <2>2. ReplicasOK' /\ LeasesOK'
    BY <1>1, ServingOK DEF CollectChunk
  <2> QED BY <2>1, <2>2 DEF IInv
<1>2. CASE ~(References(h) # {} \/ ~HasChunk(live, h))
  <2>1. PICK outcome \in LogOutcome, deleted \in BOOLEAN :
          /\ AppendOperation(op, outcome)
          /\ IF outcome = "written" /\ deleted
             THEN /\ live' = WithoutChunkEntry(live, h)
                  /\ orphans' = orphans \ {h}
                  /\ replicas' = Drop(replicas, {h})
                  /\ leases' = Drop(leases, {h})
             ELSE UNCHANGED <<live, orphans, serving>>
    BY <1>2 DEF CollectChunk
  <2>2. op \in Operation
    BY <1>2 DEF Operation, HasChunk, IInv, TablesOK, Consistent, IsState
  <2> HIDE DEF op
  <2>3. DiskOK'
    BY <2>1, <2>2, AppendOK DEF IInv
  <2>4. Consistent(WithoutChunkEntry(live, h))
    BY WithoutChunkEntryConsistent DEF IInv, TablesOK
  <2>5. TablesOK'
    BY <2>1, <2>4 DEF CollectChunk, IInv, TablesOK
  <2>6. ReplicasOK' /\ LeasesOK'
    BY <2>1, DroppedOK, ServingOK
  <2> QED BY <2>3, <2>5, <2>6 DEF IInv
<1> QED BY <1>1, <1>2

\* A checkpoint keeps the invariant.
LEMMA CreateCheckpointOK ==
  ASSUME IInv, CreateCheckpoint
  PROVE  IInv'
<1>1. Consistent(Restored(live))
  BY RestoredConsistent DEF IInv, TablesOK
<1>2. TablesOK' /\ DiskOK'
  BY <1>1 DEF CreateCheckpoint, CanRestore, IInv, TablesOK, DiskOK
<1>3. ReplicasOK' /\ LeasesOK'
  BY ServingOK DEF CreateCheckpoint
<1> QED BY <1>2, <1>3 DEF IInv

\* A crash keeps the invariant.
LEMMA CrashOK ==
  ASSUME IInv, Crash
  PROVE  IInv'
<1>1. TablesOK' /\ DiskOK'
  BY EmptyConsistent DEF Crash, disk, IInv, TablesOK, DiskOK
<1>2. ReplicasOK' /\ LeasesOK'
  BY DEF Crash, NoEntries, ReplicasOK, LeasesOK, ReplicaListsSound
<1> QED BY <1>1, <1>2 DEF IInv

\* A restart keeps the invariant, whether it succeeds or not.
LEMMA InitializeOK ==
  ASSUME IInv, Initialize
  PROVE  IInv'
<1>1. TablesOK' /\ DiskOK'
  BY DEF Initialize, IInv, TablesOK, DiskOK
<1>2. ReplicasOK' /\ LeasesOK'
  BY ServingOK DEF Initialize
<1> QED BY <1>1, <1>2 DEF IInv

-----------------------------------------------------------------------------
(* Replica lists and leases.                                               *)

\* What is known of the list of a chunk, listed or not.
LEMMA ReplicasOfOK ==
  ASSUME IInv, NEW h
  PROVE  /\ ReplicasOf(h) \in Seq(Entry(Server))
         /\ ReplicasOf(h) = <<>> \/ IsReplicaList(ReplicasOf(h))
BY EmptySeq DEF ReplicasOf, IInv, ReplicasOK, ReplicaListsSound

\* A step that leaves everything but the replica lists and leases alone.
LEMMA TablesKept ==
  ASSUME IInv, UNCHANGED <<up, live, orphans, disk>>
  PROVE  TablesOK' /\ DiskOK'
BY DEF disk, IInv, TablesOK, DiskOK

\* One list of the right kind takes the place of another.
LEMMA PutReplicasOK ==
  ASSUME IInv, NEW h \in Handle, NEW rs \in Seq(Entry(Server)),
         IsReplicaList(rs), replicas' = Put(replicas, h, rs)
  PROVE  ReplicasOK'
BY DEF Put, IInv, ReplicasOK, ReplicaListsSound

\* RegisterReplica keeps the invariant.
LEMMA RegisterReplicaOK ==
  ASSUME IInv, NEW h \in Handle, NEW s \in Server, NEW primary \in BOOLEAN,
         RegisterReplica(h, s, primary)
  PROVE  IInv'
<1>1. /\ Registered(ReplicasOf(h), s, primary) \in Seq(Entry(Server))
      /\ IsReplicaList(Registered(ReplicasOf(h), s, primary))
  BY ReplicasOfOK, RegisteredSound
<1>2. ReplicasOK'
  BY <1>1, PutReplicasOK DEF RegisterReplica
<1>3. TablesOK' /\ DiskOK' /\ LeasesOK'
  BY TablesKept, DroppedOK DEF RegisterReplica
<1> QED BY <1>2, <1>3 DEF IInv

\* PlaceChunkReplicas keeps the invariant.
LEMMA PlaceChunkReplicasOK ==
  ASSUME IInv, NEW h \in Handle, NEW servers \in Placements,
         PlaceChunkReplicas(h, servers)
  PROVE  IInv'
<1>1. servers \in Seq(Server) /\ servers # <<>> /\ IsInjective(servers)
  <2>1. servers \in [1..Placement -> Server] /\ IsInjective(servers)
    BY DEF Placements
  <2>2. Placement \in Nat /\ Placement # 0
    BY RequestAssumption
  <2>3. servers \in Seq(Server) /\ Len(servers) = Placement
    BY <2>1, <2>2
  <2> QED BY <2>1, <2>2, <2>3, EmptySeq
<1>2. /\ RegisteredAll(ReplicasOf(h), servers) \in Seq(Entry(Server))
      /\ IsReplicaList(RegisteredAll(ReplicasOf(h), servers))
  BY <1>1, ReplicasOfOK, RegisteredAllSound
<1>3. ReplicasOK'
  BY <1>2, PutReplicasOK DEF PlaceChunkReplicas
<1>4. TablesOK' /\ DiskOK' /\ LeasesOK'
  BY TablesKept, DroppedOK DEF PlaceChunkReplicas
<1> QED BY <1>3, <1>4 DEF IInv

\* RemoveReplica keeps the invariant.
LEMMA RemoveReplicaOK ==
  ASSUME IInv, NEW h, NEW s, RemoveReplica(h, s)
  PROVE  IInv'
<1> DEFINE rest == Unregistered(replicas[h], s)
<1>1. h \in DOMAIN replicas /\ s \in Servers(replicas[h])
  BY DEF RemoveReplica, ReplicasOf, Servers
<1>2. /\ h \in Handle
      /\ replicas[h] \in Seq(Entry(Server)) /\ IsReplicaList(replicas[h])
  BY <1>1 DEF IInv, ReplicasOK, ReplicaListsSound
<1>3. /\ rest \in Seq(Entry(Server))
      /\ rest = <<>> \/ IsReplicaList(rest)
  BY <1>1, <1>2, UnregisteredSound
<1> HIDE DEF rest
<1>4. replicas' = IF rest = <<>> THEN Drop(replicas, {h})
                  ELSE Put(replicas, h, rest)
  BY DEF RemoveReplica, rest
<1>5. ReplicasOK'
  BY <1>2, <1>3, <1>4, DroppedOK, PutReplicasOK
<1>6. LeasesOK'
  BY DroppedOK DEF RemoveReplica
<1>7. TablesOK' /\ DiskOK'
  BY TablesKept DEF RemoveReplica
<1> QED BY <1>5, <1>6, <1>7 DEF IInv

\* SetPrimary keeps the invariant, whether the server is listed or not.
LEMMA SetPrimaryOK ==
  ASSUME IInv, NEW h, NEW s, SetPrimary(h, s)
  PROVE  IInv'
<1>1. /\ h \in Handle
      /\ replicas[h] \in Seq(Entry(Server)) /\ IsReplicaList(replicas[h])
  BY DEF SetPrimary, IInv, ReplicasOK, ReplicaListsSound
<1>2. /\ WithPrimary(replicas[h], s) \in Seq(Entry(Server))
      /\ IsReplicaList(WithPrimary(replicas[h], s))
  BY <1>1, WithPrimarySound
<1>3. ReplicasOK'
  BY <1>1, <1>2, PutReplicasOK DEF SetPrimary
<1>4. TablesOK' /\ DiskOK' /\ LeasesOK'
  BY TablesKept, DroppedOK DEF SetPrimary
<1> QED BY <1>3, <1>4 DEF IInv

\* A heartbeat keeps the invariant, whatever chunks it reports.
LEMMA ProcessHeartbeatOK ==
  ASSUME IInv, NEW s \in Server, NEW reported \in SUBSET Handle,
         ProcessHeartbeat(s, reported)
  PROVE  IInv'
<1>1. \A h : /\ Registered(ReplicasOf(h), s, FALSE) \in Seq(Entry(Server))
             /\ IsReplicaList(Registered(ReplicasOf(h), s, FALSE))
  BY ReplicasOfOK, RegisteredSound
<1>2. ReplicasOK'
  BY <1>1 DEF ProcessHeartbeat, IInv, ReplicasOK, ReplicaListsSound
<1>3. TablesOK' /\ DiskOK' /\ LeasesOK'
  BY TablesKept, DroppedOK DEF ProcessHeartbeat
<1> QED BY <1>2, <1>3 DEF IInv

\* The steps that only change leases keep the invariant.
LEMMA LeaseStepOK ==
  ASSUME IInv, NEW h \in Handle, NEW s,
         \/ s \in Server /\ AcquireLease(h, s)
         \/ ReleaseLease(h)
         \/ LeaseExpires(h)
         \/ RemoveExpiredLeases
  PROVE  IInv'
<1>1. /\ UNCHANGED <<up, live, orphans, disk>> /\ replicas' = replicas
      /\ \/ /\ s \in Server
            /\ leases' = Put(leases, h, [holder |-> s, expired |-> FALSE])
         \/ \E S : leases' = Drop(leases, S)
         \/ /\ h \in DOMAIN leases
            /\ leases' = [leases EXCEPT ![h].expired = TRUE]
  BY DEF AcquireLease, ReleaseLease, LeaseExpires, RemoveExpiredLeases
<1>2. TablesOK' /\ DiskOK' /\ ReplicasOK'
  BY <1>1, TablesKept, DroppedOK
<1>3. LeasesOK'
  <2>1. CASE /\ s \in Server
             /\ leases' = Put(leases, h, [holder |-> s, expired |-> FALSE])
    BY <2>1 DEF Put, Lease, IInv, LeasesOK
  <2>2. CASE \E S : leases' = Drop(leases, S)
    BY <2>2, DroppedOK
  <2>3. CASE /\ h \in DOMAIN leases
             /\ leases' = [leases EXCEPT ![h].expired = TRUE]
    BY <2>3 DEF Lease, IInv, LeasesOK
  <2> QED BY <1>1, <2>1, <2>2, <2>3
<1> QED BY <1>2, <1>3 DEF IInv

-----------------------------------------------------------------------------
(* The theorems.                                                           *)

\* Every step keeps the invariant.
LEMMA NextOK == IInv /\ [Next]_vars => IInv'
<1> SUFFICES ASSUME IInv, [Next]_vars PROVE IInv'
  OBVIOUS
<1>1. CASE UNCHANGED vars
  <2>1. UNCHANGED serving /\ UNCHANGED <<up, live, orphans, disk>>
    BY <1>1 DEF vars, serving, disk
  <2> QED BY <2>1, TablesKept, ServingOK DEF IInv
<1>2. CASE NamespaceRequest
  BY <1>2, RequestAssumption, CreateFileOK, CreateDirectoryOK, DeleteFileOK,
     RenameFileOK, CreateSnapshotOK DEF NamespaceRequest
<1>3. \A h \in Known : h \in Handle
  BY RequestAssumption DEF Known, Handle
<1>4. CASE ChunkRequest
  <2>1. \A i \in 1..MaxChunks : \A p : PrepareCopyOnWrite(p, i) => i \in Nat
    <3>1. ASSUME NEW p, NEW i, PrepareCopyOnWrite(p, i) PROVE i \in Nat
      <4>1. HasFile(live, p) /\ i \in DOMAIN ChunksOf(live, p)
        BY <3>1 DEF PrepareCopyOnWrite
      <4>2. ChunksOf(live, p) \in Seq(Handle)
        BY <4>1 DEF ChunksOf, HasFile, IInv, TablesOK, Consistent, IsState,
          FileMetadata
      <4> QED BY <4>1, <4>2, LenProperties
    <3> QED BY <3>1
  <2> QED BY <1>4, <2>1, RequestAssumption, UpdateFileSizeOK,
             AllocateChunkOK, SetChunkVersionOK, SetChunkSizeOK,
             AddChunkToFileOK, RemoveChunkFromFileOK, PrepareCopyOnWriteOK
          DEF ChunkRequest
<1>5. CASE Maintenance
  BY <1>5, IdentifyOrphansOK, CollectChunkOK, CreateCheckpointOK, CrashOK,
     InitializeOK DEF Maintenance
<1>6. CASE ServingStep
  <2>1. 1 \in Handle
    BY DEF Handle
  <2> QED BY <1>3, <1>6, <2>1, RequestAssumption, RegisterReplicaOK,
             PlaceChunkReplicasOK, RemoveReplicaOK, SetPrimaryOK,
             ProcessHeartbeatOK, LeaseStepOK
          DEF ServingStep
<1> QED BY <1>1, <1>2, <1>4, <1>5, <1>6 DEF Next

\* The invariant is inductive, so it always holds.
THEOREM InvariantHolds == Spec => []IInv
BY InitOK, NextOK, PTL DEF Spec

\* The variables of the master keep their types: versions and factors stay
\* positive, lists stay lists of handles, handles stay positive.
THEOREM TypeCorrect == Spec => []TypeOK
<1>1. IInv => TypeOK
  BY DEF IInv, TablesOK, DiskOK, ReplicasOK, LeasesOK, TypeOK, Consistent, Entry
<1> QED BY <1>1, InvariantHolds, PTL

\* The tables of the running master are consistent after any history of
\* requests, failed appends, collections, crashes and restarts: every node
\* hangs from a directory, the namespace and the file table name the same
\* files, every listed chunk is known and no handle is given out twice.
THEOREM LiveTablesConsistent == Spec => []LiveConsistent
<1>1. IInv => LiveConsistent
  BY DEF IInv, TablesOK, LiveConsistent
<1> QED BY <1>1, InvariantHolds, PTL

\* So are the tables that the newest checkpoint and the log yield.
THEOREM RecoveredTablesConsistent == Spec => []RecoveredConsistent
<1>1. IInv => RecoveredConsistent
  BY DEF IInv, DiskOK, RecoveredConsistent
<1> QED BY <1>1, InvariantHolds, PTL

\* Registrations, placements, heartbeats, removals and changes of primary, in
\* any order, leave a chunk with replicas on different servers and at most
\* one primary.
THEOREM ReplicaListsAlwaysSound == Spec => []ReplicaListsSound
<1>1. IInv => ReplicaListsSound
  BY DEF IInv, ReplicasOK
<1> QED BY <1>1, InvariantHolds, PTL

-----------------------------------------------------------------------------
(* What no step of a running master does.                                  *)

\* A copy-on-write adds at most its copy to the chunk table, which its undo
\* takes out again.
LEMMA CopyKeepsChunks ==
  ASSUME IInv, NEW p, NEW i, PrepareCopyOnWrite(p, i)
  PROVE  DOMAIN live.chunks \subseteq DOMAIN live'.chunks
<1> DEFINE copied == WithStandaloneChunk(live, live.next,
                                         live.chunks[ChunksOf(live, p)[i]])
<1>1. \/ live' = WithReplaced(copied, p, i, live.next)
      \/ live' = WithoutChunkEntry(copied, live.next)
  BY DEF PrepareCopyOnWrite
<1>2. live.next \notin DOMAIN live.chunks
  BY NextIsFresh DEF IInv, TablesOK
<1>3. DOMAIN copied.chunks = DOMAIN live.chunks \cup {live.next}
  BY DEF WithStandaloneChunk, Tables, Put
<1> HIDE DEF copied
<1>4. DOMAIN WithReplaced(copied, p, i, live.next).chunks = DOMAIN copied.chunks
  BY DEF WithReplaced, WithChunkList, Tables
<1>5. DOMAIN WithoutChunkEntry(copied, live.next).chunks
        = DOMAIN copied.chunks \ {live.next}
  BY DEF WithoutChunkEntry, Tables, Drop, Restrict
<1> QED BY <1>1, <1>2, <1>3, <1>4, <1>5

\* Chunks leave the table of a running master in two requests only.
LEMMA ChunksStay ==
  ASSUME IInv, Next, up, up',
         \A p \in Path : ~DeleteFile(p), \A h \in Known : ~CollectChunk(h)
  PROVE  DOMAIN live.chunks \subseteq DOMAIN live'.chunks
<1>1. CASE NamespaceRequest
  <2>1. ASSUME NEW p, NEW factor, CreateFile(p, factor)
        PROVE  live'.chunks = live.chunks
    BY <2>1 DEF CreateFile, LoggedRequest, WithFile, Tables
  <2>2. ASSUME NEW p, CreateDirectory(p)
        PROVE  live'.chunks = live.chunks
    BY <2>2 DEF CreateDirectory, LoggedRequest, WithDirectory, Tables
  <2>3. ASSUME NEW src, NEW dst, RenameFile(src, dst)
        PROVE  live'.chunks = live.chunks
    BY <2>3 DEF RenameFile, LoggedRequest, WithRenamed, Tables
  <2>4. ASSUME NEW src, NEW dst, CreateSnapshot(src, dst)
        PROVE  live'.chunks = live.chunks
    BY <2>4 DEF CreateSnapshot, WithSnapshot, Tables
  <2> QED BY <1>1, <2>1, <2>2, <2>3, <2>4 DEF NamespaceRequest
<1>2. CASE ChunkRequest
  <2>1. ASSUME NEW p, NEW size, UpdateFileSize(p, size)
        PROVE  live'.chunks = live.chunks
    BY <2>1 DEF UpdateFileSize, LoggedRequest, WithSize, Tables
  <2>2. ASSUME NEW p, AllocateChunk(p)
        PROVE  DOMAIN live.chunks \subseteq DOMAIN live'.chunks
    BY <2>2 DEF AllocateChunk, LoggedRequest, WithAllocated, WithChunkList,
      WithStandaloneChunk, Tables, Put
  <2>3. ASSUME NEW h, NEW version, SetChunkVersion(h, version)
        PROVE  DOMAIN live'.chunks = DOMAIN live.chunks
    BY <2>3 DEF SetChunkVersion, LoggedRequest, WithChunkVersion, Tables
  <2>4. ASSUME NEW h, NEW size, SetChunkSize(h, size)
        PROVE  DOMAIN live'.chunks = DOMAIN live.chunks
    BY <2>4 DEF SetChunkSize, LoggedRequest, WithChunkSize, Tables
  <2>5. ASSUME NEW p, NEW h, AddChunkToFile(p, h)
        PROVE  live'.chunks = live.chunks
    BY <2>5 DEF AddChunkToFile, LoggedRequest, WithAdded, WithChunkList, Tables
  <2>6. ASSUME NEW p, NEW h, RemoveChunkFromFile(p, h)
        PROVE  live'.chunks = live.chunks
    BY <2>6 DEF RemoveChunkFromFile, LoggedRequest, WithRemoved, WithChunkList,
      Tables
  <2> QED BY <1>2, <2>1, <2>2, <2>3, <2>4, <2>5, <2>6, CopyKeepsChunks
          DEF ChunkRequest
<1>3. CASE Maintenance
  BY <1>3 DEF Maintenance, IdentifyOrphans, CreateCheckpoint, Crash, Initialize
<1>4. CASE ServingStep
  BY <1>4 DEF ServingStep, RegisterReplica, PlaceChunkReplicas, RemoveReplica,
    SetPrimary, ProcessHeartbeat, AcquireLease, ReleaseLease, LeaseExpires,
    RemoveExpiredLeases
<1> QED BY <1>1, <1>2, <1>3, <1>4 DEF Next

\* What goes with a chunk that leaves the table.
LEMMA ChunkVanishes ==
  ASSUME IInv, [Next]_vars, up, up',
         NEW h \in DOMAIN live.chunks \ DOMAIN live'.chunks
  PROVE  /\ Holders(live, h) \cap DOMAIN live'.files = {}
         /\ h \notin DOMAIN replicas' \cup DOMAIN leases'
<1>1. Next
  BY DEF vars
<1>2. ASSUME NEW p, DeleteFile(p)
      PROVE  /\ Holders(live, h) \cap DOMAIN live'.files = {}
             /\ h \notin DOMAIN replicas' \cup DOMAIN leases'
  <2> DEFINE last == {g \in Range(ChunksOf(live, p)) : References(g) = {p}}
  <2>1. /\ HasFile(live, p) /\ live' = WithoutFile(live, p)
        /\ replicas' = Drop(replicas, last) /\ leases' = Drop(leases, last)
    BY <1>2 DEF DeleteFile
  <2>2. /\ DOMAIN live'.files = DOMAIN live.files \ {p}
        /\ Holders(live, h) = {p}
    BY <2>1 DEF WithoutFile, Tables, Drop, Restrict
  <2>3. h \in last
    BY <2>1, <2>2 DEF References, HasChunk, Holders, ChunksOf
  <2> QED BY <2>1, <2>2, <2>3 DEF Drop, Restrict
<1>3. ASSUME NEW g, CollectChunk(g)
      PROVE  /\ Holders(live, h) \cap DOMAIN live'.files = {}
             /\ h \notin DOMAIN replicas' \cup DOMAIN leases'
  <2>1. /\ References(g) = {} /\ HasChunk(live, g)
        /\ live' = WithoutChunkEntry(live, g)
        /\ replicas' = Drop(replicas, {g}) /\ leases' = Drop(leases, {g})
    BY <1>3 DEF CollectChunk
  <2>2. h = g
    BY <2>1 DEF WithoutChunkEntry, Tables, Drop, Restrict
  <2> QED BY <2>1, <2>2 DEF References, Drop, Restrict
<1> QED BY <1>1, <1>2, <1>3, ChunksStay

\* A chunk leaves the table of a running master only when no remaining file
\* refers to it: the deletion of a file spares the chunks others share, and a
\* collection counts again what its scan found unreferenced.
THEOREM ReferencedChunksStay == Spec => OnlyUnreferencedChunksVanish
<1> DEFINE Unreferenced ==
             (up /\ up') =>
               \A h \in DOMAIN live.chunks \ DOMAIN live'.chunks :
                 Holders(live, h) \cap DOMAIN live'.files = {}
<1>1. IInv /\ [Next]_vars => [Unreferenced]_vars
  BY ChunkVanishes
<1> QED BY <1>1, InvariantHolds, PTL DEF Spec, OnlyUnreferencedChunksVanish

\* It leaves its replica list and its lease in the same request.
THEOREM DeadChunksAreForgotten == Spec => DeadChunksForgotten
<1> DEFINE Forgotten ==
             (up /\ up') =>
               \A h \in DOMAIN live.chunks \ DOMAIN live'.chunks :
                 h \notin DOMAIN replicas' \cup DOMAIN leases'
<1>1. IInv /\ [Next]_vars => [Forgotten]_vars
  BY ChunkVanishes
<1> QED BY <1>1, InvariantHolds, PTL DEF Spec, DeadChunksForgotten

\* Every step but AcquireLease leaves a lease that remains with its holder.
LEMMA HoldersStay ==
  ASSUME IInv, [Next]_vars,
         NEW h \in DOMAIN leases \cap DOMAIN leases',
         leases[h].holder # leases'[h].holder
  PROVE  \E s \in Server : AcquireLease(h, s)
<1>1. \A S : leases' # Drop(leases, S)
  BY DEF Drop, Restrict
<1>2. leases' # leases /\ leases' # NoEntries
  BY DEF NoEntries
<1>3. \A g \in DOMAIN leases : leases' # [leases EXCEPT ![g].expired = TRUE]
  BY DEF IInv, LeasesOK, Lease
<1>4. Next
  BY <1>2 DEF vars
<1>5. ~NamespaceRequest
  BY <1>1, <1>2 DEF NamespaceRequest, CreateFile, CreateDirectory, DeleteFile,
    RenameFile, CreateSnapshot, serving
<1>6. ~ChunkRequest
  BY <1>1, <1>2 DEF ChunkRequest, UpdateFileSize, AllocateChunk,
    SetChunkVersion, SetChunkSize, AddChunkToFile, RemoveChunkFromFile,
    PrepareCopyOnWrite, serving
<1>7. ~Maintenance
  BY <1>1, <1>2 DEF Maintenance, IdentifyOrphans, CollectChunk,
    CreateCheckpoint, Crash, Initialize, serving
<1>8. PICK g \in Served, s \in Server : AcquireLease(g, s)
  BY <1>1, <1>2, <1>3, <1>4, <1>5, <1>6, <1>7
     DEF Next, ServingStep, RegisterReplica, PlaceChunkReplicas, RemoveReplica,
         SetPrimary, ProcessHeartbeat, ReleaseLease, LeaseExpires,
         RemoveExpiredLeases
<1>9. h = g
  BY <1>8 DEF AcquireLease, Put
<1> QED BY <1>8, <1>9

\* A lease passes to another server only after it has expired: whoever the
\* replica list names as primary, the holder on record keeps it until then.
THEOREM LeasesAreNotStolen == Spec => LeaseNotStolen
<1> DEFINE Kept ==
             \A h \in DOMAIN leases \cap DOMAIN leases' :
               leases[h].holder # leases'[h].holder => leases[h].expired
<1>1. IInv /\ [Next]_vars => [Kept]_vars
  BY HoldersStay DEF AcquireLease
<1> QED BY <1>1, InvariantHolds, PTL DEF Spec, LeaseNotStolen

\* A request other than a snapshot that only adds files adds empty ones.
LEMMA AddedFilesEmpty ==
  ASSUME IInv, Next, up, DOMAIN live.files \subseteq DOMAIN live'.files,
         NEW p \in DOMAIN live'.files \ DOMAIN live.files,
         \A src, dst \in Path : ~CreateSnapshot(src, dst)
  PROVE  ChunksOf(live', p) = <<>>
<1>1. DOMAIN live'.files # DOMAIN live.files
  OBVIOUS
<1>2. NamespaceRequest
  <2>1. ~ServingStep
    BY <1>1 DEF ServingStep, RegisterReplica, PlaceChunkReplicas,
      RemoveReplica, SetPrimary, ProcessHeartbeat, AcquireLease, ReleaseLease,
      LeaseExpires, RemoveExpiredLeases
  <2>2. ~Maintenance
    <3>1. ASSUME NEW h, CollectChunk(h)
          PROVE  DOMAIN live'.files = DOMAIN live.files
      BY <3>1 DEF CollectChunk, WithoutChunkEntry, Tables
    <3>2. ~Crash
      BY DEF Crash, EmptyState, Tables
    <3> QED BY <1>1, <3>1, <3>2 DEF Maintenance, IdentifyOrphans,
              CreateCheckpoint, Initialize
  <2>3. \A q, i : ~PrepareCopyOnWrite(q, i)
    <3> SUFFICES ASSUME NEW q, NEW i, PrepareCopyOnWrite(q, i) PROVE FALSE
      OBVIOUS
    <3> DEFINE copied == WithStandaloneChunk(live, live.next,
                           live.chunks[ChunksOf(live, q)[i]])
    <3>1. \/ live' = WithReplaced(copied, q, i, live.next)
          \/ live' = WithoutChunkEntry(copied, live.next)
      BY DEF PrepareCopyOnWrite
    <3>2. DOMAIN copied.files = DOMAIN live.files
      BY DEF WithStandaloneChunk, Tables
    <3> HIDE DEF copied
    <3>3. DOMAIN WithReplaced(copied, q, i, live.next).files
            = DOMAIN copied.files
      BY DEF WithReplaced, WithChunkList, Tables
    <3>4. DOMAIN WithoutChunkEntry(copied, live.next).files
            = DOMAIN copied.files
      BY DEF WithoutChunkEntry, Tables
    <3> QED BY <1>1, <3>1, <3>2, <3>3, <3>4
  <2>4. ASSUME NEW q, NEW size, UpdateFileSize(q, size)
        PROVE  DOMAIN live'.files = DOMAIN live.files
    BY <2>4 DEF UpdateFileSize, LoggedRequest, WithSize, Tables
  <2>5. ASSUME NEW q, AllocateChunk(q)
        PROVE  DOMAIN live'.files = DOMAIN live.files
    BY <2>5 DEF AllocateChunk, LoggedRequest, WithAllocated, WithChunkList,
      WithStandaloneChunk, Tables
  <2>6. ASSUME NEW h, NEW v, SetChunkVersion(h, v)
        PROVE  DOMAIN live'.files = DOMAIN live.files
    BY <2>6 DEF SetChunkVersion, LoggedRequest, WithChunkVersion, Tables
  <2>7. ASSUME NEW h, NEW size, SetChunkSize(h, size)
        PROVE  DOMAIN live'.files = DOMAIN live.files
    BY <2>7 DEF SetChunkSize, LoggedRequest, WithChunkSize, Tables
  <2>8. ASSUME NEW q, NEW h, AddChunkToFile(q, h)
        PROVE  DOMAIN live'.files = DOMAIN live.files
    BY <2>8 DEF AddChunkToFile, LoggedRequest, WithAdded, WithChunkList, Tables
  <2>9. ASSUME NEW q, NEW h, RemoveChunkFromFile(q, h)
        PROVE  DOMAIN live'.files = DOMAIN live.files
    BY <2>9 DEF RemoveChunkFromFile, LoggedRequest, WithRemoved, WithChunkList,
      Tables
  <2>10. ~ChunkRequest
    BY <1>1, <2>3, <2>4, <2>5, <2>6, <2>7, <2>8, <2>9
       DEF ChunkRequest
  <2> QED BY <2>1, <2>2, <2>10 DEF Next
<1>3. ASSUME NEW q, CreateDirectory(q)
      PROVE  DOMAIN live'.files = DOMAIN live.files
  BY <1>3 DEF CreateDirectory, LoggedRequest, WithDirectory, Tables
<1>4. \A q : ~DeleteFile(q)
  <2> SUFFICES ASSUME NEW q, DeleteFile(q) PROVE FALSE
    OBVIOUS
  <2>1. live' = WithoutFile(live, q) \/ live' = live
    BY DEF DeleteFile
  <2>2. DOMAIN WithoutFile(live, q).files \subseteq DOMAIN live.files
    BY DEF WithoutFile, Tables, Drop, Restrict
  <2> QED BY <1>1, <2>1, <2>2
<1>5. \A src, dst : ~RenameFile(src, dst)
  <2> SUFFICES ASSUME NEW src, NEW dst, RenameFile(src, dst) PROVE FALSE
    OBVIOUS
  <2>1. live' = WithRenamed(live, src, dst) /\ CanRename(live, src, dst)
    BY <1>1 DEF RenameFile, LoggedRequest
  <2> QED BY <2>1 DEF WithRenamed, CanRename, HasFile, Tables, Put, Drop,
            Restrict
<1>6. PICK q \in Path, factor \in Factor : CreateFile(q, factor)
  BY <1>1, <1>2, <1>3, <1>4, <1>5 DEF NamespaceRequest
<1> QED BY <1>6 DEF CreateFile, LoggedRequest, WithFile, Tables, Put, ChunksOf,
          HasFile

\* A snapshot releases the lease on every chunk of the files it adds.
LEMMA SnapshotReleases ==
  ASSUME NEW src, NEW dst, CreateSnapshot(src, dst),
         NEW p \in DOMAIN live'.files \ DOMAIN live.files,
         NEW h \in Range(ChunksOf(live', p))
  PROVE  h \notin DOMAIN leases'
<1> DEFINE origin(r) ==
             CHOOSE q \in Copied(live, src) : DestinationFor(q, src, dst) = r
           shared == UNION {Range(ChunksOf(live, q)) : q \in Copied(live, src)}
<1>1. live' = WithSnapshot(live, src, dst) /\ leases' = Drop(leases, shared)
      /\ CanSnapshot(live, src, dst)
  BY DEF CreateSnapshot
<1>2. /\ \E q \in Copied(live, src) : DestinationFor(q, src, dst) = p
      /\ IsFile(live, origin(p))
      /\ live'.files[p] = live.files[origin(p)]
  BY <1>1 DEF WithSnapshot, Tables
<1>3. origin(p) \in Copied(live, src)
  BY <1>2
<1> HIDE DEF origin
<1>4. HasFile(live, origin(p))
  BY <1>1, <1>2, <1>3 DEF CanSnapshot
<1>5. ChunksOf(live', p) = ChunksOf(live, origin(p))
  BY <1>2, <1>4 DEF ChunksOf, HasFile
<1>6. h \in shared
  BY <1>3, <1>5
<1> QED BY <1>1, <1>6 DEF Drop, Restrict

\* A snapshot revokes the leases on the chunks it comes to share, so that no
\* primary goes on writing to them without asking for a copy.
THEOREM SnapshotsRevokeLeases == Spec => SnapshotRevokesLeases
<1> DEFINE Revoked ==
             (up /\ DOMAIN live.files \subseteq DOMAIN live'.files) =>
               \A p \in DOMAIN live'.files \ DOMAIN live.files :
                 \A h \in Range(ChunksOf(live', p)) :
                   Cardinality(Holders(live', h)) > 1
                     => h \notin DOMAIN leases'
<1>1. IInv /\ [Next]_vars => [Revoked]_vars
  <2> SUFFICES ASSUME IInv, Next, up,
                      DOMAIN live.files \subseteq DOMAIN live'.files,
                      NEW p \in DOMAIN live'.files \ DOMAIN live.files,
                      NEW h \in Range(ChunksOf(live', p))
               PROVE  h \notin DOMAIN leases'
    BY DEF vars
  <2>1. PICK src \in Path, dst \in Path : CreateSnapshot(src, dst)
    BY AddedFilesEmpty, EmptySeq DEF Range
  <2> QED BY <2>1, SnapshotReleases
<1> QED BY <1>1, InvariantHolds, PTL DEF Spec, SnapshotRevokesLeases

-----------------------------------------------------------------------------
(* The chunk lists of the files that are there before and after a step.    *)

\* The files a step leaves in place.
Remaining == DOMAIN live.files \cap DOMAIN live'.files

\* Only p's list changes, in length; positions it keeps hold known chunks.
ListChanges(p) ==
  /\ \A q \in Remaining \ {p} : ChunksOf(live', q) = ChunksOf(live, q)
  /\ p \in Remaining =>
       /\ \/ ChunksOf(live', p) = ChunksOf(live, p)
          \/ Len(ChunksOf(live', p)) # Len(ChunksOf(live, p))
       /\ \A i \in DOMAIN ChunksOf(live, p) \cap DOMAIN ChunksOf(live', p) :
            HasChunk(live, ChunksOf(live', p)[i])

\* Lists hold known chunks only.
LEMMA ListedChunksKnown ==
  ASSUME IInv, NEW p \in DOMAIN live.files
  PROVE  /\ ChunksOf(live, p) = live.files[p].chunks
         /\ ChunksOf(live, p) \in Seq(Handle)
         /\ \A i \in DOMAIN ChunksOf(live, p) :
              HasChunk(live, ChunksOf(live, p)[i])
<1>1. ChunksOf(live, p) = live.files[p].chunks
  BY DEF ChunksOf, HasFile
<1>2. /\ live.files[p] \in FileMetadata
      /\ Range(live.files[p].chunks) \subseteq DOMAIN live.chunks
  BY DEF IInv, TablesOK, Consistent, IsState, ChunksResolvable
<1> QED BY <1>1, <1>2 DEF FileMetadata, Range, HasChunk

\* A step that changes no list of a file that remains.
LEMMA NoListChanges ==
  ASSUME IInv, \A q \in Remaining : live'.files[q].chunks = live.files[q].chunks
  PROVE  \A p : ListChanges(p)
<1>1. \A q \in Remaining : ChunksOf(live', q) = ChunksOf(live, q)
  BY DEF Remaining, ChunksOf, HasFile
<1>2. \A q \in Remaining : \A i \in DOMAIN ChunksOf(live, q) :
        HasChunk(live, ChunksOf(live, q)[i])
  BY ListedChunksKnown DEF Remaining
<1> QED BY <1>1, <1>2 DEF ListChanges

\* A step that gives one file another list.
LEMMA OneListChanges ==
  ASSUME IInv, NEW p \in DOMAIN live.files, NEW list,
         DOMAIN live'.files = DOMAIN live.files,
         live'.files = [live.files EXCEPT ![p].chunks = list],
         list = ChunksOf(live, p) \/ Len(list) # Len(ChunksOf(live, p)),
         \A i \in DOMAIN ChunksOf(live, p) \cap DOMAIN list :
           HasChunk(live, list[i])
  PROVE  ListChanges(p)
<1>1. live.files[p] \in FileMetadata
      /\ live.files \in [DOMAIN live.files -> FileMetadata]
  BY DEF IInv, TablesOK, Consistent, IsState
<1>2. live'.files[p].chunks = list
  BY <1>1 DEF FileMetadata
<1>3. \A q \in DOMAIN live.files \ {p} : live'.files[q] = live.files[q]
  BY <1>1
<1>4. /\ ChunksOf(live', p) = list
      /\ \A q \in Remaining \ {p} : ChunksOf(live', q) = ChunksOf(live, q)
  BY <1>2, <1>3 DEF ChunksOf, HasFile, Remaining
<1> QED BY <1>4 DEF ListChanges

\* A list with one chunk more.
LEMMA AppendedList ==
  ASSUME IInv, NEW p \in DOMAIN live.files, NEW h \in Handle
  PROVE  LET list == Append(live.files[p].chunks, h)
         IN  /\ Len(list) # Len(ChunksOf(live, p))
             /\ \A i \in DOMAIN ChunksOf(live, p) \cap DOMAIN list :
                  HasChunk(live, list[i])
<1> DEFINE old == ChunksOf(live, p)
<1>1. /\ old = live.files[p].chunks /\ old \in Seq(Handle)
      /\ \A i \in DOMAIN old : HasChunk(live, old[i])
  BY ListedChunksKnown
<1> HIDE DEF old
<1>2. /\ Len(Append(old, h)) = Len(old) + 1 /\ Len(old) \in Nat
      /\ \A i \in DOMAIN old : Append(old, h)[i] = old[i]
  BY <1>1, AppendProperties, LenProperties
<1> QED BY <1>1, <1>2 DEF old

\* A list with one chunk less, or the same list.
LEMMA ShortenedList ==
  ASSUME IInv, NEW p \in DOMAIN live.files, NEW h
  PROVE  LET list == WithoutChunk(live.files[p].chunks, h)
         IN  /\ list = ChunksOf(live, p) \/ Len(list) # Len(ChunksOf(live, p))
             /\ \A i \in DOMAIN ChunksOf(live, p) \cap DOMAIN list :
                  HasChunk(live, list[i])
<1> DEFINE old == ChunksOf(live, p)
           list == WithoutChunk(old, h)
<1>1. /\ old = live.files[p].chunks /\ old \in Seq(Handle)
      /\ \A i \in DOMAIN old : HasChunk(live, old[i])
      /\ Len(old) \in Nat /\ DOMAIN old = 1..Len(old)
      /\ IsInjective(old)
  BY ListedChunksKnown, LenProperties
     DEF IInv, TablesOK, Consistent, ChunksResolvable
<1>2. CASE h \notin Range(old)
  <2>1. list = old
    BY <1>2 DEF WithoutChunk
  <2> QED BY <1>1, <2>1
<1>3. CASE h \in Range(old)
  <2> DEFINE k == CHOOSE j \in DOMAIN old : old[j] = h
             short == [j \in 1..(Len(old) - 1) |->
                         IF j < k THEN old[j] ELSE old[j + 1]]
  <2>1. k \in DOMAIN old
    BY <1>3 DEF Range
  <2>2. list = short
    BY <1>3 DEF WithoutChunk
  <2> HIDE DEF k
  <2>3. Len(old) - 1 \in Nat
    BY <1>1, <2>1
  <2>4. DOMAIN short = 1..(Len(old) - 1) /\ Len(short) = Len(old) - 1
    BY <2>3
  <2>5. \A i \in 1..(Len(old) - 1) : HasChunk(live, short[i])
    BY <1>1, <2>3
  <2> HIDE DEF old, list, short
  <2>6. Len(list) # Len(old)
    BY <1>1, <2>2, <2>4
  <2>7. \A i \in DOMAIN list : HasChunk(live, list[i])
    BY <2>2, <2>4, <2>5
  <2> QED BY <1>1, <2>6, <2>7 DEF old, list
<1> QED BY <1>2, <1>3

\* Every step of a running master but a copy-on-write changes one list at
\* most, by appending a chunk or taking one out.
LEMMA ListSteps ==
  ASSUME IInv, Next, up, up', \A p, i : ~PrepareCopyOnWrite(p, i)
  PROVE  \E p : ListChanges(p)
<1>1. ASSUME live'.files = live.files PROVE \E p : ListChanges(p)
  BY <1>1, NoListChanges
<1>2. ASSUME NEW p, DOMAIN live'.files \subseteq DOMAIN live.files \cup {p},
             p \notin DOMAIN live.files \/ p \notin DOMAIN live'.files,
             \A q \in DOMAIN live'.files \ {p} : live'.files[q] = live.files[q]
      PROVE  \E q : ListChanges(q)
  <2>1. \A q \in Remaining : live'.files[q] = live.files[q]
    BY <1>2 DEF Remaining
  <2> QED BY <2>1, NoListChanges
<1>3. CASE NamespaceRequest
  <2>1. ASSUME NEW p, NEW factor, CreateFile(p, factor)
        PROVE  \E q : ListChanges(q)
    <3>1. live' = live \/ (live' = WithFile(live, p, factor) /\ CanAddFile(live, p))
      BY <2>1 DEF CreateFile, LoggedRequest
    <3>2. ASSUME live' = WithFile(live, p, factor), CanAddFile(live, p)
          PROVE  \E q : ListChanges(q)
      <4>1. /\ p \notin DOMAIN live.files
            /\ DOMAIN live'.files = DOMAIN live.files \cup {p}
            /\ \A q \in DOMAIN live.files : live'.files[q] = live.files[q]
        BY <3>2 DEF WithFile, Tables, Put, CanAddFile, HasFile
      <4> QED BY <4>1, <1>2
    <3> QED BY <1>1, <3>1, <3>2
  <2>2. ASSUME NEW p, CreateDirectory(p) PROVE live'.files = live.files
    BY <2>2 DEF CreateDirectory, LoggedRequest, WithDirectory, Tables
  <2>3. ASSUME NEW p, DeleteFile(p) PROVE \E q : ListChanges(q)
    <3>1. live' = live \/ live' = WithoutFile(live, p)
      BY <2>3 DEF DeleteFile
    <3>2. ASSUME live' = WithoutFile(live, p)
          PROVE  \E q : ListChanges(q)
      <4>1. /\ DOMAIN live'.files = DOMAIN live.files \ {p}
            /\ \A q \in DOMAIN live'.files : live'.files[q] = live.files[q]
        BY <3>2 DEF WithoutFile, Tables, Drop, Restrict
      <4> QED BY <4>1, <1>2
    <3> QED BY <1>1, <3>1, <3>2
  <2>4. ASSUME NEW src, NEW dst, RenameFile(src, dst)
        PROVE  \E q : ListChanges(q)
    <3>1. live' = live
          \/ (live' = WithRenamed(live, src, dst) /\ CanRename(live, src, dst))
      BY <2>4 DEF RenameFile, LoggedRequest
    <3>2. ASSUME live' = WithRenamed(live, src, dst), CanRename(live, src, dst)
          PROVE  \E q : ListChanges(q)
      <4>1. live'.files = Put(Drop(live.files, {src}), dst, live.files[src])
            /\ dst \notin DOMAIN live.files
        BY <3>2 DEF WithRenamed, Tables, CanRename, HasFile
      <4>2. \A q \in Remaining : live'.files[q] = live.files[q]
        BY <4>1 DEF Remaining, Put, Drop, Restrict
      <4> QED BY <4>2, NoListChanges
    <3> QED BY <1>1, <3>1, <3>2
  <2>5. ASSUME NEW src, NEW dst, CreateSnapshot(src, dst)
        PROVE  \E q : ListChanges(q)
    <3>1. live' = live
          \/ (live' = WithSnapshot(live, src, dst) /\ CanSnapshot(live, src, dst))
      BY <2>5 DEF CreateSnapshot
    <3>2. ASSUME live' = WithSnapshot(live, src, dst),
                 CanSnapshot(live, src, dst)
          PROVE  \E q : ListChanges(q)
      <4> DEFINE nodes == {DestinationFor(q, src, dst) : q \in Copied(live, src)}
      <4>1. \A q \in Remaining : q \notin nodes
        <5>1. \A q \in nodes : ~Exists(live, q)
          BY <3>2 DEF CanSnapshot
        <5>2. \A q \in DOMAIN live.files : Exists(live, q)
          BY DEF IInv, TablesOK, Consistent, NamespaceMatchesFiles, Exists
        <5> QED BY <5>1, <5>2 DEF Remaining
      <4>2. \A q \in Remaining : live'.files[q] = live.files[q]
        BY <3>2, <4>1 DEF Remaining, WithSnapshot, Tables
      <4> QED BY <4>2, NoListChanges
    <3> QED BY <1>1, <3>1, <3>2
  <2> QED BY <1>1, <1>3, <2>1, <2>2, <2>3, <2>4, <2>5 DEF NamespaceRequest
<1>4. CASE ChunkRequest
  <2>1. ASSUME NEW p, NEW size, UpdateFileSize(p, size)
        PROVE  \E q : ListChanges(q)
    <3>1. live' = live \/ live'.files = [live.files EXCEPT ![p].size = size]
      BY <2>1 DEF UpdateFileSize, LoggedRequest, WithSize, Tables
    <3>2. live.files \in [DOMAIN live.files -> FileMetadata]
      BY DEF IInv, TablesOK, Consistent, IsState
    <3>3. ASSUME NEW q \in Remaining
          PROVE  live'.files[q].chunks = live.files[q].chunks
      <4>1. q \in DOMAIN live.files /\ live.files[q] \in FileMetadata
        BY <3>2 DEF Remaining
      <4>2. [live.files[q] EXCEPT !.size = size].chunks = live.files[q].chunks
        BY <4>1 DEF FileMetadata
      <4>3. CASE live' = live
        BY <4>3
      <4>4. CASE live'.files = [live.files EXCEPT ![p].size = size]
        <5>1. live'.files[q] \in {live.files[q],
                                  [live.files[q] EXCEPT !.size = size]}
          BY <4>1, <4>4
        <5> QED BY <4>2, <5>1
      <4> QED BY <3>1, <4>3, <4>4
    <3> QED BY <3>3, NoListChanges
  <2>2. ASSUME NEW p, AllocateChunk(p)
        PROVE  \E q : ListChanges(q)
    <3> DEFINE list == Append(live.files[p].chunks, live.next)
    <3>1. /\ p \in DOMAIN live.files
          /\ \/ live' = live
             \/ live'.files = [live.files EXCEPT ![p].chunks = list]
      BY <2>2 DEF AllocateChunk, HasFile, LoggedRequest, WithAllocated,
        WithChunkList, WithStandaloneChunk, Tables
    <3>2. live.next \in Handle
      BY NextIsFresh DEF IInv, TablesOK
    <3>3. /\ Len(list) # Len(ChunksOf(live, p))
          /\ \A i \in DOMAIN ChunksOf(live, p) \cap DOMAIN list :
               HasChunk(live, list[i])
      BY <3>1, <3>2, AppendedList
    <3> HIDE DEF list
    <3>4. CASE live'.files = [live.files EXCEPT ![p].chunks = list]
      BY <3>1, <3>3, <3>4, OneListChanges
    <3> QED BY <1>1, <3>1, <3>4
  <2>3. ASSUME NEW h, NEW v, SetChunkVersion(h, v) PROVE live'.files = live.files
    BY <2>3 DEF SetChunkVersion, LoggedRequest, WithChunkVersion, Tables
  <2>4. ASSUME NEW h, NEW size, SetChunkSize(h, size)
        PROVE  live'.files = live.files
    BY <2>4 DEF SetChunkSize, LoggedRequest, WithChunkSize, Tables
  <2>5. ASSUME NEW p, NEW h \in Known, AddChunkToFile(p, h)
        PROVE  \E q : ListChanges(q)
    <3> DEFINE list == Append(live.files[p].chunks, h)
    <3>1. /\ p \in DOMAIN live.files /\ h \in Handle
          /\ \/ live' = live
             \/ live'.files = [live.files EXCEPT ![p].chunks = list]
      BY <2>5, RequestAssumption DEF AddChunkToFile, HasFile, LoggedRequest,
        WithAdded, WithChunkList, Tables, Known, Handle
    <3>2. /\ Len(list) # Len(ChunksOf(live, p))
          /\ \A i \in DOMAIN ChunksOf(live, p) \cap DOMAIN list :
               HasChunk(live, list[i])
      BY <3>1, AppendedList
    <3> HIDE DEF list
    <3>3. CASE live'.files = [live.files EXCEPT ![p].chunks = list]
      BY <3>1, <3>2, <3>3, OneListChanges
    <3> QED BY <1>1, <3>1, <3>3
  <2>6. ASSUME NEW p, NEW h, RemoveChunkFromFile(p, h)
        PROVE  \E q : ListChanges(q)
    <3> DEFINE list == WithoutChunk(live.files[p].chunks, h)
    <3>1. /\ p \in DOMAIN live.files
          /\ \/ live' = live
             \/ live'.files = [live.files EXCEPT ![p].chunks = list]
      BY <2>6 DEF RemoveChunkFromFile, HasFile, LoggedRequest, WithRemoved,
        WithChunkList, Tables
    <3>2. /\ list = ChunksOf(live, p) \/ Len(list) # Len(ChunksOf(live, p))
          /\ \A i \in DOMAIN ChunksOf(live, p) \cap DOMAIN list :
               HasChunk(live, list[i])
      BY <3>1, ShortenedList
    <3> HIDE DEF list
    <3>3. CASE live'.files = [live.files EXCEPT ![p].chunks = list]
      BY <3>1, <3>2, <3>3, OneListChanges
    <3> QED BY <1>1, <3>1, <3>3
  <2> QED BY <1>1, <1>4, <2>1, <2>2, <2>3, <2>4, <2>5, <2>6 DEF ChunkRequest
<1>5. CASE Maintenance
  <2>1. ASSUME NEW h, CollectChunk(h) PROVE live'.files = live.files
    <3>1. \/ live' = live
          \/ (/\ live' = WithoutChunkEntry(live, h)
              /\ References(h) = {} /\ HasChunk(live, h))
      BY <2>1 DEF CollectChunk
    <3>2. ASSUME References(h) = {}, HasChunk(live, h)
          PROVE  WithoutChunkEntry(live, h).files = live.files
      BY <3>2, UnlistedLeaves
         DEF References, Holders, IInv, TablesOK, Consistent, IsState
    <3> QED BY <3>1, <3>2
  <2> QED BY <1>1, <1>5, <2>1 DEF Maintenance, IdentifyOrphans,
            CreateCheckpoint, Crash, Initialize
<1>6. CASE ServingStep
  BY <1>1, <1>6 DEF ServingStep, RegisterReplica, PlaceChunkReplicas,
    RemoveReplica, SetPrimary, ProcessHeartbeat, AcquireLease, ReleaseLease,
    LeaseExpires, RemoveExpiredLeases
<1> QED BY <1>3, <1>4, <1>5, <1>6 DEF Next

\* What a copy-on-write does to the lists and to the replicas of the copy.
LEMMA CopySteps ==
  ASSUME IInv, NEW p, NEW i, PrepareCopyOnWrite(p, i)
  PROVE  LET old == ChunksOf(live, p)
             servers == [j \in DOMAIN ReplicasOf(old[i]) |->
                           ReplicasOf(old[i])[j].server]
             to == ReplicasOf(live.next)
         IN  /\ p \in DOMAIN live.files /\ i \in DOMAIN old
             /\ \/ live'.files = live.files
                \/ /\ live'.files = [live.files EXCEPT
                                       ![p].chunks = [old EXCEPT ![i] = live.next]]
                   /\ Range(servers) \cap Servers(to) = {}
                   /\ servers # <<>> =>
                        replicas' = Put(replicas, live.next,
                                        RegisteredAll(to, servers))
<1> DEFINE old == ChunksOf(live, p)
           dst == live.next
           servers == [j \in DOMAIN ReplicasOf(old[i]) |->
                         ReplicasOf(old[i])[j].server]
           copied == WithStandaloneChunk(live, dst, live.chunks[old[i]])
           registered == Put(replicas, dst,
                             RegisteredAll(ReplicasOf(dst), servers))
<1>1. /\ p \in DOMAIN live.files /\ i \in DOMAIN old
      /\ \/ live' = WithoutChunkEntry(copied, dst)
         \/ /\ Range(servers) \cap Servers(ReplicasOf(dst)) = {}
            /\ live' = WithReplaced(copied, p, i, dst)
            /\ replicas' = IF servers = <<>> THEN replicas ELSE registered
  BY DEF PrepareCopyOnWrite, HasFile
<1>2. old = live.files[p].chunks
  BY <1>1, ListedChunksKnown
<1>3. copied.files = live.files
  BY DEF WithStandaloneChunk, Tables
<1> HIDE DEF copied
<1>4. WithoutChunkEntry(copied, dst).files = live.files
  <2>1. \A q \in DOMAIN live.files : dst \notin Range(live.files[q].chunks)
    BY NextIsFresh DEF IInv, TablesOK
  <2>2. live.files \in [DOMAIN live.files -> FileMetadata]
    BY DEF IInv, TablesOK, Consistent, IsState
  <2> QED BY <1>3, <2>1, <2>2, UnlistedLeaves
<1>5. WithReplaced(copied, p, i, dst).files
        = [live.files EXCEPT ![p].chunks = [old EXCEPT ![i] = dst]]
  BY <1>2, <1>3 DEF WithReplaced, WithChunkList, Tables
<1> HIDE DEF servers, registered
<1>6. \/ live'.files = live.files
      \/ /\ live'.files = [live.files EXCEPT
                             ![p].chunks = [old EXCEPT ![i] = dst]]
         /\ Range(servers) \cap Servers(ReplicasOf(dst)) = {}
         /\ servers # <<>> => replicas' = registered
  BY <1>1, <1>4, <1>5
<1> QED BY <1>1, <1>6 DEF servers, registered

\* The lists after a file was redirected to a copy.
LEMMA RedirectedLists ==
  ASSUME IInv, NEW p \in DOMAIN live.files, NEW i \in DOMAIN ChunksOf(live, p),
         live'.files = [live.files EXCEPT
           ![p].chunks = [ChunksOf(live, p) EXCEPT ![i] = live.next]]
  PROVE  /\ \A q \in Remaining \ {p} : ChunksOf(live', q) = ChunksOf(live, q)
         /\ ChunksOf(live', p) = [ChunksOf(live, p) EXCEPT ![i] = live.next]
         /\ Holders(live', live.next) = {p}
<1> DEFINE list == [ChunksOf(live, p) EXCEPT ![i] = live.next]
<1>1. live.files \in [DOMAIN live.files -> FileMetadata]
  BY DEF IInv, TablesOK, Consistent, IsState
<1>2. /\ DOMAIN live'.files = DOMAIN live.files
      /\ live'.files[p].chunks = list
      /\ \A q \in DOMAIN live.files \ {p} : live'.files[q] = live.files[q]
  BY <1>1 DEF FileMetadata
<1>3. /\ ChunksOf(live', p) = list
      /\ \A q \in Remaining \ {p} : ChunksOf(live', q) = ChunksOf(live, q)
  BY <1>2 DEF ChunksOf, HasFile, Remaining
<1>4. \A q \in DOMAIN live.files : live.next \notin Range(live.files[q].chunks)
  BY NextIsFresh DEF IInv, TablesOK
<1>5. list[i] = live.next /\ i \in DOMAIN list
  BY ListedChunksKnown
<1> HIDE DEF list
<1>6. Holders(live', live.next) = {p}
  BY <1>2, <1>4, <1>5 DEF Holders, Range
<1> QED BY <1>3, <1>6 DEF list

\* A copy-on-write, the only request that puts another chunk at a position of
\* a list, changes that position of one file, leaves the other holders of the
\* chunk alone and gives the file a chunk nobody else has.
THEOREM CopiesAreIsolated == Spec => CopyOnWriteIsolation
<1> DEFINE changed == {p \in DOMAIN live.files \cap DOMAIN live'.files :
                         ChunksOf(live, p) # ChunksOf(live', p)}
           Isolated(p) ==
             Len(ChunksOf(live, p)) = Len(ChunksOf(live', p)) =>
               \E i \in DOMAIN ChunksOf(live, p) :
                 /\ \A j \in DOMAIN ChunksOf(live, p) \ {i} :
                      ChunksOf(live', p)[j] = ChunksOf(live, p)[j]
                 /\ Holders(live', ChunksOf(live', p)[i]) = {p}
           Separate == (up /\ up') => /\ Cardinality(changed) <= 1
                                      /\ \A p \in changed : Isolated(p)
<1>1. ASSUME NEW p, changed \subseteq {p}, p \in changed => Isolated(p)
      PROVE  Separate
  <2>1. changed = {} \/ changed = {p}
    BY <1>1
  <2>2. Cardinality(changed) <= 1
    <3>1. Cardinality({}) = 0 /\ Cardinality({p}) = 1
      BY FS_EmptySet, FS_Singleton
    <3> HIDE DEF changed
    <3> QED BY <2>1, <3>1
  <2>3. \A q \in changed : Isolated(q)
    BY <2>1, <1>1
  <2> QED BY <2>2, <2>3
<1>2. ASSUME NEW p, ListChanges(p) PROVE Separate
  <2>1. changed \subseteq {p} /\ (p \in changed => Isolated(p))
    BY <1>2 DEF ListChanges, Remaining
  <2> QED BY <2>1, <1>1
<1>3. ASSUME IInv, NEW p, NEW i, PrepareCopyOnWrite(p, i) PROVE Separate
  <2>1. /\ p \in DOMAIN live.files /\ i \in DOMAIN ChunksOf(live, p)
        /\ \/ live'.files = live.files
           \/ live'.files = [live.files EXCEPT
                ![p].chunks = [ChunksOf(live, p) EXCEPT ![i] = live.next]]
    BY <1>3, CopySteps
  <2>2. CASE live'.files = live.files
    BY <1>2, <1>3, <2>2, NoListChanges
  <2>3. CASE live'.files = [live.files EXCEPT
               ![p].chunks = [ChunksOf(live, p) EXCEPT ![i] = live.next]]
    <3>1. /\ \A q \in Remaining \ {p} : ChunksOf(live', q) = ChunksOf(live, q)
          /\ ChunksOf(live', p) = [ChunksOf(live, p) EXCEPT ![i] = live.next]
          /\ Holders(live', live.next) = {p}
      BY <1>3, <2>1, <2>3, RedirectedLists
    <3>2. changed \subseteq {p} /\ Isolated(p)
      BY <2>1, <3>1 DEF Remaining
    <3> QED BY <3>2, <1>1
  <2> QED BY <2>1, <2>2, <2>3
<1>4. IInv /\ [Next]_vars => [Separate]_vars
  <2> SUFFICES ASSUME IInv, Next, up, up' PROVE Separate
    BY DEF vars
  <2> HIDE DEF Separate
  <2> QED BY <1>2, <1>3, ListSteps
<1> QED BY <1>4, InvariantHolds, PTL DEF Spec, CopyOnWriteIsolation

\* The replicas of a copy, when its source has any.
LEMMA CopyIsServed ==
  ASSUME IInv, NEW src \in Handle, NEW dst \in Handle,
         Servers(ReplicasOf(src)) # {},
         LET servers == [j \in DOMAIN ReplicasOf(src) |->
                           ReplicasOf(src)[j].server]
         IN  /\ Range(servers) \cap Servers(ReplicasOf(dst)) = {}
             /\ servers # <<>> =>
                  replicas' = Put(replicas, dst,
                                  RegisteredAll(ReplicasOf(dst), servers))
  PROVE  /\ Servers(ReplicasOf(src)) \subseteq Servers(replicas'[dst])
         /\ Primaries(replicas'[dst]) \subseteq Servers(ReplicasOf(src))
         /\ Primaries(replicas'[dst]) # {}
<1> DEFINE rs == ReplicasOf(src)
           to == ReplicasOf(dst)
           servers == [j \in DOMAIN rs |-> rs[j].server]
<1>1. rs \in Seq(Entry(Server)) /\ to \in Seq(Entry(Server))
  BY EmptySeq DEF ReplicasOf, IInv, ReplicasOK
<1> HIDE DEF rs, to
<1>2. /\ DOMAIN rs = 1..Len(rs) /\ Len(rs) \in Nat
      /\ \A j \in 1..Len(rs) : rs[j] \in Entry(Server)
  BY <1>1, LenProperties, ElementOfSeq
<1>3. \A j \in 1..Len(rs) : rs[j].server \in Server
  BY <1>2 DEF Entry
<1>4. /\ servers \in Seq(Server) /\ DOMAIN servers = DOMAIN rs
      /\ \A j \in DOMAIN rs : servers[j] = rs[j].server
  <2>1. servers = [j \in 1..Len(rs) |-> rs[j].server]
    BY <1>2
  <2> HIDE DEF servers
  <2>2. servers \in Seq(Server) /\ DOMAIN servers = 1..Len(rs)
    BY <1>2, <1>3, <2>1
  <2> QED BY <1>2, <2>1, <2>2
<1>5. Range(servers) \cap Servers(to) = {}
      /\ (servers # <<>> =>
            replicas' = Put(replicas, dst, RegisteredAll(to, servers)))
  BY DEF rs, to
<1> HIDE DEF servers
<1>6. PICK j \in DOMAIN rs : TRUE
  BY DEF rs, Servers
<1>7. servers # <<>> /\ 1 \in DOMAIN rs
  <2>1. Len(rs) # 0 /\ 1 \in 1..Len(rs)
    BY <1>2, <1>6
  <2>2. 1 \in DOMAIN servers
    BY <1>2, <1>4, <2>1
  <2> QED BY <1>2, <2>1, <2>2, EmptySeq
<1>8. \A k \in DOMAIN servers : servers[k] \notin Servers(to)
  BY <1>5 DEF Range
<1>9. /\ {servers[k] : k \in DOMAIN servers}
           \subseteq Servers(RegisteredAll(to, servers))
      /\ Primaries(RegisteredAll(to, servers)) = {servers[1]}
  BY <1>1, <1>4, <1>7, <1>8, RegisteredAllFresh
<1>10. replicas'[dst] = RegisteredAll(to, servers)
  BY <1>5, <1>7 DEF Put
<1>11. Servers(rs) = {servers[k] : k \in DOMAIN servers}
  BY <1>4 DEF Servers
<1>12. servers[1] \in Servers(rs)
  BY <1>4, <1>7 DEF Servers
<1>13. Servers(rs) \subseteq Servers(replicas'[dst])
  BY <1>9, <1>10, <1>11
<1>14. Primaries(replicas'[dst]) = {servers[1]}
  BY <1>9, <1>10
<1>15. /\ Primaries(replicas'[dst]) \subseteq Servers(rs)
       /\ Primaries(replicas'[dst]) # {}
  BY <1>12, <1>14
<1>16. rs = ReplicasOf(src)
  BY DEF rs
<1> QED BY <1>13, <1>15, <1>16

\* Every server listed for a shared chunk is listed for the copy a file is
\* redirected to, and one of them is its primary, although heartbeats may
\* have listed servers for the handle of the copy before.
THEOREM CopiesAreServed == Spec => CopyServedLikeSource
<1> DEFINE Served2(src, dst) ==
             (up /\ ~HasChunk(live, dst) /\ Servers(ReplicasOf(src)) # {}) =>
               /\ Servers(ReplicasOf(src)) \subseteq Servers(replicas'[dst])
               /\ Primaries(replicas'[dst]) \subseteq Servers(ReplicasOf(src))
               /\ Primaries(replicas'[dst]) # {}
           Like == \A p \in DOMAIN live.files \cap DOMAIN live'.files :
                     \A i \in DOMAIN ChunksOf(live, p)
                                \cap DOMAIN ChunksOf(live', p) :
                       Served2(ChunksOf(live, p)[i], ChunksOf(live', p)[i])
<1>1. ASSUME IInv, NEW q, ListChanges(q) PROVE Like
  <2>1. \A p \in Remaining :
          \A i \in DOMAIN ChunksOf(live, p) \cap DOMAIN ChunksOf(live', p) :
            HasChunk(live, ChunksOf(live', p)[i])
    BY <1>1, ListedChunksKnown DEF ListChanges, Remaining
  <2> QED BY <2>1 DEF Remaining
<1>2. ASSUME IInv, NEW q, NEW k, PrepareCopyOnWrite(q, k) PROVE Like
  <2> DEFINE old == ChunksOf(live, q)
             servers == [j \in DOMAIN ReplicasOf(old[k]) |->
                           ReplicasOf(old[k])[j].server]
             to == ReplicasOf(live.next)
  <2>1. /\ q \in DOMAIN live.files /\ k \in DOMAIN old
        /\ \/ live'.files = live.files
           \/ /\ live'.files = [live.files EXCEPT
                                  ![q].chunks = [old EXCEPT ![k] = live.next]]
              /\ Range(servers) \cap Servers(to) = {}
              /\ servers # <<>> =>
                   replicas' = Put(replicas, live.next,
                                   RegisteredAll(to, servers))
    BY <1>2, CopySteps
  <2>2. CASE live'.files = live.files
    <3> HIDE DEF Like
    <3> QED BY <1>1, <1>2, <2>2, NoListChanges
  <2>3. CASE /\ live'.files = [live.files EXCEPT
                                 ![q].chunks = [old EXCEPT ![k] = live.next]]
             /\ Range(servers) \cap Servers(to) = {}
             /\ servers # <<>> =>
                  replicas' = Put(replicas, live.next,
                                  RegisteredAll(to, servers))
    <3>1. /\ \A p \in Remaining \ {q} : ChunksOf(live', p) = ChunksOf(live, p)
          /\ ChunksOf(live', q) = [old EXCEPT ![k] = live.next]
      BY <1>2, <2>1, <2>3, RedirectedLists
    <3>2. old[k] \in Handle /\ live.next \in Handle
      <4>1. HasChunk(live, old[k])
        BY <1>2, <2>1, ListedChunksKnown
      <4> QED BY <1>2, <4>1, NextIsFresh
              DEF IInv, TablesOK, Consistent, IsState, HasChunk
    <3>3. Served2(old[k], live.next)
      BY <1>2, <2>3, <3>2, CopyIsServed
    <3>4. \A p \in Remaining : \A i \in DOMAIN ChunksOf(live, p) :
            HasChunk(live, ChunksOf(live, p)[i])
      BY <1>2, ListedChunksKnown DEF Remaining
    <3> HIDE DEF servers, to
    <3>5. ASSUME NEW p \in Remaining, NEW i \in DOMAIN ChunksOf(live, p),
                 ~(p = q /\ i = k)
          PROVE  HasChunk(live, ChunksOf(live', p)[i])
      <4>1. CASE p = q
        BY <3>1, <3>4, <3>5, <4>1
      <4>2. CASE p # q
        BY <3>1, <3>4, <3>5, <4>2
      <4> QED BY <4>1, <4>2
    <3>6. ChunksOf(live', q)[k] = live.next
      BY <2>1, <3>1
    <3> QED BY <3>3, <3>5, <3>6 DEF Remaining
  <2> QED BY <2>1, <2>2, <2>3
<1>3. IInv /\ [Next]_vars => [Like]_vars
  <2> SUFFICES ASSUME IInv, Next, up PROVE Like
    BY DEF vars
  <2>1. CASE up'
    <3> HIDE DEF Like
    <3> QED BY <1>1, <1>2, <2>1, ListSteps
  <2>2. CASE ~up'
    <3>1. Crash
      BY <2>2 DEF Next, NamespaceRequest, CreateFile, CreateDirectory,
        DeleteFile, RenameFile, CreateSnapshot, ChunkRequest, UpdateFileSize,
        AllocateChunk, SetChunkVersion, SetChunkSize, AddChunkToFile,
        RemoveChunkFromFile, PrepareCopyOnWrite, Maintenance, IdentifyOrphans,
        CollectChunk, CreateCheckpoint, Initialize, ServingStep,
        RegisterReplica, PlaceChunkReplicas, RemoveReplica, SetPrimary,
        ProcessHeartbeat, AcquireLease, ReleaseLease, LeaseExpires,
        RemoveExpiredLeases
    <3>2. DOMAIN live'.files = {}
      BY <3>1 DEF Crash, EmptyState, Tables
    <3> QED BY <3>2
  <2> QED BY <2>1, <2>2
<1> QED BY <1>3, InvariantHolds, PTL DEF Spec, CopyServedLikeSource

-----------------------------------------------------------------------------
(* Recovery is faithful: whatever the master accepted, refused, undid or   *)
(* collected, the tables that the newest checkpoint and the log yield name *)
(* the same files with the same chunks as the tables of the running        *)
(* master, unless an append that reached the disk was reported as failed.  *)
(* And the records of accepted requests are records that replay accepts.   *)

\* The tables r that a restart would build agree with the live tables l.
Agree(r, l) == SameFiles(r, l) /\ r.next <= l.next

\* A request writes the record op and turns l into new if it is accepted:
\* replay, if it takes the record, follows, and it takes the record if the
\* request was accepted and no chunk's collection was logged and given up.
Recorded(r, l, op, accepted, new) ==
  /\ CanReplay(r, op) =>
       Agree(Replayed(r, op), IF accepted THEN new ELSE l)
  /\ (accepted /\ DOMAIN l.chunks \subseteq DOMAIN r.chunks) =>
       CanReplay(r, op)

\* Two tables agree when the one has the other's names and files and knows
\* its chunks: those it knows besides are in no list.
LEMMA AgreeIfSame ==
  ASSUME NEW r, NEW l, Consistent(r), r.ns = l.ns, r.files = l.files,
         \A h \in DOMAIN r.chunks :
           h \in DOMAIN l.chunks /\ r.chunks[h] = l.chunks[h],
         r.next <= l.next
  PROVE  Agree(r, l)
<1>1. \A h \in DOMAIN l.chunks \ DOMAIN r.chunks : Holders(l, h) = {}
  BY DEF Holders, Consistent, ChunksResolvable
<1> QED BY <1>1 DEF Agree, SameFiles, HasChunk

\* What agreement gives.
LEMMA AgreeMeans ==
  ASSUME NEW r, NEW l, Agree(r, l)
  PROVE  /\ r.ns = l.ns /\ r.files = l.files /\ r.next <= l.next
         /\ \A h \in DOMAIN r.chunks :
              h \in DOMAIN l.chunks /\ r.chunks[h] = l.chunks[h]
         /\ DOMAIN r.chunks \subseteq DOMAIN l.chunks
         /\ \A p : /\ Exists(r, p) <=> Exists(l, p)
                   /\ IsFile(r, p) <=> IsFile(l, p)
                   /\ IsDirectory(r, p) <=> IsDirectory(l, p)
                   /\ HasFile(r, p) <=> HasFile(l, p)
                   /\ CanAddNode(r, p) <=> CanAddNode(l, p)
                   /\ ChunksOf(r, p) = ChunksOf(l, p)
         /\ \A h : Holders(r, h) = Holders(l, h)
<1>1. /\ r.ns = l.ns /\ r.files = l.files /\ r.next <= l.next
      /\ \A h \in DOMAIN r.chunks :
           h \in DOMAIN l.chunks /\ r.chunks[h] = l.chunks[h]
  BY DEF Agree, SameFiles, HasChunk
<1>2. \A p : /\ Exists(r, p) <=> Exists(l, p)
             /\ IsFile(r, p) <=> IsFile(l, p)
             /\ IsDirectory(r, p) <=> IsDirectory(l, p)
             /\ HasFile(r, p) <=> HasFile(l, p)
             /\ ChunksOf(r, p) = ChunksOf(l, p)
  BY <1>1 DEF Exists, IsFile, IsDirectory, HasFile, ChunksOf
<1>3. \A p : CanAddNode(r, p) <=> CanAddNode(l, p)
  BY <1>2 DEF CanAddNode
<1>4. \A h : Holders(r, h) = Holders(l, h)
  BY <1>1 DEF Holders
<1> QED BY <1>1, <1>2, <1>3, <1>4

-----------------------------------------------------------------------------
(* The records of the namespace requests.                                  *)

\* CreateFile: a record is written only for a name not in use, and replay
\* then accepts it exactly when the namespace does.
LEMMA CreateFileRecorded ==
  ASSUME NEW r, NEW l, Consistent(r), Agree(r, l),
         NEW p \in Seq(Name), NEW factor \in Factor, ~Exists(l, p)
  PROVE  Recorded(r, l, [type |-> "CreateFile", path |-> p, factor |-> factor],
                  CanAddFile(l, p), WithFile(l, p, factor))
<1> DEFINE op == [type |-> "CreateFile", path |-> p, factor |-> factor]
<1>1. /\ CanReplay(r, op) <=> CanAddFile(l, p)
      /\ Replayed(r, op) = WithFile(r, p, factor)
  BY AgreeMeans DEF CanReplay, Replayed, CanAddFile, IsFile
<1>2. op \in Operation
  BY DEF Operation
<1> HIDE DEF op
<1>3. CanAddFile(l, p) => Agree(WithFile(r, p, factor), WithFile(l, p, factor))
  <2> SUFFICES ASSUME CanAddFile(l, p)
               PROVE  Agree(WithFile(r, p, factor), WithFile(l, p, factor))
    OBVIOUS
  <2>1. Consistent(WithFile(r, p, factor))
    BY <1>1, <1>2, ReplayedConsistent
  <2> QED BY <2>1, AgreeIfSame, AgreeMeans DEF WithFile, Tables
<1> QED BY <1>1, <1>3 DEF Recorded, op

\* CreateDirectory, likewise.
LEMMA CreateDirectoryRecorded ==
  ASSUME NEW r, NEW l, Consistent(r), Agree(r, l),
         NEW p \in Seq(Name), ~Exists(l, p)
  PROVE  Recorded(r, l, [type |-> "CreateDirectory", path |-> p],
                  CanAddNode(l, p), WithDirectory(l, p))
<1> DEFINE op == [type |-> "CreateDirectory", path |-> p]
<1>1. /\ CanReplay(r, op) <=> CanAddNode(l, p)
      /\ Replayed(r, op) = WithDirectory(r, p)
  BY AgreeMeans DEF CanReplay, Replayed, IsDirectory
<1>2. op \in Operation
  BY DEF Operation
<1> HIDE DEF op
<1>3. CanAddNode(l, p) => Agree(WithDirectory(r, p), WithDirectory(l, p))
  <2> SUFFICES ASSUME CanAddNode(l, p)
               PROVE  Agree(WithDirectory(r, p), WithDirectory(l, p))
    OBVIOUS
  <2>1. Consistent(WithDirectory(r, p))
    BY <1>1, <1>2, ReplayedConsistent
  <2> QED BY <2>1, AgreeIfSame, AgreeMeans DEF WithDirectory, Tables
<1> QED BY <1>1, <1>3 DEF Recorded, op

\* DeleteFile: which chunks go with the file depends on the lists alone, and
\* the lists agree.
LEMMA DeleteFileRecorded ==
  ASSUME NEW r, NEW l, Consistent(r), Consistent(l), Agree(r, l),
         NEW p \in Seq(Name), IsFile(l, p)
  PROVE  Recorded(r, l, [type |-> "DeleteFile", path |-> p],
                  HasFile(l, p), WithoutFile(l, p))
<1> DEFINE op == [type |-> "DeleteFile", path |-> p]
<1>1. CanReplay(r, op) /\ Replayed(r, op) = WithoutFile(r, p)
  BY AgreeMeans DEF CanReplay, Replayed
<1>2. op \in Operation
  BY DEF Operation
<1>3. HasFile(l, p)
  BY DEF Consistent, NamespaceMatchesFiles, IsFile, Exists, HasFile
<1> HIDE DEF op
<1>4. Consistent(WithoutFile(r, p))
  BY <1>1, <1>2, ReplayedConsistent
<1>5. \A h \in DOMAIN WithoutFile(r, p).chunks :
        /\ h \in DOMAIN WithoutFile(l, p).chunks
        /\ WithoutFile(r, p).chunks[h] = WithoutFile(l, p).chunks[h]
  <2> DEFINE dead(st) == {h \in DOMAIN st.chunks : Holders(st, h) = {p}}
  <2>1. \A st : WithoutFile(st, p).chunks
                  = [h \in DOMAIN st.chunks \ dead(st) |-> st.chunks[h]]
    BY DEF WithoutFile, Tables, Drop, Restrict
  <2>2. \A h \in DOMAIN r.chunks \ dead(r) :
          h \in DOMAIN l.chunks \ dead(l) /\ r.chunks[h] = l.chunks[h]
    BY AgreeMeans
  <2> HIDE DEF dead
  <2> QED BY <2>1, <2>2
<1>6. \A st : /\ WithoutFile(st, p).ns = Drop(st.ns, {p})
              /\ WithoutFile(st, p).files = Drop(st.files, {p})
              /\ WithoutFile(st, p).next = st.next
  BY DEF WithoutFile, Tables
<1>7. Agree(WithoutFile(r, p), WithoutFile(l, p))
  <2>1. /\ WithoutFile(r, p).ns = WithoutFile(l, p).ns
        /\ WithoutFile(r, p).files = WithoutFile(l, p).files
        /\ WithoutFile(r, p).next <= WithoutFile(l, p).next
    BY <1>6, AgreeMeans
  <2> QED BY <1>4, <1>5, <2>1, AgreeIfSame
<1> QED BY <1>1, <1>3, <1>7 DEF Recorded, op

\* RenameFile: the record is refused by replay when it was by the tables.
LEMMA RenameFileRecorded ==
  ASSUME NEW r, NEW l, Consistent(r), Agree(r, l),
         NEW src \in Seq(Name), NEW dst \in Seq(Name)
  PROVE  Recorded(r, l, [type |-> "RenameFile", src |-> src, dst |-> dst],
                  CanRename(l, src, dst), WithRenamed(l, src, dst))
<1> DEFINE op == [type |-> "RenameFile", src |-> src, dst |-> dst]
<1>1. /\ CanReplay(r, op) <=> CanRename(l, src, dst)
      /\ Replayed(r, op) = WithRenamed(r, src, dst)
  BY AgreeMeans DEF CanReplay, Replayed, CanRename
<1>2. op \in Operation
  BY DEF Operation
<1> HIDE DEF op
<1>3. CanRename(l, src, dst) =>
        Agree(WithRenamed(r, src, dst), WithRenamed(l, src, dst))
  <2> SUFFICES ASSUME CanRename(l, src, dst)
               PROVE  Agree(WithRenamed(r, src, dst), WithRenamed(l, src, dst))
    OBVIOUS
  <2>1. Consistent(WithRenamed(r, src, dst))
    BY <1>1, <1>2, ReplayedConsistent
  <2> QED BY <2>1, AgreeIfSame, AgreeMeans DEF WithRenamed, Tables
<1> QED BY <1>1, <1>3 DEF Recorded, op

\* CreateSnapshot: the copies are the same, since they are made of the names
\* and the lists; chunks that replay does not know would be refused by it.
LEMMA CreateSnapshotRecorded ==
  ASSUME NEW r, NEW l, Consistent(r), Consistent(l), Agree(r, l),
         NEW src \in Seq(Name), NEW dst \in Seq(Name), ~Exists(l, dst)
  PROVE  Recorded(r, l, [type |-> "CreateSnapshot", src |-> src, dst |-> dst],
                  CanSnapshot(l, src, dst), WithSnapshot(l, src, dst))
<1> DEFINE op == [type |-> "CreateSnapshot", src |-> src, dst |-> dst]
<1>1. Copied(r, src) = Copied(l, src)
  BY AgreeMeans DEF Copied
<1>2. CanSnapshot(r, src, dst) <=> CanSnapshot(l, src, dst)
  <2>1. \A st : CanSnapshot(st, src, dst) <=>
          /\ Exists(st, src) /\ CanAddNode(st, dst)
          /\ \A q \in Copied(st, src) :
               /\ ~Exists(st, DestinationFor(q, src, dst))
               /\ IsFile(st, q) =>
                    /\ HasFile(st, q)
                    /\ ~HasFile(st, DestinationFor(q, src, dst))
                    /\ Range(st.files[q].chunks) \subseteq DOMAIN st.chunks
    BY DEF CanSnapshot
  <2>2. \A q : HasFile(r, q) =>
          /\ Range(r.files[q].chunks) \subseteq DOMAIN r.chunks
          /\ Range(l.files[q].chunks) \subseteq DOMAIN l.chunks
    BY AgreeMeans DEF HasFile, Consistent, ChunksResolvable
  <2> QED BY <1>1, <2>1, <2>2, AgreeMeans
<1>3. /\ CanReplay(r, op) <=> CanSnapshot(l, src, dst)
      /\ Replayed(r, op) = WithSnapshot(r, src, dst)
  BY <1>2, AgreeMeans DEF CanReplay, Replayed
<1>4. op \in Operation
  BY DEF Operation
<1> HIDE DEF op
<1>5. CanSnapshot(l, src, dst) =>
        Agree(WithSnapshot(r, src, dst), WithSnapshot(l, src, dst))
  <2> SUFFICES ASSUME CanSnapshot(l, src, dst)
               PROVE  Agree(WithSnapshot(r, src, dst), WithSnapshot(l, src, dst))
    OBVIOUS
  <2>1. Consistent(WithSnapshot(r, src, dst))
    BY <1>3, <1>4, ReplayedConsistent
  <2>2. /\ WithSnapshot(r, src, dst).ns = WithSnapshot(l, src, dst).ns
        /\ WithSnapshot(r, src, dst).files = WithSnapshot(l, src, dst).files
    BY <1>1, AgreeMeans DEF WithSnapshot, Tables, IsFile, Exists
  <2>3. \A st : /\ WithSnapshot(st, src, dst).chunks = st.chunks
                /\ WithSnapshot(st, src, dst).next = st.next
    BY DEF WithSnapshot, Tables
  <2> QED BY <2>1, <2>2, <2>3, AgreeIfSame, AgreeMeans
<1> QED BY <1>3, <1>5 DEF Recorded, op

-----------------------------------------------------------------------------
(* The records of the chunk requests.                                      *)

\* UpdateFileSize overwrites the size in both tables.
LEMMA UpdateFileSizeRecorded ==
  ASSUME NEW r, NEW l, Consistent(r), Agree(r, l),
         NEW p \in Seq(Name), NEW size \in Size, HasFile(l, p)
  PROVE  Recorded(r, l, [type |-> "UpdateFileSize", path |-> p, size |-> size],
                  TRUE, WithSize(l, p, size))
<1> DEFINE op == [type |-> "UpdateFileSize", path |-> p, size |-> size]
<1>1. CanReplay(r, op) /\ Replayed(r, op) = WithSize(r, p, size)
  BY AgreeMeans DEF CanReplay, Replayed
<1>2. op \in Operation
  BY DEF Operation
<1> HIDE DEF op
<1>3. Consistent(WithSize(r, p, size))
  BY <1>1, <1>2, ReplayedConsistent
<1>4. Agree(WithSize(r, p, size), WithSize(l, p, size))
  BY <1>3, AgreeIfSame, AgreeMeans DEF WithSize, Tables
<1> QED BY <1>1, <1>4 DEF Recorded, op

\* AllocateChunk: the handle is new to both tables, since the live one gives
\* out none below the other's.
LEMMA AllocateChunkRecorded ==
  ASSUME NEW r, NEW l, Consistent(r), Consistent(l), Agree(r, l),
         NEW p \in Seq(Name), HasFile(l, p)
  PROVE  Recorded(r, l, [type |-> "AllocateChunk", path |-> p,
                         handle |-> l.next],
                  TRUE, WithAllocated(l, p, l.next))
<1> DEFINE op == [type |-> "AllocateChunk", path |-> p, handle |-> l.next]
           h == l.next
<1>1. /\ h \in Handle /\ r.next \in Handle /\ h \notin DOMAIN r.chunks
      /\ \A q \in DOMAIN l.files : h \notin Range(l.files[q].chunks)
  BY NextIsFresh, AgreeMeans
<1>2. CanReplay(r, op) /\ Replayed(r, op) = WithAllocated(r, p, h)
  BY <1>1, AgreeMeans DEF CanReplay, Replayed, HasChunk, HasFile
<1>3. op \in Operation
  BY <1>1 DEF Operation
<1> HIDE DEF op
<1>4. Consistent(WithAllocated(r, p, h))
  BY <1>2, <1>3, ReplayedConsistent
<1>5. NextAfter(r.next, h) <= NextAfter(l.next, h)
  BY <1>1, AgreeMeans DEF NextAfter, Handle
<1>6. \A g \in DOMAIN Put(r.chunks, h, NewChunk) :
        /\ g \in DOMAIN Put(l.chunks, h, NewChunk)
        /\ Put(r.chunks, h, NewChunk)[g] = Put(l.chunks, h, NewChunk)[g]
  BY AgreeMeans DEF Put
<1>7. r.ns = l.ns /\ r.files = l.files
  BY AgreeMeans
<1> DEFINE r2 == WithAllocated(r, p, h)
           l2 == WithAllocated(l, p, h)
<1>8. /\ r2.ns = r.ns /\ l2.ns = l.ns
      /\ r2.files = [r.files EXCEPT ![p].chunks = Append(r.files[p].chunks, h)]
      /\ l2.files = [l.files EXCEPT ![p].chunks = Append(l.files[p].chunks, h)]
      /\ r2.chunks = Put(r.chunks, h, NewChunk)
      /\ l2.chunks = Put(l.chunks, h, NewChunk)
      /\ r2.next = NextAfter(r.next, h) /\ l2.next = NextAfter(l.next, h)
  BY DEF WithAllocated, WithChunkList, WithStandaloneChunk, Tables
<1> HIDE DEF r2, l2, h
<1>9. r2.ns = l2.ns /\ r2.files = l2.files /\ r2.next <= l2.next
  BY <1>5, <1>7, <1>8
<1>10. Agree(r2, l2)
  BY <1>4, <1>6, <1>8, <1>9, AgreeIfSame DEF r2
<1> QED BY <1>2, <1>10 DEF Recorded, op, r2, l2, h

\* SetChunkVersion and SetChunkSize overwrite a field of a chunk that replay
\* knows, or are refused by it.
LEMMA SetChunkVersionRecorded ==
  ASSUME NEW r, NEW l, Consistent(r), Agree(r, l),
         NEW h \in Handle, NEW version \in Version, HasChunk(l, h)
  PROVE  Recorded(r, l, [type |-> "SetChunkVersion", handle |-> h,
                         version |-> version],
                  TRUE, WithChunkVersion(l, h, version))
<1> DEFINE op == [type |-> "SetChunkVersion", handle |-> h, version |-> version]
<1>1. /\ CanReplay(r, op) <=> HasChunk(r, h)
      /\ Replayed(r, op) = WithChunkVersion(r, h, version)
  BY DEF CanReplay, Replayed
<1>2. op \in Operation
  BY DEF Operation
<1> HIDE DEF op
<1>3. HasChunk(r, h) =>
        Agree(WithChunkVersion(r, h, version), WithChunkVersion(l, h, version))
  <2> SUFFICES ASSUME HasChunk(r, h)
               PROVE  Agree(WithChunkVersion(r, h, version),
                            WithChunkVersion(l, h, version))
    OBVIOUS
  <2>1. Consistent(WithChunkVersion(r, h, version))
    BY <1>1, <1>2, ReplayedConsistent
  <2>2. r.ns = l.ns /\ r.files = l.files /\ r.next <= l.next
    BY AgreeMeans
  <2>3. \A g \in DOMAIN r.chunks :
          /\ g \in DOMAIN l.chunks
          /\ [r.chunks EXCEPT ![h].version = version][g]
               = [l.chunks EXCEPT ![h].version = version][g]
    BY AgreeMeans
  <2> DEFINE r2 == WithChunkVersion(r, h, version)
             l2 == WithChunkVersion(l, h, version)
  <2>4. /\ r2.ns = r.ns /\ l2.ns = l.ns
        /\ r2.files = r.files /\ l2.files = l.files
        /\ r2.chunks = [r.chunks EXCEPT ![h].version = version]
        /\ l2.chunks = [l.chunks EXCEPT ![h].version = version]
        /\ r2.next = r.next /\ l2.next = l.next
    BY DEF WithChunkVersion, Tables
  <2> HIDE DEF r2, l2
  <2>5. r2.ns = l2.ns /\ r2.files = l2.files /\ r2.next <= l2.next
    BY <2>2, <2>4
  <2>6. \A g \in DOMAIN r2.chunks :
          g \in DOMAIN l2.chunks /\ r2.chunks[g] = l2.chunks[g]
    BY <2>3, <2>4
  <2>7. Agree(r2, l2)
    BY <2>1, <2>5, <2>6, AgreeIfSame DEF r2
  <2> QED BY <2>7 DEF r2, l2
<1> QED BY <1>1, <1>3 DEF Recorded, op, HasChunk

\* The same for the size.
LEMMA SetChunkSizeRecorded ==
  ASSUME NEW r, NEW l, Consistent(r), Agree(r, l),
         NEW h \in Handle, NEW size \in Size, HasChunk(l, h)
  PROVE  Recorded(r, l, [type |-> "SetChunkSize", handle |-> h, size |-> size],
                  TRUE, WithChunkSize(l, h, size))
<1> DEFINE op == [type |-> "SetChunkSize", handle |-> h, size |-> size]
<1>1. /\ CanReplay(r, op) <=> HasChunk(r, h)
      /\ Replayed(r, op) = WithChunkSize(r, h, size)
  BY DEF CanReplay, Replayed
<1>2. op \in Operation
  BY DEF Operation
<1> HIDE DEF op
<1>3. HasChunk(r, h) =>
        Agree(WithChunkSize(r, h, size), WithChunkSize(l, h, size))
  <2> SUFFICES ASSUME HasChunk(r, h)
               PROVE  Agree(WithChunkSize(r, h, size),
                            WithChunkSize(l, h, size))
    OBVIOUS
  <2>1. Consistent(WithChunkSize(r, h, size))
    BY <1>1, <1>2, ReplayedConsistent
  <2>2. r.ns = l.ns /\ r.files = l.files /\ r.next <= l.next
    BY AgreeMeans
  <2>3. \A g \in DOMAIN r.chunks :
          /\ g \in DOMAIN l.chunks
          /\ [r.chunks EXCEPT ![h].size = size][g]
               = [l.chunks EXCEPT ![h].size = size][g]
    BY AgreeMeans
  <2> DEFINE r2 == WithChunkSize(r, h, size)
             l2 == WithChunkSize(l, h, size)
  <2>4. /\ r2.ns = r.ns /\ l2.ns = l.ns
        /\ r2.files = r.files /\ l2.files = l.files
        /\ r2.chunks = [r.chunks EXCEPT ![h].size = size]
        /\ l2.chunks = [l.chunks EXCEPT ![h].size = size]
        /\ r2.next = r.next /\ l2.next = l.next
    BY DEF WithChunkSize, Tables
  <2> HIDE DEF r2, l2
  <2>5. r2.ns = l2.ns /\ r2.files = l2.files /\ r2.next <= l2.next
    BY <2>2, <2>4
  <2>6. \A g \in DOMAIN r2.chunks :
          g \in DOMAIN l2.chunks /\ r2.chunks[g] = l2.chunks[g]
    BY <2>3, <2>4
  <2>7. Agree(r2, l2)
    BY <2>1, <2>5, <2>6, AgreeIfSame DEF r2
  <2> QED BY <2>7 DEF r2, l2
<1> QED BY <1>1, <1>3 DEF Recorded, op, HasChunk

\* AddChunkToFile: a chunk the file lists already is refused by the tables and
\* passed over by replay.
LEMMA AddChunkToFileRecorded ==
  ASSUME NEW r, NEW l, Consistent(r), Agree(r, l),
         NEW p \in Seq(Name), NEW h \in Handle, HasFile(l, p), HasChunk(l, h)
  PROVE  Recorded(r, l, [type |-> "AddChunkToFile", path |-> p, handle |-> h],
                  h \notin Range(ChunksOf(l, p)), WithAdded(l, p, h))
<1> DEFINE op == [type |-> "AddChunkToFile", path |-> p, handle |-> h]
<1>1. /\ CanReplay(r, op) <=> HasChunk(r, h)
      /\ Replayed(r, op) = IF h \in Range(ChunksOf(l, p)) THEN r
                           ELSE WithAdded(r, p, h)
  BY AgreeMeans DEF CanReplay, Replayed
<1>2. op \in Operation
  BY DEF Operation
<1> HIDE DEF op
<1>3. (HasChunk(r, h) /\ h \notin Range(ChunksOf(l, p))) =>
        Agree(WithAdded(r, p, h), WithAdded(l, p, h))
  <2> SUFFICES ASSUME HasChunk(r, h), h \notin Range(ChunksOf(l, p))
               PROVE  Agree(WithAdded(r, p, h), WithAdded(l, p, h))
    OBVIOUS
  <2>1. Consistent(WithAdded(r, p, h))
    BY <1>1, <1>2, ReplayedConsistent
  <2>2. r.ns = l.ns /\ r.files = l.files /\ r.next <= l.next
    BY AgreeMeans
  <2>3. \A g \in DOMAIN r.chunks :
          g \in DOMAIN l.chunks /\ r.chunks[g] = l.chunks[g]
    BY AgreeMeans
  <2> DEFINE r2 == WithAdded(r, p, h)
             l2 == WithAdded(l, p, h)
  <2>4. /\ r2.ns = l2.ns /\ r2.files = l2.files /\ r2.next <= l2.next
        /\ r2.chunks = r.chunks /\ l2.chunks = l.chunks
    BY <2>2 DEF WithAdded, WithChunkList, Tables
  <2> HIDE DEF r2, l2
  <2>5. Agree(r2, l2)
    BY <2>1, <2>3, <2>4, AgreeIfSame DEF r2
  <2> QED BY <2>5 DEF r2, l2
<1> QED BY <1>1, <1>3 DEF Recorded, op, HasChunk

\* RemoveChunkFromFile takes the chunk out of the list in both tables.
LEMMA RemoveChunkFromFileRecorded ==
  ASSUME NEW r, NEW l, Consistent(r), Agree(r, l),
         NEW p \in Seq(Name), NEW h \in Handle, HasFile(l, p)
  PROVE  Recorded(r, l, [type |-> "RemoveChunkFromFile", path |-> p,
                         handle |-> h],
                  TRUE, WithRemoved(l, p, h))
<1> DEFINE op == [type |-> "RemoveChunkFromFile", path |-> p, handle |-> h]
<1>1. CanReplay(r, op) /\ Replayed(r, op) = WithRemoved(r, p, h)
  BY AgreeMeans DEF CanReplay, Replayed
<1>2. op \in Operation
  BY DEF Operation
<1> HIDE DEF op
<1>3. Consistent(WithRemoved(r, p, h))
  BY <1>1, <1>2, ReplayedConsistent
<1>4. Agree(WithRemoved(r, p, h), WithRemoved(l, p, h))
  BY <1>3, AgreeIfSame, AgreeMeans DEF WithRemoved, WithChunkList, Tables
<1> QED BY <1>1, <1>4 DEF Recorded, op

\* A copy-on-write that goes through: the record carries the copy's entry,
\* which replay puts in the table before it redirects the file.
LEMMA CopyOnWriteRecorded ==
  ASSUME NEW r, NEW l, Consistent(r), Consistent(l), Agree(r, l),
         NEW p \in Seq(Name), NEW i \in Nat, NEW src,
         HasFile(l, p), i \in DOMAIN ChunksOf(l, p), src = ChunksOf(l, p)[i]
  PROVE  LET dst == l.next
             chunk == l.chunks[src]
         IN  Recorded(r, l, [type |-> "CopyOnWrite", path |-> p, index |-> i,
                             src |-> src, dst |-> dst, chunk |-> chunk],
                      TRUE,
                      WithReplaced(WithStandaloneChunk(l, dst, chunk),
                                   p, i, dst))
<1> DEFINE dst == l.next
           chunk == l.chunks[src]
           op == [type |-> "CopyOnWrite", path |-> p, index |-> i,
                  src |-> src, dst |-> dst, chunk |-> chunk]
           copied(st) == WithStandaloneChunk(st, dst, chunk)
           r2 == WithReplaced(copied(r), p, i, dst)
           l2 == WithReplaced(copied(l), p, i, dst)
<1>1. /\ dst \in Handle /\ r.next \in Handle
      /\ dst \notin DOMAIN l.chunks /\ dst \notin DOMAIN r.chunks
      /\ \A q \in DOMAIN l.files : dst \notin Range(l.files[q].chunks)
  BY NextIsFresh, AgreeMeans
<1>2. src \in Handle /\ src \in DOMAIN l.chunks /\ chunk \in ChunkMetadata
  BY DEF ChunksOf, HasFile, Consistent, IsState, ChunksResolvable, Range
<1>3. op \in Operation
  BY <1>1, <1>2 DEF Operation
<1>4. ChunksOf(r, p)[i] = src /\ i \in DOMAIN ChunksOf(r, p)
      /\ dst \notin Range(ChunksOf(r, p)) /\ src # dst
  BY <1>1, <1>2, AgreeMeans DEF ChunksOf, HasFile
<1>5. CanReplay(r, op)
  BY <1>4 DEF CanReplay, CanReplayCopyOnWrite
<1>6. Replayed(r, op) = r2
  BY <1>1, <1>4 DEF Replayed, ReplayedCopyOnWrite, HasChunk
<1>7. Consistent(r2)
  BY <1>3, <1>5, <1>6, ReplayedConsistent
<1>8. NextAfter(r.next, dst) <= NextAfter(l.next, dst)
  BY <1>1, AgreeMeans DEF NextAfter, Handle
<1>9. \A g \in DOMAIN Put(r.chunks, dst, chunk) :
        /\ g \in DOMAIN Put(l.chunks, dst, chunk)
        /\ Put(r.chunks, dst, chunk)[g] = Put(l.chunks, dst, chunk)[g]
  BY AgreeMeans DEF Put
<1>10. r.ns = l.ns /\ r.files = l.files
  BY AgreeMeans
<1>11. /\ r2.ns = r.ns /\ l2.ns = l.ns
       /\ r2.files = [r.files EXCEPT ![p].chunks =
                        [r.files[p].chunks EXCEPT ![i] = dst]]
       /\ l2.files = [l.files EXCEPT ![p].chunks =
                        [l.files[p].chunks EXCEPT ![i] = dst]]
       /\ r2.chunks = Put(r.chunks, dst, chunk)
       /\ l2.chunks = Put(l.chunks, dst, chunk)
       /\ r2.next = NextAfter(r.next, dst) /\ l2.next = NextAfter(l.next, dst)
  BY DEF WithReplaced, WithChunkList, WithStandaloneChunk, Tables
<1> HIDE DEF op, dst, chunk, copied, r2, l2
<1>12. r2.ns = l2.ns /\ r2.files = l2.files /\ r2.next <= l2.next
  BY <1>8, <1>10, <1>11
<1>13. Agree(r2, l2)
  BY <1>7, <1>9, <1>11, <1>12, AgreeIfSame
<1>14. Recorded(r, l, op, TRUE, l2)
  BY <1>5, <1>6, <1>13 DEF Recorded
<1> QED BY <1>14 DEF op, dst, chunk, copied, l2

\* A copy-on-write that is undone leaves the live tables as they were, except
\* that the handle of the copy is used up.
LEMMA UndoneCopyAgrees ==
  ASSUME NEW r, NEW l, Consistent(r), Consistent(l), Agree(r, l), NEW chunk
  PROVE  Agree(r, WithoutChunkEntry(WithStandaloneChunk(l, l.next, chunk),
                                    l.next))
<1> DEFINE dst == l.next
           copied == WithStandaloneChunk(l, dst, chunk)
           l2 == WithoutChunkEntry(copied, dst)
<1>1. /\ dst \in Handle /\ dst \notin DOMAIN l.chunks /\ r.next \in Handle
      /\ \A q \in DOMAIN l.files : dst \notin Range(l.files[q].chunks)
  BY NextIsFresh
<1>2. /\ copied.ns = l.ns /\ copied.files = l.files
      /\ copied.chunks = Put(l.chunks, dst, chunk)
      /\ copied.next = NextAfter(l.next, dst)
  BY DEF WithStandaloneChunk, Tables
<1> HIDE DEF copied
<1>3. /\ l2.ns = l.ns /\ l2.files = l.files /\ l2.next = NextAfter(l.next, dst)
      /\ l2.chunks = [g \in DOMAIN copied.chunks \ {dst} |-> copied.chunks[g]]
  <2>1. copied.files \in [DOMAIN copied.files -> FileMetadata]
    BY <1>2 DEF Consistent, IsState
  <2> QED BY <1>1, <1>2, <2>1, UnlistedLeaves
<1> HIDE DEF dst, l2
<1>4. \A h \in DOMAIN r.chunks :
        h \in DOMAIN l2.chunks /\ r.chunks[h] = l2.chunks[h]
  BY <1>1, <1>2, <1>3, AgreeMeans DEF Put
<1>5. r.next <= l2.next
  <2>1. l2.next = dst + 1
    BY <1>1, <1>3 DEF NextAfter, Handle, dst
  <2> QED BY <1>1, <2>1, AgreeMeans DEF Handle, dst
<1>6. r.ns = l2.ns /\ r.files = l2.files
  BY <1>3, AgreeMeans
<1>7. Agree(r, l2)
  BY <1>4, <1>5, <1>6, AgreeIfSame
<1> QED BY <1>7 DEF l2, copied, dst

\* The collection of a chunk that no file lists: replay takes it out of the
\* table, and whether the chunkservers let the live table do the same or not,
\* the two agree.
LEMMA DeleteChunkRecorded ==
  ASSUME NEW r, NEW l, Consistent(r), Consistent(l), Agree(r, l),
         NEW h \in Handle, Holders(l, h) = {}, NEW deleted \in BOOLEAN
  PROVE  Recorded(r, l, [type |-> "DeleteChunk", handle |-> h],
                  deleted, WithoutChunkEntry(l, h))
<1> DEFINE op == [type |-> "DeleteChunk", handle |-> h]
           r2 == WithoutChunkEntry(r, h)
           l2 == WithoutChunkEntry(l, h)
<1>1. CanReplay(r, op) /\ Replayed(r, op) = IF HasChunk(r, h) THEN r2 ELSE r
  BY DEF CanReplay, Replayed
<1>2. op \in Operation
  BY DEF Operation
<1>3. /\ r.ns = l.ns /\ r.files = l.files /\ r.next <= l.next
      /\ \A g \in DOMAIN r.chunks :
           g \in DOMAIN l.chunks /\ r.chunks[g] = l.chunks[g]
  BY AgreeMeans
<1>4. \A q \in DOMAIN l.files : h \notin Range(l.files[q].chunks)
  BY DEF Holders
<1>5. /\ r2.ns = r.ns /\ r2.files = r.files /\ r2.next = r.next
      /\ r2.chunks = [g \in DOMAIN r.chunks \ {h} |-> r.chunks[g]]
  BY <1>3, <1>4, UnlistedLeaves DEF Consistent, IsState
<1>6. /\ l2.ns = l.ns /\ l2.files = l.files /\ l2.next = l.next
      /\ l2.chunks = [g \in DOMAIN l.chunks \ {h} |-> l.chunks[g]]
  BY <1>4, UnlistedLeaves DEF Consistent, IsState
<1>7. Consistent(r2)
  BY WithoutChunkEntryConsistent
<1> HIDE DEF op, r2, l2
<1>8. Agree(r2, l)
  BY <1>3, <1>5, <1>7, AgreeIfSame
<1>9. Agree(r2, l2)
  <2>1. \A g \in DOMAIN r2.chunks :
          g \in DOMAIN l2.chunks /\ r2.chunks[g] = l2.chunks[g]
    BY <1>3, <1>5, <1>6
  <2> QED BY <1>3, <1>5, <1>6, <1>7, <2>1, AgreeIfSame
<1>10. ~HasChunk(r, h) => Agree(r, l2)
  BY <1>3, <1>6, AgreeIfSame DEF HasChunk
<1>11. Recorded(r, l, op, deleted, l2)
  BY <1>1, <1>8, <1>9, <1>10 DEF Recorded
<1> QED BY <1>11 DEF op, l2

-----------------------------------------------------------------------------
(* The steps of the master.                                                *)

\* A record that replay refuses belongs to a request that changed nothing.
RefusedChangeNothing ==
  (up /\ applied /\ replayable /\ ~replayable'
     /\ DOMAIN live.chunks \subseteq DOMAIN recovered.chunks) => live' = live

\* A request with its record, written in whole, in part or not at all.
LEMMA RecordKept ==
  ASSUME RecoveryFaithful, up, NEW op, NEW outcome \in LogOutcome,
         NEW accepted \in BOOLEAN, NEW new, AppendOperation(op, outcome),
         live' = IF outcome = "written" /\ accepted THEN new ELSE live,
         Agree(recovered, live) =>
           Recorded(recovered, live, op, accepted, new)
  PROVE  RecoveryFaithful' /\ RefusedChangeNothing
<1>1. (applied /\ replayable) =>
        /\ Agree(recovered, live)
        /\ Recorded(recovered, live, op, accepted, new)
  BY DEF RecoveryFaithful, Agree
<1>2. CASE outcome = "written"
  <2>1. /\ replayable' = (replayable /\ CanReplay(recovered, op))
        /\ recovered' = IF replayable' THEN Replayed(recovered, op)
                        ELSE recovered
        /\ applied' => applied
    BY <1>2 DEF AppendOperation
  <2>2. (applied' /\ replayable') => Agree(recovered, live)'
    BY <1>1, <1>2, <2>1 DEF Recorded
  <2>3. RefusedChangeNothing
    BY <1>1, <1>2, <2>1 DEF Recorded, RefusedChangeNothing
  <2> QED BY <2>2, <2>3 DEF RecoveryFaithful, Agree
<1>3. CASE outcome = "unflushed"
  <2>1. ~applied' /\ live' = live
    BY <1>3 DEF AppendOperation
  <2> QED BY <2>1 DEF RecoveryFaithful, RefusedChangeNothing
<1>4. CASE outcome \in {"torn", "refused"}
  <2>1. UNCHANGED <<recovered, replayable, live>> /\ (applied' => applied)
    BY <1>4 DEF AppendOperation
  <2>2. (applied' /\ replayable') => Agree(recovered, live)'
    BY <1>1, <2>1
  <2> QED BY <2>1, <2>2 DEF RecoveryFaithful, Agree, RefusedChangeNothing
<1> QED BY <1>2, <1>3, <1>4 DEF LogOutcome

\* A logged request.
LEMMA LoggedRequestKept ==
  ASSUME RecoveryFaithful, up, NEW op, NEW accepted \in BOOLEAN, NEW new,
         LoggedRequest(op, accepted, new),
         Agree(recovered, live) =>
           Recorded(recovered, live, op, accepted, new)
  PROVE  RecoveryFaithful' /\ RefusedChangeNothing
BY RecordKept DEF LoggedRequest

\* A step that leaves the tables and the disk alone.
LEMMA QuietStepKept ==
  ASSUME RecoveryFaithful, UNCHANGED <<live, disk>>, up' => up
  PROVE  RecoveryFaithful' /\ RefusedChangeNothing
BY DEF disk, RecoveryFaithful, SameFiles, Holders, HasChunk,
  RefusedChangeNothing

\* The namespace requests.
LEMMA NamespaceRequestKept ==
  ASSUME IInv, RecoveryFaithful, NamespaceRequest
  PROVE  RecoveryFaithful' /\ RefusedChangeNothing
<1>1. Consistent(live) /\ Consistent(recovered) /\ Path \subseteq Seq(Name)
  BY RequestAssumption DEF IInv, TablesOK, DiskOK
<1>2. ASSUME NEW p \in Path, NEW factor \in Factor, CreateFile(p, factor)
      PROVE  RecoveryFaithful' /\ RefusedChangeNothing
  <2> DEFINE op == [type |-> "CreateFile", path |-> p, factor |-> factor]
  <2>1. /\ up /\ ~Exists(live, p)
        /\ LoggedRequest(op, CanAddFile(live, p), WithFile(live, p, factor))
    BY <1>2 DEF CreateFile
  <2>2. Agree(recovered, live) =>
          Recorded(recovered, live, op, CanAddFile(live, p),
                   WithFile(live, p, factor))
    BY <1>1, <2>1, CreateFileRecorded
  <2>3. CanAddFile(live, p) \in BOOLEAN
    BY DEF CanAddFile, CanAddNode
  <2> HIDE DEF op
  <2> QED BY <2>1, <2>2, <2>3, LoggedRequestKept
<1>3. ASSUME NEW p \in Path, CreateDirectory(p)
      PROVE  RecoveryFaithful' /\ RefusedChangeNothing
  <2> DEFINE op == [type |-> "CreateDirectory", path |-> p]
  <2>1. /\ up /\ ~Exists(live, p)
        /\ LoggedRequest(op, CanAddNode(live, p), WithDirectory(live, p))
    BY <1>3 DEF CreateDirectory
  <2>2. Agree(recovered, live) =>
          Recorded(recovered, live, op, CanAddNode(live, p),
                   WithDirectory(live, p))
    BY <1>1, <2>1, CreateDirectoryRecorded
  <2>3. CanAddNode(live, p) \in BOOLEAN
    BY DEF CanAddNode
  <2> HIDE DEF op
  <2> QED BY <2>1, <2>2, <2>3, LoggedRequestKept
<1>4. ASSUME NEW p \in Path, DeleteFile(p)
      PROVE  RecoveryFaithful' /\ RefusedChangeNothing
  <2> DEFINE op == [type |-> "DeleteFile", path |-> p]
  <2>1. PICK outcome \in LogOutcome :
          /\ AppendOperation(op, outcome)
          /\ live' = IF outcome = "written" /\ HasFile(live, p)
                     THEN WithoutFile(live, p) ELSE live
    BY <1>4 DEF DeleteFile
  <2>2. up /\ IsFile(live, p)
    BY <1>4 DEF DeleteFile
  <2>3. Agree(recovered, live) =>
          Recorded(recovered, live, op, HasFile(live, p), WithoutFile(live, p))
    BY <1>1, <2>2, DeleteFileRecorded
  <2>4. HasFile(live, p) \in BOOLEAN
    BY DEF HasFile
  <2> HIDE DEF op
  <2> QED BY <2>1, <2>2, <2>3, <2>4, RecordKept
<1>5. ASSUME NEW src \in Path, NEW dst \in Path, RenameFile(src, dst)
      PROVE  RecoveryFaithful' /\ RefusedChangeNothing
  <2> DEFINE op == [type |-> "RenameFile", src |-> src, dst |-> dst]
  <2>1. /\ up
        /\ LoggedRequest(op, CanRename(live, src, dst),
                         WithRenamed(live, src, dst))
    BY <1>5 DEF RenameFile
  <2>2. Agree(recovered, live) =>
          Recorded(recovered, live, op, CanRename(live, src, dst),
                   WithRenamed(live, src, dst))
    BY <1>1, RenameFileRecorded
  <2>3. CanRename(live, src, dst) \in BOOLEAN
    BY DEF CanRename
  <2> HIDE DEF op
  <2> QED BY <2>1, <2>2, <2>3, LoggedRequestKept
<1>6. ASSUME NEW src \in Path, NEW dst \in Path, CreateSnapshot(src, dst)
      PROVE  RecoveryFaithful' /\ RefusedChangeNothing
  <2> DEFINE op == [type |-> "CreateSnapshot", src |-> src, dst |-> dst]
  <2>1. PICK outcome \in LogOutcome :
          /\ AppendOperation(op, outcome)
          /\ live' = IF outcome = "written" /\ CanSnapshot(live, src, dst)
                     THEN WithSnapshot(live, src, dst) ELSE live
    BY <1>6 DEF CreateSnapshot
  <2>2. up /\ ~Exists(live, dst)
    BY <1>6 DEF CreateSnapshot
  <2>3. Agree(recovered, live) =>
          Recorded(recovered, live, op, CanSnapshot(live, src, dst),
                   WithSnapshot(live, src, dst))
    BY <1>1, <2>2, CreateSnapshotRecorded
  <2>4. CanSnapshot(live, src, dst) \in BOOLEAN
    BY DEF CanSnapshot
  <2> HIDE DEF op
  <2> QED BY <2>1, <2>2, <2>3, <2>4, RecordKept
<1> QED BY <1>2, <1>3, <1>4, <1>5, <1>6 DEF NamespaceRequest

\* A copy-on-write, done or undone.
LEMMA CopyOnWriteKept ==
  ASSUME IInv, RecoveryFaithful, NEW p \in Seq(Name), NEW i \in Nat,
         PrepareCopyOnWrite(p, i)
  PROVE  RecoveryFaithful' /\ RefusedChangeNothing
<1> DEFINE src == ChunksOf(live, p)[i]
           dst == live.next
           chunk == live.chunks[src]
           copied == WithStandaloneChunk(live, dst, chunk)
           failed == WithoutChunkEntry(copied, dst)
           done == WithReplaced(copied, p, i, dst)
           op == [type |-> "CopyOnWrite", path |-> p, index |-> i,
                  src |-> src, dst |-> dst, chunk |-> chunk]
<1>1. /\ up /\ HasFile(live, p) /\ i \in DOMAIN ChunksOf(live, p)
      /\ \/ \E outcome \in LogOutcome :
              /\ AppendOperation(op, outcome)
              /\ live' = IF outcome = "written" THEN done ELSE failed
         \/ live' = failed /\ UNCHANGED disk
  BY DEF PrepareCopyOnWrite
<1>2. Consistent(live) /\ Consistent(recovered)
  BY DEF IInv, TablesOK, DiskOK
<1>3. Agree(recovered, live) => Recorded(recovered, live, op, TRUE, done)
  BY <1>1, <1>2, CopyOnWriteRecorded
<1>4. Agree(recovered, live) => Agree(recovered, failed)
  BY <1>2, UndoneCopyAgrees
<1> HIDE DEF op, done, failed
<1>5. CASE live' = failed /\ UNCHANGED disk
  BY <1>1, <1>4, <1>5
     DEF disk, RecoveryFaithful, Agree, SameFiles, HasChunk, Holders,
         RefusedChangeNothing
<1>6. ASSUME NEW outcome \in LogOutcome, AppendOperation(op, outcome),
             live' = IF outcome = "written" THEN done ELSE failed
      PROVE  RecoveryFaithful' /\ RefusedChangeNothing
  <2>1. CASE outcome = "written"
    BY <1>1, <1>3, <1>6, <2>1, RecordKept
  <2>2. CASE outcome = "unflushed"
    <3>1. ~applied' /\ replayable' = (replayable /\ CanReplay(recovered, op))
      BY <1>6, <2>2 DEF AppendOperation
    <3>2. (up /\ applied /\ replayable) => Agree(recovered, live)
      BY DEF RecoveryFaithful, Agree
    <3>3. RefusedChangeNothing
      BY <1>3, <3>1, <3>2 DEF Recorded, RefusedChangeNothing
    <3> QED BY <3>1, <3>3 DEF RecoveryFaithful
  <2>3. CASE outcome \in {"torn", "refused"}
    <3>1. /\ UNCHANGED <<recovered, replayable>> /\ (applied' => applied)
          /\ live' = failed
      BY <1>6, <2>3 DEF AppendOperation
    <3>2. (applied' /\ replayable') => Agree(recovered, live)'
      BY <1>1, <1>4, <3>1 DEF RecoveryFaithful, Agree
    <3> QED BY <3>1, <3>2 DEF RecoveryFaithful, Agree, RefusedChangeNothing
  <2> QED BY <2>1, <2>2, <2>3 DEF LogOutcome
<1> QED BY <1>1, <1>5, <1>6

\* The chunk requests.
LEMMA ChunkRequestKept ==
  ASSUME IInv, RecoveryFaithful, ChunkRequest
  PROVE  RecoveryFaithful' /\ RefusedChangeNothing
<1>1. Consistent(live) /\ Consistent(recovered) /\ Path \subseteq Seq(Name)
      /\ \A h \in Known : h \in Handle
  BY RequestAssumption DEF IInv, TablesOK, DiskOK, Known, Handle
<1>2. ASSUME NEW p \in Path, NEW size \in Size, UpdateFileSize(p, size)
      PROVE  RecoveryFaithful' /\ RefusedChangeNothing
  <2> DEFINE op == [type |-> "UpdateFileSize", path |-> p, size |-> size]
  <2>1. /\ up /\ HasFile(live, p)
        /\ LoggedRequest(op, TRUE, WithSize(live, p, size))
    BY <1>2 DEF UpdateFileSize
  <2>2. Agree(recovered, live) =>
          Recorded(recovered, live, op, TRUE, WithSize(live, p, size))
    BY <1>1, <2>1, UpdateFileSizeRecorded
  <2> HIDE DEF op
  <2> QED BY <2>1, <2>2, LoggedRequestKept
<1>3. ASSUME NEW p \in Path, AllocateChunk(p)
      PROVE  RecoveryFaithful' /\ RefusedChangeNothing
  <2> DEFINE op == [type |-> "AllocateChunk", path |-> p, handle |-> live.next]
  <2>1. /\ up /\ HasFile(live, p)
        /\ LoggedRequest(op, TRUE, WithAllocated(live, p, live.next))
    BY <1>3 DEF AllocateChunk
  <2>2. Agree(recovered, live) =>
          Recorded(recovered, live, op, TRUE,
                   WithAllocated(live, p, live.next))
    BY <1>1, <2>1, AllocateChunkRecorded
  <2> HIDE DEF op
  <2> QED BY <2>1, <2>2, LoggedRequestKept
<1>4. ASSUME NEW h \in Known, NEW v \in Version, SetChunkVersion(h, v)
      PROVE  RecoveryFaithful' /\ RefusedChangeNothing
  <2> DEFINE op == [type |-> "SetChunkVersion", handle |-> h, version |-> v]
  <2>1. /\ up /\ HasChunk(live, h)
        /\ LoggedRequest(op, TRUE, WithChunkVersion(live, h, v))
    BY <1>4 DEF SetChunkVersion
  <2>2. Agree(recovered, live) =>
          Recorded(recovered, live, op, TRUE, WithChunkVersion(live, h, v))
    BY <1>1, <2>1, SetChunkVersionRecorded
  <2> HIDE DEF op
  <2> QED BY <2>1, <2>2, LoggedRequestKept
<1>5. ASSUME NEW h \in Known, NEW size \in Size, SetChunkSize(h, size)
      PROVE  RecoveryFaithful' /\ RefusedChangeNothing
  <2> DEFINE op == [type |-> "SetChunkSize", handle |-> h, size |-> size]
  <2>1. /\ up /\ HasChunk(live, h)
        /\ LoggedRequest(op, TRUE, WithChunkSize(live, h, size))
    BY <1>5 DEF SetChunkSize
  <2>2. Agree(recovered, live) =>
          Recorded(recovered, live, op, TRUE, WithChunkSize(live, h, size))
    BY <1>1, <2>1, SetChunkSizeRecorded
  <2> HIDE DEF op
  <2> QED BY <2>1, <2>2, LoggedRequestKept
<1>6. ASSUME NEW p \in Path, NEW h \in Known, AddChunkToFile(p, h)
      PROVE  RecoveryFaithful' /\ RefusedChangeNothing
  <2> DEFINE op == [type |-> "AddChunkToFile", path |-> p, handle |-> h]
             accepted == h \notin Range(ChunksOf(live, p))
  <2>1. /\ up /\ HasFile(live, p) /\ HasChunk(live, h)
        /\ LoggedRequest(op, accepted, WithAdded(live, p, h))
    BY <1>6 DEF AddChunkToFile
  <2>2. Agree(recovered, live) =>
          Recorded(recovered, live, op, accepted, WithAdded(live, p, h))
    BY <1>1, <2>1, AddChunkToFileRecorded
  <2>3. accepted \in BOOLEAN
    OBVIOUS
  <2> HIDE DEF op, accepted
  <2> QED BY <2>1, <2>2, <2>3, LoggedRequestKept
<1>7. ASSUME NEW p \in Path, NEW h \in Known, RemoveChunkFromFile(p, h)
      PROVE  RecoveryFaithful' /\ RefusedChangeNothing
  <2> DEFINE op == [type |-> "RemoveChunkFromFile", path |-> p, handle |-> h]
  <2>1. /\ up /\ HasFile(live, p)
        /\ LoggedRequest(op, TRUE, WithRemoved(live, p, h))
    BY <1>7 DEF RemoveChunkFromFile
  <2>2. Agree(recovered, live) =>
          Recorded(recovered, live, op, TRUE, WithRemoved(live, p, h))
    BY <1>1, <2>1, RemoveChunkFromFileRecorded
  <2> HIDE DEF op
  <2> QED BY <2>1, <2>2, LoggedRequestKept
<1>8. ASSUME NEW p \in Path, NEW i \in 1..MaxChunks, PrepareCopyOnWrite(p, i)
      PROVE  RecoveryFaithful' /\ RefusedChangeNothing
  <2>1. i \in DOMAIN ChunksOf(live, p) /\ HasFile(live, p)
    BY <1>8 DEF PrepareCopyOnWrite
  <2>2. ChunksOf(live, p) \in Seq(Handle)
    BY <1>1, <2>1 DEF ChunksOf, HasFile, Consistent, IsState, FileMetadata
  <2>3. i \in Nat
    BY <2>1, <2>2, LenProperties
  <2> QED BY <1>1, <1>8, <2>3, CopyOnWriteKept
<1> QED BY <1>2, <1>3, <1>4, <1>5, <1>6, <1>7, <1>8 DEF ChunkRequest

\* The collection of a chunk.
LEMMA CollectChunkKept ==
  ASSUME IInv, RecoveryFaithful, NEW h, CollectChunk(h)
  PROVE  RecoveryFaithful' /\ RefusedChangeNothing
<1>1. CASE References(h) # {} \/ ~HasChunk(live, h)
  <2>1. UNCHANGED <<live, disk>> /\ (up' => up)
    BY <1>1 DEF CollectChunk
  <2> QED BY <2>1, QuietStepKept
<1>2. CASE ~(References(h) # {} \/ ~HasChunk(live, h))
  <2> DEFINE op == [type |-> "DeleteChunk", handle |-> h]
             without == WithoutChunkEntry(live, h)
  <2>1. PICK outcome \in LogOutcome, deleted \in BOOLEAN :
          /\ AppendOperation(op, outcome)
          /\ live' = IF outcome = "written" /\ deleted THEN without ELSE live
    BY <1>2 DEF CollectChunk
  <2>2. up /\ Holders(live, h) = {} /\ h \in Handle
    BY <1>2 DEF CollectChunk, References, HasChunk, IInv, TablesOK, Consistent,
      IsState
  <2>3. Consistent(live) /\ Consistent(recovered)
    BY DEF IInv, TablesOK, DiskOK
  <2>4. Agree(recovered, live) =>
          Recorded(recovered, live, op, deleted, without)
    BY <2>2, <2>3, DeleteChunkRecorded
  <2> HIDE DEF op, without
  <2> QED BY <2>1, <2>2, <2>4, RecordKept
<1> QED BY <1>1, <1>2

\* Checkpoints, crashes and restarts: a checkpoint and a start make the two
\* tables one, except for the next handle, which is then not larger.
LEMMA MaintenanceKept ==
  ASSUME IInv, RecoveryFaithful, Maintenance
  PROVE  RecoveryFaithful' /\ RefusedChangeNothing
<1>1. CASE IdentifyOrphans
  BY <1>1, QuietStepKept DEF IdentifyOrphans
<1>2. CASE \E h \in Known : CollectChunk(h)
  BY <1>2, CollectChunkKept
<1>3. CASE CreateCheckpoint
  <2>1. /\ recovered' = Restored(live) /\ live' = live
    BY <1>3 DEF CreateCheckpoint
  <2>2. Consistent(live)
    BY DEF IInv, TablesOK
  <2>3. Consistent(Restored(live))
    BY <2>2, RestoredConsistent
  <2>4. NextFor(DOMAIN live.chunks) <= live.next
    BY <2>2, NextForLeast DEF Consistent, IsState, HandlesBelowNext
  <2>5. Agree(Restored(live), live)
    BY <2>3, <2>4, AgreeIfSame DEF Restored, Tables
  <2> QED BY <2>1, <2>5 DEF RecoveryFaithful, Agree, SameFiles, HasChunk,
            Holders, RefusedChangeNothing
<1>4. CASE Crash
  BY <1>4 DEF Crash, disk, RecoveryFaithful, RefusedChangeNothing
<1>5. CASE Initialize
  <2>1. CASE torn \/ ~replayable
    BY <1>5, <2>1 DEF Initialize, RecoveryFaithful, RefusedChangeNothing
  <2>2. CASE ~(torn \/ ~replayable)
    <3>1. live' = recovered /\ recovered' = recovered /\ ~up
      BY <1>5, <2>2 DEF Initialize
    <3>2. Consistent(recovered) /\ recovered.next <= recovered.next
      BY DEF IInv, DiskOK, Consistent, IsState, Handle
    <3>3. Agree(recovered, recovered)
      BY <3>2, AgreeIfSame
    <3> QED BY <3>1, <3>3 DEF RecoveryFaithful, Agree, SameFiles, HasChunk,
              Holders, RefusedChangeNothing
  <2> QED BY <2>1, <2>2
<1> QED BY <1>1, <1>2, <1>3, <1>4, <1>5 DEF Maintenance

\* Replica lists and leases are not in the log.
LEMMA ServingStepKept ==
  ASSUME RecoveryFaithful, ServingStep
  PROVE  RecoveryFaithful' /\ RefusedChangeNothing
<1>1. UNCHANGED <<live, disk>> /\ (up' => up)
  BY DEF ServingStep, RegisterReplica, PlaceChunkReplicas, RemoveReplica,
    SetPrimary, ProcessHeartbeat, AcquireLease, ReleaseLease, LeaseExpires,
    RemoveExpiredLeases
<1> QED BY <1>1, QuietStepKept

\* Every step.
LEMMA StepKept ==
  ASSUME IInv, RecoveryFaithful, [Next]_vars
  PROVE  RecoveryFaithful' /\ RefusedChangeNothing
<1>1. CASE UNCHANGED vars
  BY <1>1, QuietStepKept DEF vars, disk
<1> QED BY <1>1, NamespaceRequestKept, ChunkRequestKept, MaintenanceKept,
           ServingStepKept DEF Next

-----------------------------------------------------------------------------
(* The theorems.                                                           *)

\* The initial tables agree.
LEMMA InitFaithful == Init => RecoveryFaithful
<1> SUFFICES ASSUME Init PROVE RecoveryFaithful
  OBVIOUS
<1>1. Consistent(EmptyState) /\ EmptyState.next <= EmptyState.next
  BY EmptyConsistent DEF EmptyState, Tables
<1>2. Agree(EmptyState, EmptyState)
  BY <1>1, AgreeIfSame
<1> QED BY <1>2 DEF Init, RecoveryFaithful, Agree

\* Recovery is faithful at every moment: unless an append reported a failure
\* for a record that reached the disk, Initialize would bring back the names,
\* the files and their chunks as they are, could forget only chunks that no
\* file lists, and would not skip a handle.
THEOREM RecoveryIsFaithful == Spec => []RecoveryFaithful
<1>1. IInv /\ RecoveryFaithful /\ [Next]_vars => RecoveryFaithful'
  BY StepKept
<1> QED BY <1>1, InitFaithful, InvariantHolds, PTL DEF Spec

\* What the handlers check before they log is enough for ReplayOperation: the
\* log of a running master becomes unreplayable only by the record of a
\* request that changed nothing, or by one on a chunk whose collection was
\* logged and then given up.
THEOREM AcceptedRequestsAreReplayed == Spec => AcceptedRequestsReplay
<1> DEFINE Refused ==
             (up /\ applied /\ replayable /\ ~replayable'
                /\ DOMAIN live.chunks \subseteq DOMAIN recovered.chunks)
               => live' = live
<1>1. IInv /\ RecoveryFaithful /\ [Next]_vars => [Refused]_vars
  BY StepKept DEF RefusedChangeNothing
<1> QED BY <1>1, RecoveryIsFaithful, InvariantHolds, PTL
        DEF Spec, AcceptedRequestsReplay

=============================================================================
