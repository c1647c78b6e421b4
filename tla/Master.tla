------------------------------- MODULE Master -------------------------------
(***************************************************************************)
(* The master (master/master.cpp): the requests that change the namespace  *)
(* and the file and chunk tables, the operation log they are written to,   *)
(* checkpoints, crashes and restarts, garbage collection, and the replica  *)
(* lists and leases that live only in memory.                              *)
(*                                                                         *)
(* Requests are handled one at a time (MasterServiceImpl holds one mutex   *)
(* for the whole of a call), so a handler is one action.  A crash in the   *)
(* middle of a handler is covered by an append that fails followed by      *)
(* Crash: the record is then on disk, torn, or absent, and memory is gone. *)
(*                                                                         *)
(* The log is kept as what reading it back yields.  Replay is a left fold  *)
(* of Replayed over the records after the newest checkpoint, so a record   *)
(* appended to the log moves `recovered', the tables Initialize would      *)
(* build, by one step; `replayable' says whether every record so far was   *)
(* one ReplayOperation accepts.                                            *)
(***************************************************************************)
EXTENDS Metadata, Replicas

CONSTANTS
  Path,       \* the paths requests name
  Server,     \* chunkservers
  MaxHandle,  \* bound on next_chunk_handle_
  MaxChunks,  \* bound on the length of a file's chunk list
  MaxDepth,   \* bound on the depth of the tree, for snapshots of directories
  MaxFaults,  \* bound on the appends that fail
  Served,     \* bound: the chunks requests register, place, promote and lease
  Placement   \* PlacementPolicy::replication_factor_, fixed at construction

ASSUME RequestAssumption ==
  /\ Path \subseteq Seq(Name)
  /\ MaxHandle \in Nat
  /\ Served \subseteq Handle
  /\ Placement \in Nat \ {0}

VARIABLES
  up,          \* the master process runs and is initialized
  live,        \* its namespace and tables
  orphans,     \* OrphanChunkManager::orphan_chunks_
  recovered,   \* the tables the newest checkpoint and the log after it yield
  replayable,  \* no record after the newest checkpoint is refused by replay
  torn,        \* the log ends in, or contains, a record that cannot be read
  applied,     \* every readable record was applied to the live tables
  faults,      \* number of failed appends so far
  replicas,    \* ReplicaManager::replicas_, a replica list per chunk
  leases       \* LeaseManager::leases_, a lease per chunk

disk == <<recovered, replayable, torn, applied, faults>>
serving == <<replicas, leases>>
vars == <<up, live, orphans, recovered, replayable, torn, applied, faults,
          replicas, leases>>

Lease == [holder : Server, expired : BOOLEAN]
NoEntries == [h \in {} |-> 0]

TypeOK ==
  /\ up \in BOOLEAN
  /\ IsState(live)
  /\ orphans \subseteq Handle
  /\ IsState(recovered)
  /\ replayable \in BOOLEAN
  /\ torn \in BOOLEAN
  /\ applied \in BOOLEAN
  /\ faults \in Nat
  /\ DOMAIN replicas \subseteq Handle
  /\ replicas \in [DOMAIN replicas ->
                     Seq([server : Server, primary : BOOLEAN])]
  /\ DOMAIN leases \subseteq Handle
  /\ leases \in [DOMAIN leases -> Lease]

Init ==
  /\ up = TRUE
  /\ live = EmptyState
  /\ orphans = {}
  /\ recovered = EmptyState
  /\ replayable = TRUE
  /\ torn = FALSE
  /\ applied = TRUE
  /\ faults = 0
  /\ replicas = NoEntries
  /\ leases = NoEntries

\* Variant with a fault: the mark of an orphan is trusted.
MarkedReferences(h) ==
  IF HasChunk(live, h) /\ h \notin orphans THEN Holders(live, h) ELSE {}

References(h) == IF HasChunk(live, h) THEN Holders(live, h) ELSE {}
ReplicasOf(h) == IF h \in DOMAIN replicas THEN replicas[h] ELSE <<>>

-----------------------------------------------------------------------------
(* AppendOperation: append, then flush.  It fails when the record cannot   *)
(* be written ("refused"), when only a part of it reaches the file         *)
(* ("torn"), and when the record is complete but Flush cannot open the     *)
(* file ("unflushed"); the handler sees the same FALSE in the three cases. *)

LogOutcome == {"written", "unflushed", "torn", "refused"}

AppendOperation(op, outcome) ==
  /\ outcome # "written" => faults < MaxFaults
  /\ faults' = IF outcome = "written" THEN faults ELSE faults + 1
  /\ torn' = (torn \/ outcome = "torn")
  /\ applied' = (applied /\ outcome # "unflushed")
  /\ IF outcome \in {"written", "unflushed"}
     THEN /\ replayable' = (replayable /\ CanReplay(recovered, op))
          /\ recovered' = IF replayable' THEN Replayed(recovered, op)
                          ELSE recovered
     ELSE UNCHANGED <<recovered, replayable>>

\* A request that is logged as op and then changes the tables to new if the
\* tables accept it; the log is written before that is known.
LoggedRequest(op, accepted, new) ==
  \E outcome \in LogOutcome :
    /\ AppendOperation(op, outcome)
    /\ live' = IF outcome = "written" /\ accepted THEN new ELSE live

-----------------------------------------------------------------------------
(* Namespace requests.                                                     *)

\* The factor is the one asked for, or the default cut to the number of
\* chunkservers alive; a factor above that number is refused at once.
CreateFile(p, factor) ==
  /\ up
  /\ ~Exists(live, p)
  /\ LoggedRequest([type |-> "CreateFile", path |-> p, factor |-> factor],
                   CanAddFile(live, p), WithFile(live, p, factor))
  /\ UNCHANGED <<up, orphans, serving>>

\* Variant with a fault: the directory is created without a record.
CreateDirectoryUnlogged(p) ==
  /\ up
  /\ CanAddNode(live, p)
  /\ live' = WithDirectory(live, p)
  /\ UNCHANGED <<up, orphans, disk, serving>>

CreateDirectory(p) ==
  /\ up
  /\ ~Exists(live, p)
  /\ LoggedRequest([type |-> "CreateDirectory", path |-> p],
                   CanAddNode(live, p), WithDirectory(live, p))
  /\ UNCHANGED <<up, orphans, serving>>

\* Variant with a fault: the replica lists and leases are left alone.
DeleteFileOnly(p) ==
  /\ up
  /\ IsFile(live, p)
  /\ LoggedRequest([type |-> "DeleteFile", path |-> p],
                   HasFile(live, p), WithoutFile(live, p))
  /\ UNCHANGED <<up, orphans, serving>>

\* The chunks only this file holds are marked as orphans before the log is
\* written, and stay marked when that fails.
DeleteFile(p) ==
  /\ up
  /\ IsFile(live, p)
  /\ \E outcome \in LogOutcome :
       LET last == {h \in Range(ChunksOf(live, p)) : References(h) = {p}}
           done == outcome = "written" /\ HasFile(live, p)
       IN  /\ AppendOperation([type |-> "DeleteFile", path |-> p], outcome)
           /\ orphans' = orphans \cup last
           /\ live' = IF done THEN WithoutFile(live, p) ELSE live
           /\ replicas' = IF done THEN Drop(replicas, last) ELSE replicas
           /\ leases' = IF done THEN Drop(leases, last) ELSE leases
  /\ UNCHANGED up

\* Variant with a fault: the fields of the record are swapped.
RenameFileSwapped(src, dst) ==
  /\ up
  /\ IsFile(live, src)
  /\ ~Exists(live, dst)
  /\ LoggedRequest([type |-> "RenameFile", src |-> dst, dst |-> src],
                   CanRename(live, src, dst), WithRenamed(live, src, dst))
  /\ UNCHANGED <<up, orphans, serving>>

RenameFile(src, dst) ==
  /\ up
  /\ IsFile(live, src)
  /\ ~Exists(live, dst)
  /\ LoggedRequest([type |-> "RenameFile", src |-> src, dst |-> dst],
                   CanRename(live, src, dst), WithRenamed(live, src, dst))
  /\ UNCHANGED <<up, orphans, serving>>

\* Variant with a fault: the leases stay.
CreateSnapshotLeased(src, dst) ==
  /\ up
  /\ src # dst /\ dst # Root
  /\ Exists(live, src) /\ ~Exists(live, dst)
  /\ \A q \in Copied(live, src) :
       Len(DestinationFor(q, src, dst)) <= MaxDepth
  /\ LoggedRequest([type |-> "CreateSnapshot", src |-> src, dst |-> dst],
                   CanSnapshot(live, src, dst), WithSnapshot(live, src, dst))
  /\ UNCHANGED <<up, orphans, serving>>

\* Releases the leases on the chunks of every file it copies.
CreateSnapshot(src, dst) ==
  /\ up
  /\ src # dst /\ dst # Root
  /\ Exists(live, src) /\ ~Exists(live, dst)
  /\ \A q \in Copied(live, src) :
       Len(DestinationFor(q, src, dst)) <= MaxDepth
  /\ \E outcome \in LogOutcome :
       LET done == outcome = "written" /\ CanSnapshot(live, src, dst)
           shared == UNION {Range(ChunksOf(live, q)) : q \in Copied(live, src)}
       IN  /\ AppendOperation([type |-> "CreateSnapshot",
                               src |-> src, dst |-> dst], outcome)
           /\ live' = IF done THEN WithSnapshot(live, src, dst) ELSE live
           /\ leases' = IF done THEN Drop(leases, shared) ELSE leases
  /\ UNCHANGED <<up, orphans, replicas>>

-----------------------------------------------------------------------------
(* Chunk requests.                                                         *)

UpdateFileSize(p, size) ==
  /\ up
  /\ HasFile(live, p)
  /\ LoggedRequest([type |-> "UpdateFileSize", path |-> p, size |-> size],
                   TRUE, WithSize(live, p, size))
  /\ UNCHANGED <<up, orphans, serving>>

AllocateChunk(p) ==
  /\ up
  /\ HasFile(live, p)
  /\ live.next < MaxHandle /\ Len(ChunksOf(live, p)) < MaxChunks
  /\ LoggedRequest([type |-> "AllocateChunk", path |-> p,
                    handle |-> live.next],
                   TRUE, WithAllocated(live, p, live.next))
  /\ UNCHANGED <<up, orphans, serving>>

SetChunkVersion(h, version) ==
  /\ up
  /\ HasChunk(live, h)
  /\ LoggedRequest([type |-> "SetChunkVersion", handle |-> h,
                    version |-> version],
                   TRUE, WithChunkVersion(live, h, version))
  /\ UNCHANGED <<up, orphans, serving>>

SetChunkSize(h, size) ==
  /\ up
  /\ HasChunk(live, h)
  /\ LoggedRequest([type |-> "SetChunkSize", handle |-> h, size |-> size],
                   TRUE, WithChunkSize(live, h, size))
  /\ UNCHANGED <<up, orphans, serving>>

AddChunkToFile(p, h) ==
  /\ up
  /\ HasFile(live, p) /\ HasChunk(live, h)
  /\ Len(ChunksOf(live, p)) < MaxChunks
  /\ LoggedRequest([type |-> "AddChunkToFile", path |-> p, handle |-> h],
                   h \notin Range(ChunksOf(live, p)), WithAdded(live, p, h))
  /\ UNCHANGED <<up, orphans, serving>>

\* Marks the chunk as an orphan when its last reference has gone.
RemoveChunkFromFile(p, h) ==
  /\ up
  /\ HasFile(live, p) /\ HasChunk(live, h)
  /\ LoggedRequest([type |-> "RemoveChunkFromFile", path |-> p,
                    handle |-> h],
                   TRUE, WithRemoved(live, p, h))
  /\ orphans' = IF Holders(live, h) = {p} /\ Holders(live', h) = {}
                THEN orphans \cup {h} ELSE orphans
  /\ UNCHANGED <<up, serving>>

\* PrepareCopyOnWrite on a chunk several files hold.  The copy is entered in
\* the tables, its replicas are registered, the lease on the source is
\* released, the chunkservers clone the data, the file is redirected, and
\* only then is the log written; each failure undoes what came before it,
\* except that the handle stays used and the lease stays released.
PrepareCopyOnWrite(p, i) ==
  /\ up
  /\ HasFile(live, p) /\ i \in DOMAIN ChunksOf(live, p)
  /\ live.next < MaxHandle
  /\ LET src == ChunksOf(live, p)[i]
         dst == live.next
         chunk == live.chunks[src]
         servers == [j \in DOMAIN ReplicasOf(src) |-> ReplicasOf(src)[j].server]
         copied == WithStandaloneChunk(live, dst, chunk)
         failed == WithoutChunkEntry(copied, dst)
         registrable == Range(servers) \cap Servers(ReplicasOf(dst)) = {}
         op == [type |-> "CopyOnWrite", path |-> p, index |-> i,
                src |-> src, dst |-> dst, chunk |-> chunk]
     IN  /\ Cardinality(References(src)) > 1
         /\ leases' = IF registrable THEN Drop(leases, {src}) ELSE leases
         /\ \E cloned \in BOOLEAN :
              IF registrable /\ cloned /\ CanReplace(copied, p, i, dst)
              THEN \E outcome \in LogOutcome :
                     /\ AppendOperation(op, outcome)
                     /\ live' = IF outcome = "written"
                                THEN WithReplaced(copied, p, i, dst)
                                ELSE failed
                     /\ replicas' =
                          IF outcome # "written" THEN Drop(replicas, {dst})
                          ELSE IF servers = <<>> THEN replicas
                          ELSE Put(replicas, dst,
                                   RegisteredAll(ReplicasOf(dst), servers))
              ELSE /\ live' = failed
                   /\ replicas' = Drop(replicas, {dst})
                   /\ UNCHANGED disk
  /\ UNCHANGED <<up, orphans>>

-----------------------------------------------------------------------------
(* Garbage collection.  Collect scans the tables and then collects what it *)
(* found, one chunk at a time; it does not hold the mutex of the requests, *)
(* so requests come between the scan and the collection of a chunk.        *)

IdentifyOrphans ==
  /\ up
  /\ orphans' = (orphans \ DOMAIN live.chunks)
                  \cup {h \in DOMAIN live.chunks : Holders(live, h) = {}}
  /\ UNCHANGED <<up, live, disk, serving>>

\* The DeleteChunk record is written before the chunkservers are asked to
\* delete their copies; when one of them fails the chunk stays in the table.
CollectChunk(h) ==
  /\ up
  /\ IF References(h) # {} \/ ~HasChunk(live, h)
     THEN /\ orphans' = orphans \ {h}
          /\ UNCHANGED <<live, disk, serving>>
     ELSE \E outcome \in LogOutcome, deleted \in BOOLEAN :
            /\ AppendOperation([type |-> "DeleteChunk", handle |-> h], outcome)
            /\ IF outcome = "written" /\ deleted
               THEN /\ live' = WithoutChunkEntry(live, h)
                    /\ orphans' = orphans \ {h}
                    /\ replicas' = Drop(replicas, {h})
                    /\ leases' = Drop(leases, {h})
               ELSE UNCHANGED <<live, orphans, serving>>
  /\ UNCHANGED up

-----------------------------------------------------------------------------
(* Checkpoint, crash and restart.                                          *)

\* The checkpoint carries the sequence number of the last record, applied or
\* not, so replay starts after it.
CreateCheckpoint ==
  /\ up
  /\ recovered' = Restored(live)
  /\ replayable' = CanRestore(live)
  /\ applied' = TRUE
  /\ UNCHANGED <<up, live, orphans, torn, faults, serving>>

Crash ==
  /\ up
  /\ up' = FALSE
  /\ live' = EmptyState
  /\ orphans' = {}
  /\ replicas' = NoEntries
  /\ leases' = NoEntries
  /\ UNCHANGED disk

\* A new process: Initialize reads the log and the newest checkpoint.  It
\* returns false, and the server exits, when the log cannot be read or a
\* record cannot be replayed.
Initialize ==
  /\ ~up
  /\ IF torn \/ ~replayable
     THEN UNCHANGED <<up, live, applied>>
     ELSE /\ up' = TRUE
          /\ live' = recovered
          /\ applied' = TRUE
  /\ UNCHANGED <<orphans, recovered, replayable, torn, faults, serving>>

-----------------------------------------------------------------------------
(* Replica lists and leases.                                               *)

RegisterReplica(h, s, primary) ==
  /\ up
  /\ replicas' = Put(replicas, h, Registered(ReplicasOf(h), s, primary))
  /\ UNCHANGED <<up, live, orphans, disk, leases>>

\* SelectReplicas orders distinct live servers by load and takes as many as
\* its own factor says, whatever the factor of the file is, or none.
Placements == {p \in [1..Placement -> Server] : IsInjective(p)}

PlaceChunkReplicas(h, servers) ==
  /\ up
  /\ replicas' = Put(replicas, h, RegisteredAll(ReplicasOf(h), servers))
  /\ UNCHANGED <<up, live, orphans, disk, leases>>

\* The lease is released when its holder is no longer the primary.
RemoveReplica(h, s) ==
  /\ up
  /\ s \in Servers(ReplicasOf(h))
  /\ LET rest == Unregistered(replicas[h], s)
     IN  /\ replicas' = IF rest = <<>> THEN Drop(replicas, {h})
                        ELSE Put(replicas, h, rest)
         /\ leases' = IF h \in DOMAIN leases
                         /\ leases[h].holder \notin Primaries(rest)
                      THEN Drop(leases, {h}) ELSE leases
  /\ UNCHANGED <<up, live, orphans, disk>>

\* Everyone is demoted even when s holds no replica; the lease of another
\* server is released only when it does.
SetPrimary(h, s) ==
  /\ up
  /\ h \in DOMAIN replicas
  /\ replicas' = Put(replicas, h, WithPrimary(replicas[h], s))
  /\ leases' = IF /\ s \in Servers(replicas[h])
                  /\ h \in DOMAIN leases /\ leases[h].holder # s
               THEN Drop(leases, {h}) ELSE leases
  /\ UNCHANGED <<up, live, orphans, disk>>

\* Reported chunks the master does not list for s are registered, whether
\* the table knows them or not.
ProcessHeartbeat(s, reported) ==
  /\ up
  /\ replicas' = [h \in DOMAIN replicas \cup reported |->
                    IF h \in reported
                    THEN Registered(ReplicasOf(h), s, FALSE)
                    ELSE replicas[h]]
  /\ UNCHANGED <<up, live, orphans, disk, leases>>

\* Variant with a fault: the lease in force is not looked at.
AcquireLeaseAnyway(h, s) ==
  /\ up
  /\ s \in Primaries(ReplicasOf(h))
  /\ leases' = Put(leases, h, [holder |-> s, expired |-> FALSE])
  /\ UNCHANGED <<up, live, orphans, disk, replicas>>

AcquireLease(h, s) ==
  /\ up
  /\ s \in Primaries(ReplicasOf(h))
  /\ h \in DOMAIN leases => leases[h].expired
  /\ leases' = Put(leases, h, [holder |-> s, expired |-> FALSE])
  /\ UNCHANGED <<up, live, orphans, disk, replicas>>

ReleaseLease(h) ==
  /\ up
  /\ h \in DOMAIN leases
  /\ leases' = Drop(leases, {h})
  /\ UNCHANGED <<up, live, orphans, disk, replicas>>

\* Time passes; ExtendLease puts the expiration off and is the choice of
\* not taking this step.
LeaseExpires(h) ==
  /\ up
  /\ h \in DOMAIN leases /\ ~leases[h].expired
  /\ leases' = [leases EXCEPT ![h].expired = TRUE]
  /\ UNCHANGED <<up, live, orphans, disk, replicas>>

RemoveExpiredLeases ==
  /\ up
  /\ leases' = Drop(leases, {h \in DOMAIN leases : leases[h].expired})
  /\ UNCHANGED <<up, live, orphans, disk, replicas>>

-----------------------------------------------------------------------------

\* The handles requests name: those given out so far, at any time.
Known == 1..(MaxHandle - 1)

NamespaceRequest ==
  \/ \E p \in Path, factor \in Factor : CreateFile(p, factor)
  \/ \E p \in Path : CreateDirectory(p)
  \/ \E p \in Path : DeleteFile(p)
  \/ \E src, dst \in Path : RenameFile(src, dst)
  \/ \E src, dst \in Path : CreateSnapshot(src, dst)

ChunkRequest ==
  \/ \E p \in Path, size \in Size : UpdateFileSize(p, size)
  \/ \E p \in Path : AllocateChunk(p)
  \/ \E h \in Known, version \in Version : SetChunkVersion(h, version)
  \/ \E h \in Known, size \in Size : SetChunkSize(h, size)
  \/ \E p \in Path, h \in Known : AddChunkToFile(p, h)
  \/ \E p \in Path, h \in Known : RemoveChunkFromFile(p, h)
  \/ \E p \in Path, i \in 1..MaxChunks : PrepareCopyOnWrite(p, i)

Maintenance ==
  \/ IdentifyOrphans
  \/ \E h \in Known : CollectChunk(h)
  \/ CreateCheckpoint
  \/ Crash
  \/ Initialize

ServingStep ==
  \/ \E h \in Served, s \in Server, primary \in BOOLEAN :
       RegisterReplica(h, s, primary)
  \/ \E h \in Served, servers \in Placements :
       PlaceChunkReplicas(h, servers)
  \/ \E h \in Known, s \in Server : RemoveReplica(h, s)
  \/ \E h \in Served, s \in Server : SetPrimary(h, s)
  \/ \E s \in Server, reported \in SUBSET Known :
       ProcessHeartbeat(s, reported)
  \/ \E h \in Served, s \in Server : AcquireLease(h, s)
  \/ \E h \in Known : ReleaseLease(h)
  \/ \E h \in Known : LeaseExpires(h)
  \/ RemoveExpiredLeases

Next == NamespaceRequest \/ ChunkRequest \/ Maintenance \/ ServingStep

Spec == Init /\ [][Next]_vars

-----------------------------------------------------------------------------
(* Properties.                                                             *)

\* The tables of the running master are consistent, whatever requests it
\* refused half-way, logged and did not apply, undid, or recovered from.
LiveConsistent == Consistent(live)

\* So are the tables a restart would build, as long as replay succeeds.
RecoveredConsistent == Consistent(recovered)

\* The names and chunk lists of two states are the same, and what the first
\* knows of chunks the second knows too; chunks only the second knows are
\* referenced by no file.
SameFiles(st1, st2) ==
  /\ st1.ns = st2.ns
  /\ st1.files = st2.files
  /\ \A h \in DOMAIN st1.chunks :
       HasChunk(st2, h) /\ st1.chunks[h] = st2.chunks[h]
  /\ \A h \in DOMAIN st2.chunks \ DOMAIN st1.chunks : Holders(st2, h) = {}

\* Recovery is faithful: unless an append reported a failure for a record
\* that reached the disk, a restart brings back the namespace, the files and
\* their chunks; it may forget only a chunk nobody refers to, and it gives
\* out no handle the running master would not have given out.
RecoveryFaithful ==
  (up /\ applied /\ replayable) =>
    /\ SameFiles(recovered, live)
    /\ recovered.next <= live.next

\* A request the master accepts never makes the log unreplayable: what the
\* handlers check is enough for ReplayOperation.  The one exception is a
\* request on a chunk whose collection was logged and then given up.
AcceptedRequestsReplay ==
  [][(up /\ applied /\ replayable /\ ~replayable'
        /\ DOMAIN live.chunks \subseteq DOMAIN recovered.chunks)
       => live' = live]_vars

\* A chunk leaves the table of a running master only when no remaining file
\* refers to it: neither the deletion of one of the files sharing it, nor a
\* collection that raced with a request adding a reference, takes it away.
OnlyUnreferencedChunksVanish ==
  [][(up /\ up') =>
       \A h \in DOMAIN live.chunks \ DOMAIN live'.chunks :
         Holders(live, h) \cap DOMAIN live'.files = {}]_vars

\* No request changes the chunk list of two files, and a copy-on-write (the
\* only request that puts another chunk at a position) keeps the rest of the
\* list, leaves every other holder of the chunk alone and gives the file a
\* chunk nobody else has.
CopyOnWriteIsolation ==
  [][(up /\ up') =>
       LET changed == {p \in DOMAIN live.files \cap DOMAIN live'.files :
                         ChunksOf(live, p) # ChunksOf(live', p)}
       IN  /\ Cardinality(changed) <= 1
           /\ \A p \in changed :
                Len(ChunksOf(live, p)) = Len(ChunksOf(live', p)) =>
                  \E i \in DOMAIN ChunksOf(live, p) :
                    /\ \A j \in DOMAIN ChunksOf(live, p) \ {i} :
                         ChunksOf(live', p)[j] = ChunksOf(live, p)[j]
                    /\ Holders(live', ChunksOf(live', p)[i]) = {p}]_vars

\* Whatever order registrations, heartbeats, removals and changes of primary
\* come in, a replica list names a server once and has at most one primary.
ReplicaListsSound ==
  \A h \in DOMAIN replicas : IsReplicaList(replicas[h])

\* The lease on a chunk passes from one server to another only after it has
\* expired or been released; AcquireLease alone does not take it away.
LeaseNotStolen ==
  [][\A h \in DOMAIN leases \cap DOMAIN leases' :
       leases[h].holder # leases'[h].holder => leases[h].expired]_vars

\* A snapshot revokes the leases on the chunks it comes to share, whatever
\* else holds them.  (A rename adds a name as well and revokes nothing.)
SnapshotRevokesLeases ==
  [][(up /\ DOMAIN live.files \subseteq DOMAIN live'.files) =>
       \A p \in DOMAIN live'.files \ DOMAIN live.files :
         \A h \in Range(ChunksOf(live', p)) :
           Cardinality(Holders(live', h)) > 1 => h \notin DOMAIN leases']_vars

\* A chunk that leaves the table of a running master leaves its replica list
\* and its lease too, although three managers keep them.
DeadChunksForgotten ==
  [][(up /\ up') =>
       \A h \in DOMAIN live.chunks \ DOMAIN live'.chunks :
         h \notin DOMAIN replicas' \cup DOMAIN leases']_vars

\* When a file is redirected to a copy of a shared chunk, every server listed
\* for the original is listed for the copy, and one of them is its primary.
CopyServedLikeSource ==
  [][\A p \in DOMAIN live.files \cap DOMAIN live'.files :
       \A i \in DOMAIN ChunksOf(live, p) \cap DOMAIN ChunksOf(live', p) :
         LET src == ChunksOf(live, p)[i]
             dst == ChunksOf(live', p)[i]
         IN  (up /\ ~HasChunk(live, dst) /\ Servers(ReplicasOf(src)) # {}) =>
               /\ Servers(ReplicasOf(src)) \subseteq Servers(replicas'[dst])
               /\ Primaries(replicas'[dst]) \subseteq Servers(ReplicasOf(src))
               /\ Primaries(replicas'[dst]) # {}]_vars

\* The log alone always brings the master back, unless the file itself is
\* damaged: tests/phase11_test.cpp RecoversFromLogOnly.
RecoversFromLog == torn \/ replayable

=============================================================================
