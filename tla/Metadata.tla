------------------------------ MODULE Metadata ------------------------------
(***************************************************************************)
(* The persistent state of the master and the pure functions that change   *)
(* it: the namespace tree (master/namespace/namespace_manager.cpp), the    *)
(* file and chunk tables (master/metadata/), the replay of one record of   *)
(* the operation log (Master::ReplayOperation) and the restoration of a    *)
(* checkpoint (Checkpoint::Restore).                                       *)
(*                                                                         *)
(* A path is the sequence of its components, <<>> being "/"; only the      *)
(* paths IsValidPath accepts are written so, and a request that names any  *)
(* other path fails as one whose parent is missing.  An unordered_map of   *)
(* the code is a function whose DOMAIN is the set of its keys.  Every      *)
(* function maps a state to a state, so that the tables of a running       *)
(* master and the tables a restart would rebuild from the log are changed  *)
(* by the same operators.                                                  *)
(***************************************************************************)
EXTENDS Naturals, Sequences, FiniteSets, Functions

CONSTANTS
  Name,      \* path components
  Factor,    \* replication factors
  Version,   \* chunk versions
  Size       \* file and chunk sizes

ASSUME DataAssumption ==
  /\ Factor \subseteq Nat \ {0}
  /\ Version \subseteq Nat \ {0} /\ 1 \in Version
  /\ Size \subseteq Nat /\ 0 \in Size

Handle == Nat \ {0}
Root == <<>>
Parent(p) == SubSeq(p, 1, Len(p) - 1)

\* q lies in the tree rooted at p (p itself included).
Under(p, q) == Len(p) <= Len(q) /\ SubSeq(q, 1, Len(p)) = p

\* Where the snapshot dst of src puts the copy of q, which lies under src.
DestinationFor(q, src, dst) == dst \o SubSeq(q, Len(src) + 1, Len(q))

NodeType == {"Directory", "File"}
FileMetadata == [size : Size, factor : Factor, chunks : Seq(Handle)]
ChunkMetadata == [version : Version, size : Size]

\* A state of the tables; next is next_chunk_handle_.
Tables(ns, files, chunks, next) ==
  [ns |-> ns, files |-> files, chunks |-> chunks, next |-> next]

IsState(st) ==
  /\ st = Tables(st.ns, st.files, st.chunks, st.next)
  /\ DOMAIN st.ns \subseteq Seq(Name)
  /\ st.ns \in [DOMAIN st.ns -> NodeType]
  /\ st.files \in [DOMAIN st.files -> FileMetadata]
  /\ DOMAIN st.chunks \subseteq Handle
  /\ st.chunks \in [DOMAIN st.chunks -> ChunkMetadata]
  /\ st.next \in Handle

Put(f, x, v) == [y \in DOMAIN f \cup {x} |-> IF y = x THEN v ELSE f[y]]
Drop(f, S) == Restrict(f, DOMAIN f \ S)

\* Namespace and tables of a master that has just been constructed or cleared.
EmptyState ==
  Tables([p \in {Root} |-> "Directory"], [p \in {} |-> 0], [h \in {} |-> 0], 1)

-----------------------------------------------------------------------------
(* The namespace tree.                                                     *)

Exists(st, p) == p \in DOMAIN st.ns
IsFile(st, p) == Exists(st, p) /\ st.ns[p] = "File"
IsDirectory(st, p) == Exists(st, p) /\ st.ns[p] = "Directory"

\* Variant with a fault: any existing node will do as the parent.
CanAddNodeUnderAny(st, p) ==
  p # Root /\ ~Exists(st, p) /\ Exists(st, Parent(p))

CanAddNode(st, p) ==
  /\ p # Root
  /\ ~Exists(st, p)
  /\ IsDirectory(st, Parent(p))

WithDirectory(st, p) ==
  Tables(Put(st.ns, p, "Directory"), st.files, st.chunks, st.next)

-----------------------------------------------------------------------------
(* The file and chunk tables.                                              *)

HasFile(st, p) == p \in DOMAIN st.files
HasChunk(st, h) == h \in DOMAIN st.chunks
ChunksOf(st, p) == IF HasFile(st, p) THEN st.files[p].chunks ELSE <<>>

\* The files that hold chunk h; GetChunkReferenceCount is their number.
Holders(st, h) == {p \in DOMAIN st.files : h \in Range(st.files[p].chunks)}

\* FileMetadata::RemoveChunk: a list names a chunk at most once.
WithoutChunk(s, h) ==
  IF h \in Range(s)
  THEN LET i == CHOOSE i \in DOMAIN s : s[i] = h
       IN  [j \in 1..(Len(s) - 1) |-> IF j < i THEN s[j] ELSE s[j + 1]]
  ELSE s

\* next_chunk_handle_ after chunk h has entered the table.
NextAfter(n, h) == IF h >= n THEN h + 1 ELSE n

CanAddFile(st, p) == CanAddNode(st, p) /\ ~HasFile(st, p)

WithFile(st, p, factor) ==
  Tables(Put(st.ns, p, "File"),
         Put(st.files, p, [size |-> 0, factor |-> factor, chunks |-> <<>>]),
         st.chunks, st.next)

\* Variant with a fault: the other references to a chunk are not counted.
WithoutFileUncounted(st, p) ==
  LET dead == Range(st.files[p].chunks)
  IN  Tables(Drop(st.ns, {p}), Drop(st.files, {p}), Drop(st.chunks, dead),
             st.next)

\* Deleting a file erases the chunks no other file holds.
WithoutFile(st, p) ==
  LET dead == {h \in DOMAIN st.chunks : Holders(st, h) = {p}}
  IN  Tables(Drop(st.ns, {p}), Drop(st.files, {p}), Drop(st.chunks, dead),
             st.next)

\* Variant with a fault: the new parent is not looked up.
CanRenameAnywhere(st, src, dst) ==
  /\ IsFile(st, src) /\ ~Exists(st, dst)
  /\ HasFile(st, src) /\ ~HasFile(st, dst)

CanRename(st, src, dst) ==
  /\ IsFile(st, src) /\ CanAddNode(st, dst)
  /\ HasFile(st, src) /\ ~HasFile(st, dst)

WithRenamed(st, src, dst) ==
  Tables(Put(Drop(st.ns, {src}), dst, "File"),
         Put(Drop(st.files, {src}), dst, st.files[src]),
         st.chunks, st.next)

WithSize(st, p, size) ==
  Tables(st.ns, [st.files EXCEPT ![p].size = size], st.chunks, st.next)
WithChunkVersion(st, h, v) ==
  Tables(st.ns, st.files, [st.chunks EXCEPT ![h].version = v], st.next)
WithChunkSize(st, h, size) ==
  Tables(st.ns, st.files, [st.chunks EXCEPT ![h].size = size], st.next)
WithChunkList(st, p, list) ==
  Tables(st.ns, [st.files EXCEPT ![p].chunks = list], st.chunks, st.next)

\* AllocateStandaloneChunk: a table entry no file refers to yet.
WithStandaloneChunk(st, h, chunk) ==
  Tables(st.ns, st.files, Put(st.chunks, h, chunk), NextAfter(st.next, h))

\* Variant with a fault: a new chunk starts at the invalid version.
UnversionedChunk == [version |-> 0, size |-> 0]

NewChunk == [version |-> 1, size |-> 0]

WithAllocated(st, p, h) ==
  WithChunkList(WithStandaloneChunk(st, h, NewChunk),
                p, Append(st.files[p].chunks, h))

WithAdded(st, p, h) == WithChunkList(st, p, Append(st.files[p].chunks, h))

WithRemoved(st, p, h) ==
  WithChunkList(st, p, WithoutChunk(st.files[p].chunks, h))

\* Metadata::DeleteChunk: the chunk leaves the table and every file.
WithoutChunkEntry(st, h) ==
  Tables(st.ns,
         [p \in DOMAIN st.files |->
            [st.files[p] EXCEPT !.chunks = WithoutChunk(@, h)]],
         Drop(st.chunks, {h}), st.next)

\* ReplaceChunkInFile.
CanReplace(st, p, i, h) ==
  /\ HasFile(st, p) /\ HasChunk(st, h)
  /\ i \in DOMAIN st.files[p].chunks
  /\ st.files[p].chunks[i] = h \/ h \notin Range(st.files[p].chunks)

\* Variant with a fault: every file that holds the old chunk is redirected.
WithReplacedEverywhere(st, p, i, h) ==
  LET old == st.files[p].chunks[i]
  IN  [st EXCEPT !.files = [q \in DOMAIN @ |->
         [@[q] EXCEPT !.chunks = [j \in DOMAIN @ |->
            IF @[j] = old THEN h ELSE @[j]]]]]

WithReplaced(st, p, i, h) ==
  WithChunkList(st, p, [st.files[p].chunks EXCEPT ![i] = h])

-----------------------------------------------------------------------------
(* Snapshots.  A directory is copied with everything under it; the list of *)
(* nodes is taken before the first copy is made, parents come before their *)
(* children, and a failure removes what was copied, so the snapshot is     *)
(* made whole or not at all.                                               *)

Copied(st, src) == {q \in DOMAIN st.ns : Under(src, q)}

CanSnapshot(st, src, dst) ==
  /\ Exists(st, src)
  /\ CanAddNode(st, dst)
  /\ \A q \in Copied(st, src) :
       /\ ~Exists(st, DestinationFor(q, src, dst))
       /\ IsFile(st, q) =>
            /\ HasFile(st, q)
            /\ ~HasFile(st, DestinationFor(q, src, dst))
            /\ Range(st.files[q].chunks) \subseteq DOMAIN st.chunks

WithSnapshot(st, src, dst) ==
  LET origin(p) ==
        CHOOSE q \in Copied(st, src) : DestinationFor(q, src, dst) = p
      nodes == {DestinationFor(q, src, dst) : q \in Copied(st, src)}
      files == {p \in nodes : IsFile(st, origin(p))}
  IN  Tables([p \in DOMAIN st.ns \cup nodes |->
                IF p \in nodes THEN st.ns[origin(p)] ELSE st.ns[p]],
             [p \in DOMAIN st.files \cup files |->
                IF p \in files THEN st.files[origin(p)] ELSE st.files[p]],
             st.chunks, st.next)

-----------------------------------------------------------------------------
(* Replay of the operation log.  Replay goes through the records in order  *)
(* and stops for good at the first one ReplayOperation returns false for.  *)

\* The records of the log.
Operation ==
  [type : {"CreateDirectory", "DeleteFile"}, path : Seq(Name)]
    \cup [type : {"CreateFile"}, path : Seq(Name), factor : Factor]
    \cup [type : {"RenameFile", "CreateSnapshot"},
          src : Seq(Name), dst : Seq(Name)]
    \cup [type : {"UpdateFileSize"}, path : Seq(Name), size : Size]
    \cup [type : {"AllocateChunk", "AddChunkToFile", "RemoveChunkFromFile"},
          path : Seq(Name), handle : Handle]
    \cup [type : {"SetChunkVersion"}, handle : Handle, version : Version]
    \cup [type : {"SetChunkSize"}, handle : Handle, size : Size]
    \cup [type : {"DeleteChunk"}, handle : Handle]
    \cup [type : {"CopyOnWrite"}, path : Seq(Name), index : Nat,
          src : Handle, dst : Handle, chunk : ChunkMetadata]

\* Variant with a fault: the copy must be in the table already.
CanReplayKnownCopy(st, op) ==
  LET list == ChunksOf(st, op.path)
  IN  /\ op.index \in DOMAIN list
      /\ HasChunk(st, op.dst)
      /\ list[op.index] \in {op.src, op.dst}

CanReplayCopyOnWrite(st, op) ==
  LET list == ChunksOf(st, op.path)
  IN  /\ op.index \in DOMAIN list
      /\ \/ list[op.index] = op.dst
         \/ list[op.index] = op.src /\ op.dst \notin Range(list)

ReplayedCopyOnWrite(st, op) ==
  IF ChunksOf(st, op.path)[op.index] = op.dst THEN st
  ELSE WithReplaced(IF HasChunk(st, op.dst) THEN st
                    ELSE WithStandaloneChunk(st, op.dst, op.chunk),
                    op.path, op.index, op.dst)

CanReplay(st, op) ==
  CASE op.type = "CreateDirectory" ->
         IsDirectory(st, op.path) \/ CanAddNode(st, op.path)
    [] op.type = "CreateFile" ->
         \/ IsFile(st, op.path) /\ HasFile(st, op.path)
         \/ CanAddFile(st, op.path)
    [] op.type = "RenameFile" -> CanRename(st, op.src, op.dst)
    [] op.type = "UpdateFileSize" -> HasFile(st, op.path)
    [] op.type = "AllocateChunk" ->
         \/ HasChunk(st, op.handle)
         \/ /\ HasFile(st, op.path)
            /\ op.handle \notin Range(st.files[op.path].chunks)
    [] op.type \in {"SetChunkVersion", "SetChunkSize"} ->
         HasChunk(st, op.handle)
    [] op.type = "AddChunkToFile" ->
         HasChunk(st, op.handle) /\ HasFile(st, op.path)
    [] op.type = "CreateSnapshot" ->
         Exists(st, op.dst) \/ CanSnapshot(st, op.src, op.dst)
    [] op.type = "CopyOnWrite" -> CanReplayCopyOnWrite(st, op)
    [] OTHER -> TRUE

\* The tables after a record that replays: what the log already says of the
\* tables is not done again, except for the operations that overwrite.
Replayed(st, op) ==
  CASE op.type = "CreateDirectory" ->
         IF Exists(st, op.path) THEN st ELSE WithDirectory(st, op.path)
    [] op.type = "CreateFile" ->
         IF Exists(st, op.path) THEN st
         ELSE WithFile(st, op.path, op.factor)
    [] op.type = "DeleteFile" ->
         IF IsFile(st, op.path) \/ HasFile(st, op.path)
         THEN WithoutFile(st, op.path) ELSE st
    [] op.type = "RenameFile" -> WithRenamed(st, op.src, op.dst)
    [] op.type = "UpdateFileSize" -> WithSize(st, op.path, op.size)
    [] op.type = "AllocateChunk" ->
         IF HasChunk(st, op.handle) THEN st
         ELSE WithAllocated(st, op.path, op.handle)
    [] op.type = "SetChunkVersion" ->
         WithChunkVersion(st, op.handle, op.version)
    [] op.type = "SetChunkSize" -> WithChunkSize(st, op.handle, op.size)
    [] op.type = "AddChunkToFile" ->
         IF op.handle \in Range(ChunksOf(st, op.path)) THEN st
         ELSE WithAdded(st, op.path, op.handle)
    [] op.type = "RemoveChunkFromFile" ->
         IF HasFile(st, op.path) THEN WithRemoved(st, op.path, op.handle)
         ELSE st
    [] op.type = "DeleteChunk" ->
         IF HasChunk(st, op.handle) THEN WithoutChunkEntry(st, op.handle)
         ELSE st
    [] op.type = "CreateSnapshot" ->
         IF Exists(st, op.dst) THEN st ELSE WithSnapshot(st, op.src, op.dst)
    [] op.type = "CopyOnWrite" -> ReplayedCopyOnWrite(st, op)

-----------------------------------------------------------------------------
(* Checkpoints.  A checkpoint holds the tables but not next_chunk_handle_, *)
(* which RestoreChunk recomputes from the handles it meets.                *)

\* Variant with a fault: the largest handle instead of the one after it.
LargestOf(handles) ==
  CHOOSE n \in {1} \cup handles : \A h \in handles : h <= n

NextFor(handles) ==
  CHOOSE n \in {1} \cup {h + 1 : h \in handles} : \A h \in handles : h < n

\* Variant with a fault: chunks come back at their first version.
RestoredUnversioned(st) ==
  Tables(st.ns, st.files, [h \in DOMAIN st.chunks |-> NewChunk],
         NextFor(DOMAIN st.chunks))

Restored(st) ==
  Tables(st.ns, st.files, st.chunks, NextFor(DOMAIN st.chunks))

\* ValidateState, RestoreNodes and RestoreFile accept the tables.
CanRestore(st) ==
  /\ IsDirectory(st, Root)
  /\ \A p \in DOMAIN st.ns \ {Root} : IsDirectory(st, Parent(p))
  /\ \A p \in DOMAIN st.files :
       /\ Exists(st, p) /\ p # Root
       /\ Range(st.files[p].chunks) \subseteq DOMAIN st.chunks
       /\ IsInjective(st.files[p].chunks)

-----------------------------------------------------------------------------
(* What the tables promise.                                                *)

\* Every node but "/" hangs from a directory.
TreeConnected(st) ==
  /\ IsDirectory(st, Root)
  /\ \A p \in DOMAIN st.ns \ {Root} : IsDirectory(st, Parent(p))

\* The namespace and the file table are updated by two calls that can fail
\* one without the other; they still name the same files.
NamespaceMatchesFiles(st) ==
  DOMAIN st.files = {p \in DOMAIN st.ns : st.ns[p] = "File"}

\* A file lists no chunk twice, and only chunks the table knows.
ChunksResolvable(st) ==
  \A p \in DOMAIN st.files :
    /\ Range(st.files[p].chunks) \subseteq DOMAIN st.chunks
    /\ IsInjective(st.files[p].chunks)

\* The next handle to be given out is not in use, nor is any later one.
HandlesBelowNext(st) == \A h \in DOMAIN st.chunks : h < st.next

Consistent(st) ==
  /\ IsState(st)
  /\ TreeConnected(st)
  /\ NamespaceMatchesFiles(st)
  /\ ChunksResolvable(st)
  /\ HandlesBelowNext(st)

=============================================================================
