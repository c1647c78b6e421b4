------------------------------ MODULE Cluster ------------------------------
(***************************************************************************)
(* The master and its chunkservers: where the copies of chunks lie, what   *)
(* the master knows of them, and how heartbeats, the AllocateChunk RPC,    *)
(* re-replication and rebalancing change both.                             *)
(*                                                                         *)
(* No lock of the master spans these.  The RPCs hold the mutex of          *)
(* MasterServiceImpl, but heartbeats do not, and recovery and rebalancing  *)
(* run outside it.  A call of a remote server is a step of its own, and so *)
(* is each change of a replica list.                                       *)
(*                                                                         *)
(* The tables are those of module Master, of which only the chunks are     *)
(* kept; a chunk's file is left out, but for its replication factor.       *)
(***************************************************************************)
EXTENDS Replicas, FiniteSets

CONSTANTS
  Server,        \* the identifiers of the chunkservers
  Attached,      \* those that run in the process of the master
  PolicyFactor,  \* replication_factor_ of PlacementPolicy
  FileFactor,    \* the replication factors of files
  MaxHandle,     \* bound on chunk handles
  MaxGeneration, \* bound on how often a handle is allocated
  MaxVersion,    \* bound on chunk versions
  Written,       \* bound on the chunks that clients write to
  MaxBeats,      \* bound on heartbeats processed at the same time
  MaxRestarts,   \* bound on how often the master restarts
  Job            \* which of "recover" and "move" run

ASSUME ClusterAssumption ==
  /\ Server \subseteq Nat \ {0} /\ IsFiniteSet(Server)
  /\ Attached \subseteq Server
  /\ PolicyFactor \in Nat \ {0} /\ FileFactor \subseteq Nat \ {0}
  /\ MaxHandle \in Nat /\ MaxGeneration \in Nat /\ MaxVersion \in Nat \ {0}
  /\ Written \subseteq Nat /\ MaxBeats \in Nat /\ MaxRestarts \in Nat
  /\ Job \subseteq {"recover", "move"}

Handle == 1..MaxHandle
Generation == 1..MaxGeneration

VARIABLES
  chunks,      \* the chunk table
  next,        \* next_chunk_handle_
  recovered,   \* what next_chunk_handle_ is after a restart
  generation,  \* how often each handle has been allocated
  allocated,   \* the handles whose last AllocateChunk reported success
  replicas,    \* replicas_ of ReplicaManager
  heard,       \* servers_ of HeartbeatManager
  endpoints,   \* endpoints_ of ReReplicationManager
  rpc,         \* the AllocateChunk in progress
  task,        \* the recovery or the rebalancing in progress
  beat,        \* the heartbeats in progress
  disk,        \* the chunk files of each chunkserver
  restarts     \* how often the master has restarted

tables == <<chunks, next, recovered, generation, allocated>>
vars == <<tables, replicas, heard, endpoints, rpc, task, beat, disk, restarts>>

Put(f, x, v) == [y \in DOMAIN f \cup {x} |-> IF y = x THEN v ELSE f[y]]
Drop(f, x) == [y \in DOMAIN f \ {x} |-> f[y]]

Chunk == [factor : FileFactor, version : 1..MaxVersion]
Listing == [server : Server, primary : BOOLEAN]

\* The state of a chunkserver: its flag, whether its last heartbeat is less
\* than the timeout old, and the chunks it reported.
ServerState == [alive : BOOLEAN, fresh : BOOLEAN, reported : SUBSET Handle]

\* A chunk file holds bytes written to one chunk or, if its handle has been
\* given out more than once, to several.
File == SUBSET Generation

Rpc == [at : {"idle", "create", "undo"}, chunk : Handle \cup {0},
        place : Seq(Server), i : Nat]

Task ==
  [at : {"idle", "drop", "purge", "move", "copy", "write", "register",
         "remove"},
   kind : {"recover", "move"},
   chunk : Handle \cup {0},
   gone : SUBSET Server,           \* listed servers that were not alive
   stale : SUBSET Server,          \* listed servers that were stale
   from : Server \cup {0},         \* the source
   to : Seq(Server),               \* the destinations that are left
   data : File,                    \* what was read from the source
   lead : BOOLEAN,                 \* moving_primary
   rest : SUBSET Handle]           \* the chunks that are left to move

NoRpc == [at |-> "idle", chunk |-> 0, place |-> <<>>, i |-> 0]
NoTask ==
  [at |-> "idle", kind |-> "recover", chunk |-> 0, gone |-> {}, stale |-> {},
   from |-> 0, to |-> <<>>, data |-> {}, lead |-> FALSE, rest |-> {}]

\* Types; a list names a server once and has at most one primary.
TypeOK ==
  /\ \E H \in SUBSET Handle : chunks \in [H -> Chunk]
  /\ next \in 1..MaxHandle + 1 /\ recovered \in 1..MaxHandle + 1
  /\ generation \in [Handle -> 0..MaxGeneration]
  /\ allocated \subseteq Handle
  /\ DOMAIN replicas \subseteq Handle
  /\ \A h \in DOMAIN replicas :
       replicas[h] \in Seq(Listing) /\ IsReplicaList(replicas[h])
  /\ \E S \in SUBSET Server : heard \in [S -> ServerState]
  /\ endpoints \subseteq Server
  /\ rpc \in Rpc /\ task \in Task
  /\ beat \in [Server -> {"idle", "heard", "listed"}]
  /\ \A s \in Server : \E H \in SUBSET Handle : disk[s] \in [H -> File]
  /\ restarts \in 0..MaxRestarts

Init ==
  /\ chunks = <<>> /\ next = 1 /\ recovered = 1
  /\ generation = [h \in Handle |-> 0] /\ allocated = {}
  /\ replicas = <<>> /\ heard = <<>> /\ endpoints = {}
  /\ rpc = NoRpc /\ task = NoTask
  /\ beat = [s \in Server |-> "idle"]
  /\ disk = [s \in Server |-> <<>>] /\ restarts = 0

-----------------------------------------------------------------------------
(* What the master knows.                                                  *)

List(h) == IF h \in DOMAIN replicas THEN replicas[h] ELSE <<>>

WithList(h, rs) ==
  IF rs = <<>> THEN Drop(replicas, h) ELSE Put(replicas, h, rs)

\* RemoveReplica does nothing for a server that is not listed.
WithoutReplica(h, s) ==
  IF s \in Servers(List(h)) THEN WithList(h, Unregistered(List(h), s))
  ELSE replicas

\* GetChunksForServer.
ChunksOn(s) == {h \in DOMAIN replicas : s \in Servers(replicas[h])}

\* GetLiveServers, and IsServerAlive at the time of the call.
LiveServers == {s \in DOMAIN heard : heard[s].alive}
Alive(s) == s \in LiveServers /\ heard[s].fresh

\* HeartbeatClient reports version 1 of every chunk.
IsStaleReplica(h, s) ==
  /\ h \in DOMAIN chunks /\ s \in DOMAIN heard
  /\ h \in heard[s].reported /\ chunks[h].version > 1

HasChunkserver(s) == s \in Attached \/ s \in endpoints

IsHealthy(h, s) ==
  /\ Alive(s) /\ ~IsStaleReplica(h, s)
  /\ IF s \in Attached THEN h \in DOMAIN disk[s] ELSE s \in endpoints

Healthy(h) == {s \in Servers(List(h)) : IsHealthy(h, s)}

Desired(h) == IF h \in DOMAIN chunks THEN chunks[h].factor ELSE 0

\* SelectReplicas: n servers, each the one with the fewest chunks among those
\* not chosen before it, or nothing when there are too few.
Select(candidates, n) ==
  LET load(s) == Cardinality(ChunksOn(s))
      before(s, t) == load(s) < load(t) \/ (load(s) = load(t) /\ s < t)
      selections ==
        {p \in [1..n -> candidates] : \A i \in 1..n :
           LET left == candidates \ {p[j] : j \in 1..i - 1}
           IN  p[i] \in left /\ \A s \in left \ {p[i]} : before(p[i], s)}
  IN  IF selections = {} THEN <<>> ELSE CHOOSE p \in selections : TRUE

-----------------------------------------------------------------------------
(* Heartbeats.                                                             *)

\* HeartbeatManager.ProcessHeartbeat: the chunks a chunkserver has.  One that
\* is stopped, or whose heartbeats are lost, is not heard of.
HearHeartbeat(s) ==
  /\ beat[s] = "idle"
  /\ Cardinality({t \in Server : beat[t] # "idle"}) < MaxBeats
  /\ heard' = Put(heard, s, [alive |-> TRUE, fresh |-> TRUE,
                             reported |-> DOMAIN disk[s]])
  /\ beat' = [beat EXCEPT ![s] = "heard"]
  /\ UNCHANGED <<tables, replicas, endpoints, rpc, task, disk, restarts>>

\* Variant with a fault: only what the tables know is listed.
ListAllocated(s) ==
  /\ beat[s] = "heard"
  /\ replicas' =
       [h \in DOMAIN replicas |->
          IF h \in heard[s].reported THEN Registered(List(h), s, FALSE)
          ELSE List(h)]
  /\ beat' = [beat EXCEPT ![s] = "listed"]
  /\ UNCHANGED <<tables, heard, endpoints, rpc, task, disk, restarts>>

\* Variant with a fault: it is not looked up whether a server is listed.
ListAgain(s) ==
  /\ beat[s] = "heard"
  /\ replicas' =
       [h \in DOMAIN replicas \cup heard[s].reported |->
          IF h \in heard[s].reported
          THEN Append(List(h), [server |-> s, primary |-> FALSE])
          ELSE List(h)]
  /\ beat' = [beat EXCEPT ![s] = "listed"]
  /\ UNCHANGED <<tables, heard, endpoints, rpc, task, disk, restarts>>

\* Master.ProcessHeartbeat registers what is reported, known or not.
ListReported(s) ==
  /\ beat[s] = "heard"
  /\ replicas' =
       [h \in DOMAIN replicas \cup heard[s].reported |->
          IF h \in heard[s].reported THEN Registered(List(h), s, FALSE)
          ELSE List(h)]
  /\ beat' = [beat EXCEPT ![s] = "listed"]
  /\ UNCHANGED <<tables, heard, endpoints, rpc, task, disk, restarts>>

\* Variant with a fault: only endpoints not known before a restart count.
RegisterEndpointOnce(s) ==
  /\ beat[s] = "listed"
  /\ endpoints' = IF heard[s].reported # {} THEN endpoints
                  ELSE endpoints \cup ({s} \ Attached)
  /\ beat' = [beat EXCEPT ![s] = "idle"]
  /\ UNCHANGED <<tables, replicas, heard, rpc, task, disk, restarts>>

\* The RPC registers the endpoint last.
RegisterEndpoint(s) ==
  /\ beat[s] = "listed"
  /\ endpoints' = endpoints \cup ({s} \ Attached)
  /\ beat' = [beat EXCEPT ![s] = "idle"]
  /\ UNCHANGED <<tables, replicas, heard, rpc, task, disk, restarts>>

\* A server's last heartbeat reaches the age of the timeout.
TimeOut(s) ==
  /\ s \in DOMAIN heard /\ heard[s].fresh
  /\ heard' = [heard EXCEPT ![s].fresh = FALSE]
  /\ UNCHANGED <<tables, replicas, endpoints, rpc, task, beat, disk, restarts>>

DetectFailedServers ==
  /\ \E s \in LiveServers : ~heard[s].fresh
  /\ heard' = [s \in DOMAIN heard |->
                 [heard[s] EXCEPT !.alive = @ /\ heard[s].fresh]]
  /\ UNCHANGED <<tables, replicas, endpoints, rpc, task, beat, disk, restarts>>

-----------------------------------------------------------------------------
(* Requests.                                                               *)

\* Variant with a fault: that a server is listed already does not matter.
BeginAllocateAnyway(factor) ==
  LET place == Select(LiveServers, PolicyFactor)
  IN  /\ rpc.at = "idle"
      /\ next <= MaxHandle /\ generation[next] < MaxGeneration
      /\ chunks' = Put(chunks, next, [factor |-> factor, version |-> 1])
      /\ generation' = [generation EXCEPT ![next] = @ + 1]
      /\ next' = next + 1 /\ recovered' = next + 1
      /\ allocated' = allocated \ {next}
      /\ replicas' = WithList(next, RegisteredAll(List(next), place))
      /\ rpc' = IF Len(place) = factor /\ Range(place) \subseteq endpoints
                THEN [at |-> "create", chunk |-> next, place |-> place,
                      i |-> 1]
                ELSE NoRpc
      /\ UNCHANGED <<heard, endpoints, task, beat, disk, restarts>>

\* AllocateChunk up to the first call of a chunkserver.  What is placed on
\* the wrong number of servers, or on one without an endpoint, remains.
BeginAllocate(factor) ==
  LET place == Select(LiveServers, PolicyFactor)
  IN  /\ rpc.at = "idle"
      /\ next <= MaxHandle /\ generation[next] < MaxGeneration
      /\ chunks' = Put(chunks, next, [factor |-> factor, version |-> 1])
      /\ generation' = [generation EXCEPT ![next] = @ + 1]
      /\ next' = next + 1 /\ recovered' = next + 1
      /\ allocated' = allocated \ {next}
      /\ replicas' = WithList(next, RegisteredAll(List(next), place))
      /\ rpc' = IF Len(place) = factor /\ Range(place) \subseteq endpoints
                   /\ Range(place) \cap Servers(List(next)) = {}
                THEN [at |-> "create", chunk |-> next, place |-> place,
                      i |-> 1]
                ELSE NoRpc
      /\ UNCHANGED <<heard, endpoints, task, beat, disk, restarts>>

\* The files of a chunkserver, with one for the chunk if there was none.
Created(files, h) == IF h \in DOMAIN files THEN files ELSE Put(files, h, {})

\* Variant with a fault: a server that cannot be reached is passed over.
CreateReplicaUnchecked ==
  LET s == rpc.place[rpc.i]
  IN  /\ rpc.at = "create" /\ rpc.i <= Len(rpc.place)
      /\ disk' \in {disk, [disk EXCEPT ![s] = Created(@, rpc.chunk)]}
      /\ rpc' = [rpc EXCEPT !.i = @ + 1]
      /\ UNCHANGED <<tables, replicas, heard, endpoints, task, beat, restarts>>

\* Variant with a fault: a failed allocation gives its handle back.
UndoAllocation ==
  /\ rpc.at = "undo"
  /\ chunks' = Drop(chunks, rpc.chunk)
  /\ next' = rpc.chunk /\ recovered' = rpc.chunk
  /\ replicas' = WithList(rpc.chunk, <<>>)
  /\ rpc' = NoRpc
  /\ UNCHANGED <<generation, allocated, heard, endpoints, task, beat, disk,
                 restarts>>

\* CreateReplica on the next server; an old file of the handle will do.
CreateReplica ==
  LET s == rpc.place[rpc.i]
  IN  /\ rpc.at = "create" /\ rpc.i <= Len(rpc.place)
      /\ \/ /\ disk' = [disk EXCEPT ![s] = Created(@, rpc.chunk)]
            /\ \/ rpc' = [rpc EXCEPT !.i = @ + 1]
               \/ rpc' = [rpc EXCEPT !.at = "undo", !.i = 1]
         \/ /\ rpc' = [rpc EXCEPT !.at = "undo", !.i = 1]
            /\ UNCHANGED disk
      /\ UNCHANGED <<tables, replicas, heard, endpoints, task, beat, restarts>>

\* A replica could not be created: those placed are removed one by one, but
\* the chunk stays in the table.
UndoPlacement ==
  /\ rpc.at = "undo"
  /\ replicas' = WithoutReplica(rpc.chunk, rpc.place[rpc.i])
  /\ rpc' = IF rpc.i < Len(rpc.place) THEN [rpc EXCEPT !.i = @ + 1] ELSE NoRpc
  /\ UNCHANGED <<tables, heard, endpoints, task, beat, disk, restarts>>

EndAllocate ==
  /\ rpc.at = "create" /\ rpc.i > Len(rpc.place)
  /\ allocated' = allocated \cup {rpc.chunk}
  /\ rpc' = NoRpc
  /\ UNCHANGED <<chunks, next, recovered, generation, replicas, heard,
                 endpoints, task, beat, disk, restarts>>

\* DeleteFile: the tables forget the chunk, the chunkservers do not.
DeleteFile(h) ==
  /\ rpc.at = "idle" /\ h \in DOMAIN chunks
  /\ chunks' = Drop(chunks, h)
  /\ replicas' = WithList(h, <<>>)
  /\ UNCHANGED <<next, recovered, generation, allocated, heard, endpoints,
                 rpc, task, beat, disk, restarts>>

SetChunkVersion(h) ==
  /\ rpc.at = "idle" /\ h \in DOMAIN chunks /\ chunks[h].version < MaxVersion
  /\ chunks' = [chunks EXCEPT ![h].version = @ + 1]
  /\ UNCHANGED <<next, recovered, generation, allocated, replicas, heard,
                 endpoints, rpc, task, beat, disk, restarts>>

\* WriteChunk from a client that was given the location of the chunk, be it
\* before the chunk was deleted.
WriteChunk(s, h, g) ==
  /\ h \in DOMAIN disk[s] \cap Written
  /\ g \in 1..generation[h]
  /\ rpc.chunk = h => g < generation[h]
  /\ disk' = [disk EXCEPT ![s][h] = @ \cup {g}]
  /\ UNCHANGED <<tables, replicas, heard, endpoints, rpc, task, beat,
                 restarts>>

-----------------------------------------------------------------------------
(* Recovery of a chunk.                                                    *)

\* RecoverChunk looks for stale replicas first, and for dead servers.
StartRecovery(h) ==
  /\ "recover" \in Job
  /\ task.at = "idle" /\ h \in DOMAIN chunks
  /\ task' = [NoTask EXCEPT
       !.at = "drop", !.chunk = h,
       !.gone = {s \in Servers(List(h)) : ~Alive(s)},
       !.stale = {s \in Servers(List(h)) : IsStaleReplica(h, s)}]
  /\ UNCHANGED <<tables, replicas, heard, endpoints, rpc, beat, disk, restarts>>

DropDead ==
  /\ task.at = "drop"
  /\ \E s \in task.gone :
       /\ replicas' = WithoutReplica(task.chunk, s)
       /\ task' = [task EXCEPT !.gone = @ \ {s}]
  /\ UNCHANGED <<tables, heard, endpoints, rpc, beat, disk, restarts>>

\* A healthy replica is made primary and is the source; the destinations are
\* as many servers as replicas are wanting, or none if there are too few.
ChooseSource ==
  LET h == task.chunk
      healthy == Healthy(h)
      first == CHOOSE i \in DOMAIN List(h) :
                 /\ List(h)[i].server \in healthy
                 /\ \A j \in 1..i - 1 : List(h)[j].server \notin healthy
      led == IF healthy = {} \/ Primaries(List(h)) \cap healthy # {}
             THEN List(h)
             ELSE WithPrimary(List(h), List(h)[first].server)
      candidates == {s \in LiveServers :
                       /\ s \notin Servers(List(h))
                       /\ Alive(s) /\ HasChunkserver(s)}
  IN  /\ task.at = "drop" /\ task.gone = {}
      /\ replicas' = WithList(h, led)
      /\ task' = [task EXCEPT
           !.at = "purge",
           !.from = IF healthy = {} THEN 0
                    ELSE CHOOSE s \in Primaries(led) \cap healthy : TRUE,
           !.to = IF healthy = {} \/ Cardinality(healthy) >= Desired(h)
                  THEN <<>>
                  ELSE Select(candidates, Desired(h) - Cardinality(healthy))]
      /\ UNCHANGED <<tables, heard, endpoints, rpc, beat, disk, restarts>>

PurgeStale ==
  /\ task.at = "purge"
  /\ \/ \E s \in task.stale :
          /\ replicas' = WithoutReplica(task.chunk, s)
          /\ task' = [task EXCEPT !.stale = @ \ {s}]
     \/ /\ task.stale = {}
        /\ task' = IF task.to = <<>> THEN NoTask
                   ELSE [task EXCEPT !.at = "copy"]
        /\ UNCHANGED replicas
  /\ UNCHANGED <<tables, heard, endpoints, rpc, beat, disk, restarts>>

-----------------------------------------------------------------------------
(* TransferReplica, for recovery and for a move.                           *)

\* What comes after the present destination, or the present move.
NextDestination ==
  IF task.kind = "move" THEN [task EXCEPT !.at = "move"]
  ELSE IF Len(task.to) = 1 THEN NoTask
  ELSE [task EXCEPT !.to = Tail(@), !.at = "copy"]

\* Recovery looks again whether the copy is still wanted.
SkipCopy ==
  /\ task.at = "copy" /\ task.kind = "recover"
  /\ \/ /\ Cardinality(Healthy(task.chunk)) >= Desired(task.chunk)
        /\ task' = NoTask
     \/ /\ Cardinality(Healthy(task.chunk)) < Desired(task.chunk)
        /\ Head(task.to) \in Servers(List(task.chunk))
        /\ task' = NextDestination
  /\ UNCHANGED <<tables, replicas, heard, endpoints, rpc, beat, disk, restarts>>

\* Variant with a fault: a transfer that fails counts as done.
BeginCopyUnchecked ==
  LET h == task.chunk
      s == Head(task.to)
  IN  /\ task.at = "copy"
      /\ disk' \in {disk, [disk EXCEPT ![s] = Put(@, h, {})]}
      /\ task' = [task EXCEPT !.at = "register"]
      /\ UNCHANGED <<tables, replicas, heard, endpoints, rpc, beat, restarts>>

\* The source is read, and a file made on the destination.  Within the
\* process an old file is truncated; over the network it is kept.
BeginCopy ==
  LET h == task.chunk
      s == Head(task.to)
      old == IF h \in DOMAIN disk[s] /\ ~({s, task.from} \subseteq Attached)
             THEN disk[s][h] ELSE {}
  IN  /\ task.at = "copy"
      /\ task.kind = "recover" =>
           /\ Cardinality(Healthy(h)) < Desired(h)
           /\ s \notin Servers(List(h))
      /\ \/ /\ h \in DOMAIN disk[task.from]
            /\ disk' = [disk EXCEPT ![s] = Put(@, h, old)]
            /\ task' = [task EXCEPT
                 !.data = disk[task.from][h],
                 !.at = IF disk[task.from][h] = {} THEN "register"
                        ELSE "write"]
         \/ /\ \/ /\ h \in DOMAIN disk[task.from]
                  /\ disk' = [disk EXCEPT ![s] = Put(@, h, old)]
               \/ UNCHANGED disk
            /\ task' = NextDestination
      /\ UNCHANGED <<tables, replicas, heard, endpoints, rpc, beat, restarts>>

\* The bytes go to the beginning of the file, which may be longer.
WriteCopy ==
  LET h == task.chunk
      s == Head(task.to)
  IN  /\ task.at = "write"
      /\ \/ /\ h \in DOMAIN disk[s]
            /\ \E tail \in {{}, disk[s][h]} :
                 disk' = [disk EXCEPT ![s][h] = task.data \cup tail]
            /\ \/ task' = [task EXCEPT !.at = "register"]
               \/ task' = NextDestination
         \/ /\ task' = NextDestination
            /\ UNCHANGED disk
      /\ UNCHANGED <<tables, replicas, heard, endpoints, rpc, beat, restarts>>

\* RegisterReplica returns false for a server that a heartbeat has listed in
\* the meantime: a move ends there, with the replica on both servers.
RegisterCopy ==
  LET h == task.chunk
      s == Head(task.to)
  IN  /\ task.at = "register"
      /\ replicas' = WithList(h, Registered(List(h), s, task.lead))
      /\ task' = IF task.kind = "move" /\ s \notin Servers(List(h))
                 THEN [task EXCEPT !.at = "remove"] ELSE NextDestination
      /\ UNCHANGED <<tables, heard, endpoints, rpc, beat, disk, restarts>>

-----------------------------------------------------------------------------
(* Rebalancing.                                                            *)

MayMove(h, s, t) ==
  /\ Alive(s) /\ HasChunkserver(s) /\ s \in Servers(List(h))
  /\ ~IsStaleReplica(h, s)
  /\ Alive(t) /\ HasChunkserver(t) /\ t \notin Servers(List(h))
  /\ s \in Primaries(List(h)) => Len(List(h)) = 1

\* Rebalancer.Plan: from the server with the most chunks to the one with the
\* fewest.  The loads are not those after the moves planned so far, so every
\* chunk that may move is planned to.
Rebalance ==
  LET sound == {s \in LiveServers : Alive(s) /\ HasChunkserver(s)}
      load(s) == Cardinality(ChunksOn(s))
  IN  /\ "move" \in Job
      /\ task.at = "idle"
      /\ \E from, to \in sound :
           /\ \A s \in sound \ {from} :
                load(s) < load(from) \/ (load(s) = load(from) /\ from < s)
           /\ \A s \in sound \ {to} :
                load(to) < load(s) \/ (load(s) = load(to) /\ to < s)
           /\ load(from) > load(to) + 1
           /\ task' = [NoTask EXCEPT
                !.at = "move", !.kind = "move", !.from = from, !.to = <<to>>,
                !.rest = {h \in ChunksOn(from) : MayMove(h, from, to)}]
      /\ UNCHANGED <<tables, replicas, heard, endpoints, rpc, beat, disk, restarts>>

\* ExecuteMove of the next chunk, up to the transfer.
StartMove ==
  /\ task.at = "move"
  /\ \/ /\ task.rest = {}
        /\ task' = NoTask
     \/ \E h \in task.rest :
          /\ \A g \in task.rest : h <= g
          /\ task' = [task EXCEPT
               !.at = IF MayMove(h, task.from, Head(task.to))
                      THEN "copy" ELSE "move",
               !.chunk = h,
               !.lead = task.from \in Primaries(List(h)),
               !.rest = @ \ {h}]
  /\ UNCHANGED <<tables, replicas, heard, endpoints, rpc, beat, disk, restarts>>

\* The source is no longer a replica; when it was not one any more, neither
\* is the destination.
RemoveMoved ==
  LET h == task.chunk
      t == Head(task.to)
      moved == WithoutReplica(h, task.from)
  IN  /\ task.at = "remove"
      /\ replicas' =
           IF task.from \notin Servers(List(h)) THEN WithoutReplica(h, t)
           ELSE IF task.lead /\ h \in DOMAIN moved
           THEN [moved EXCEPT ![h] = WithPrimary(@, t)]
           ELSE moved
      /\ task' = NextDestination
      /\ UNCHANGED <<tables, heard, endpoints, rpc, beat, disk, restarts>>

-----------------------------------------------------------------------------
(* The master stops and starts.                                            *)

\* A checkpoint does not hold the next handle.  One that no restart follows
\* makes no difference.
CreateCheckpoint ==
  /\ restarts < MaxRestarts
  /\ \E n \in {0} \cup DOMAIN chunks :
       (\A h \in DOMAIN chunks : h <= n) /\ recovered' = n + 1
  /\ recovered' # recovered
  /\ UNCHANGED <<chunks, next, generation, allocated, replicas, heard,
                 endpoints, rpc, task, beat, disk, restarts>>

\* The tables come back from the log, what is known of chunkservers does not.
RestartMaster ==
  /\ restarts < MaxRestarts
  /\ restarts' = restarts + 1
  /\ next' = recovered
  /\ replicas' = <<>> /\ heard' = <<>> /\ endpoints' = {}
  /\ rpc' = NoRpc /\ task' = NoTask
  /\ beat' = [s \in Server |-> "idle"]
  /\ UNCHANGED <<chunks, recovered, generation, allocated, disk>>

-----------------------------------------------------------------------------

Heartbeat(s) ==
  HearHeartbeat(s) \/ ListReported(s) \/ RegisterEndpoint(s)

Maintain ==
  \/ \E h \in Handle : StartRecovery(h)
  \/ DropDead \/ ChooseSource \/ PurgeStale
  \/ Rebalance \/ StartMove
  \/ SkipCopy \/ BeginCopy \/ WriteCopy \/ RegisterCopy \/ RemoveMoved

Next ==
  \/ \E s \in Server : Heartbeat(s) \/ TimeOut(s)
  \/ DetectFailedServers
  \/ \E factor \in FileFactor : BeginAllocate(factor)
  \/ CreateReplica \/ UndoPlacement \/ EndAllocate
  \/ \E h \in Handle : DeleteFile(h) \/ SetChunkVersion(h)
  \/ \E s \in Server, h \in Handle, g \in Generation : WriteChunk(s, h, g)
  \/ Maintain
  \/ CreateCheckpoint \/ RestartMaster

Spec == Init /\ [][Next]_vars

\* The handler of a heartbeat returns.
Fairness ==
  \A s \in Server : WF_vars(ListReported(s)) /\ WF_vars(RegisterEndpoint(s))

FairSpec == Spec /\ Fairness

-----------------------------------------------------------------------------
(* Properties.                                                             *)

\* A chunk whose allocation was reported to have succeeded has a file on
\* every server that the master lists for it, at any later time: no failed
\* transfer, late heartbeat or restart lists a server that has none.
AllocatedChunksExist ==
  \A h \in allocated \cap DOMAIN chunks : \A s \in Servers(List(h)) :
    h \in DOMAIN disk[s]

\* Until the master restarts, a file listed for a chunk holds nothing that
\* was written to another chunk, what clients with old locations write
\* included.
OwnDataOnly ==
  restarts = 0 =>
    \A h \in DOMAIN chunks : \A s \in Servers(List(h)) :
      h \in DOMAIN disk[s] => disk[s][h] \subseteq {generation[h]}

\* The location of a chunk can be given to clients: GetChunkLocations fails
\* for the whole chunk when one replica has no endpoint, which is so only
\* while that server's heartbeat is being processed.
LocationsServable ==
  \A h \in DOMAIN replicas : \A s \in Servers(replicas[h]) \ Attached :
    s \in endpoints \/ beat[s] \in {"heard", "listed"}

\* A move takes a replica off the list only when the server it moves to is
\* listed and has the file, whatever heartbeats, timeouts and requests came
\* since the move was planned (phase15_test.cpp:672,
\* RebalancingPreservesReplicationFactor).
ReplacedBeforeDropped ==
  [][\A h \in DOMAIN chunks \cap allocated : \A s \in Servers(List(h)) :
       (task.kind = "move" /\ Maintain /\ s \notin Servers(List(h)')) =>
         LET t == Head(task.to)
         IN  t # s /\ t \in Servers(List(h)') /\ h \in DOMAIN disk[t]]_vars

\* Chunk locations are not persistent; the master learns them from heartbeats
\* (README.md:654).  As long as a server is heard of, each chunk it has a file
\* of is listed again and again, whatever restarts, deletions, timeouts and
\* recoveries come in between.
CopiesComeBack ==
  \A s \in Server, h \in Handle :
    /\ []<>(beat[s] = "heard")
    /\ <>[](h \in DOMAIN disk[s])
    => []<>(s \in Servers(List(h)))

\* "The network chunkservers still need an actual empty chunk before a client
\* can issue the first WriteChunk RPC." (master_service.cpp:604)  The chunk
\* that AllocateChunk has created on a server is empty: until the master
\* restarts, whatever recovery and rebalancing do; and, where neither runs (no
\* server schedules them), even if a restart gives its handle out again and
\* the server has kept the old file.  A copy made beside an allocation of a
\* handle that was given out before is not excluded.
FreshChunksEmpty ==
  [][(/\ restarts = 0 \/ Job = {}
      /\ rpc.at = "create" /\ rpc'.at = "create" /\ rpc'.i > rpc.i) =>
       disk'[rpc.place[rpc.i]][rpc.chunk] = {}]_vars

=============================================================================
