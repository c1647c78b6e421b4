--------------------------- MODULE ClusterProofs ---------------------------
(***************************************************************************)
(* For every number of chunkservers, chunks, versions and restarts, and    *)
(* whatever heartbeats, requests, recovery and rebalancing do in between:  *)
(* the types, that the locations the master has can be served, that every  *)
(* server listed for an allocated chunk has it, that a move drops a        *)
(* replica only after another took its place, whose data a listed file     *)
(* holds, and that a chunk is created empty.                               *)
(***************************************************************************)
EXTENDS Cluster, ReplicasProofs, FiniteSetTheorems

Listed(h) == Servers(List(h))
Has(h, s) == s \in DOMAIN disk /\ h \in DOMAIN disk[s]
Known(s) == s \in Attached \/ s \in endpoints \/ beat[s] \in {"heard", "listed"}

-----------------------------------------------------------------------------
(* The inductive invariant, in the parts that actions change together.     *)

TablesOK ==
  /\ DOMAIN chunks \subseteq Handle /\ chunks \in [DOMAIN chunks -> Chunk]
  /\ next \in 1..MaxHandle + 1 /\ recovered \in 1..next
  /\ \A h \in DOMAIN chunks : h < recovered
  /\ generation \in [Handle -> 0..MaxGeneration]
  /\ allocated \subseteq Handle

ListsOK ==
  /\ DOMAIN replicas \subseteq Handle
  /\ \A h \in DOMAIN replicas :
       replicas[h] \in Seq(Entry(Server)) /\ IsReplicaList(replicas[h])

HeardOK ==
  /\ DOMAIN heard \subseteq Server /\ heard \in [DOMAIN heard -> ServerState]
  /\ endpoints \subseteq Server
  /\ beat \in [Server -> {"idle", "heard", "listed"}]
  /\ \A s \in Server : beat[s] = "heard" => s \in DOMAIN heard

RpcOK ==
  /\ rpc \in Rpc
  /\ rpc.at # "idle" =>
       /\ rpc.chunk \in Handle /\ rpc.chunk < next /\ rpc.chunk \notin allocated
       /\ rpc.i \in 1..Len(rpc.place) + 1
  /\ rpc.at = "undo" => rpc.i <= Len(rpc.place)

TaskOK ==
  /\ task \in Task
  /\ task.at \notin {"idle", "move"} => task.chunk \in Handle
  /\ task.at \in {"move", "copy", "write", "register", "remove"} =>
       task.to # <<>> /\ task.from \in Server
  /\ task.at = "purge" /\ task.to # <<>> => task.from \in Server
  /\ task.at \in {"move", "remove"} => task.kind = "move"
  /\ task.at \in {"drop", "purge"} => task.kind = "recover"

DiskOK ==
  /\ DOMAIN disk = Server /\ disk = [s \in Server |-> disk[s]]
  /\ \A s \in Server : /\ DOMAIN disk[s] \subseteq Handle
                       /\ disk[s] \in [DOMAIN disk[s] -> File]

\* Everyone the master may put on a list can be given to clients.
KnownOK ==
  /\ \A h \in Handle : \A s \in Listed(h) : Known(s)
  /\ \A s \in DOMAIN heard : Known(s)
  /\ \A i \in DOMAIN task.to : Known(task.to[i])

\* Who is listed has the file: for an allocated chunk, for a handle that is
\* still to be given out, and, except for those that are still to be asked,
\* for the chunk that is being allocated.
ExistOK ==
  /\ \A h \in allocated : \A s \in Listed(h) : Has(h, s)
  /\ \A h \in Handle : h >= next => \A s \in Listed(h) : Has(h, s)
  /\ rpc.at = "create" =>
       /\ \A s \in Listed(rpc.chunk) :
            Has(rpc.chunk, s) \/ \E i \in DOMAIN rpc.place : s = rpc.place[i]
       /\ \A i \in 1..rpc.i - 1 : Has(rpc.chunk, rpc.place[i])
  /\ \A s \in DOMAIN heard : \A h \in heard[s].reported : Has(h, s)
  /\ task.at \in {"register", "remove"} => Has(task.chunk, Head(task.to))

\* The chunk of a move is neither deleted nor given up.
Kept(h) ==
  \/ h \in allocated /\ h \in DOMAIN chunks
  \/ h >= next
  \/ rpc.at = "create" /\ rpc.chunk = h

MoveOK ==
  (task.kind = "move" /\ task.at \in {"copy", "write", "register", "remove"}) =>
    /\ task.from # Head(task.to)
    /\ Kept(task.chunk) =>
         /\ task.from \in Listed(task.chunk)
         /\ task.at = "remove" => Head(task.to) \in Listed(task.chunk)

IInv ==
  /\ TablesOK /\ ListsOK /\ HeardOK /\ RpcOK /\ TaskOK /\ DiskOK
  /\ KnownOK /\ ExistOK /\ MoveOK

-----------------------------------------------------------------------------
(* Lists.                                                                  *)

\* What is known of the list of a chunk, listed or not.
LEMMA ListSound ==
  ASSUME ListsOK, NEW h
  PROVE  /\ List(h) \in Seq(Entry(Server))
         /\ List(h) = <<>> \/ IsReplicaList(List(h))
         /\ Listed(h) \subseteq Server
         /\ h \notin Handle => Listed(h) = {}
<1>1. <<>> \in Seq(Entry(Server)) /\ DOMAIN <<>> = {}
  OBVIOUS
<1>2. /\ List(h) \in Seq(Entry(Server))
      /\ List(h) = <<>> \/ IsReplicaList(List(h))
  BY <1>1 DEF List, ListsOK
<1>3. Listed(h) \subseteq Server
  <2>1. \A i \in DOMAIN List(h) : List(h)[i] \in Entry(Server)
    BY <1>2, LenProperties, ElementOfSeq
  <2> QED BY <2>1 DEF Listed, Servers, Entry
<1>4. h \notin Handle => Listed(h) = {}
  BY <1>1 DEF List, ListsOK, Listed, Servers
<1> QED BY <1>2, <1>3, <1>4

\* Replacing one list changes no other.
LEMMA WithListOK ==
  ASSUME ListsOK, NEW h \in Handle, NEW rs \in Seq(Entry(Server)),
         rs = <<>> \/ IsReplicaList(rs), replicas' = WithList(h, rs)
  PROVE  /\ ListsOK'
         /\ \A g : List(g)' = IF g = h THEN rs ELSE List(g)
         /\ \A g : Listed(g)' = IF g = h THEN Servers(rs) ELSE Listed(g)
<1>1. CASE rs = <<>>
  <2>1. replicas' = [g \in DOMAIN replicas \ {h} |-> replicas[g]]
    BY <1>1 DEF WithList, Drop
  <2>2. ListsOK'
    BY <2>1 DEF ListsOK
  <2>3. \A g : List(g)' = IF g = h THEN rs ELSE List(g)
    BY <1>1, <2>1 DEF List
  <2> QED BY <2>2, <2>3 DEF Listed
<1>2. CASE rs # <<>>
  <2>1. replicas' = [g \in {h} \cup DOMAIN replicas |->
                       IF g = h THEN rs ELSE replicas[g]]
    BY <1>2 DEF WithList, Put
  <2>2. ListsOK'
    BY <1>2, <2>1 DEF ListsOK
  <2>3. \A g : List(g)' = IF g = h THEN rs ELSE List(g)
    BY <1>2, <2>1 DEF List
  <2> QED BY <2>2, <2>3 DEF Listed
<1> QED BY <1>1, <1>2

\* Removing a server from a list.
LEMMA WithoutReplicaOK ==
  ASSUME ListsOK, NEW h \in Handle, NEW s, replicas' = WithoutReplica(h, s)
  PROVE  /\ ListsOK'
         /\ \A g : Listed(g)' \subseteq Listed(g)
         /\ \A g : g # h => Listed(g)' = Listed(g)
         /\ Listed(h) \ {s} \subseteq Listed(h)'
<1>1. CASE s \in Servers(List(h))
  <2> DEFINE rs == Unregistered(List(h), s)
  <2>1. replicas' = WithList(h, rs)
    BY <1>1 DEF WithoutReplica
  <2>2. List(h) \in Seq(Entry(Server)) /\ IsReplicaList(List(h))
    <3>1. List(h) # <<>>
      BY <1>1 DEF Servers
    <3> QED BY <3>1, ListSound
  <2>3. /\ rs \in Seq(Entry(Server)) /\ (rs = <<>> \/ IsReplicaList(rs))
        /\ Servers(rs) \subseteq Servers(List(h))
        /\ Servers(List(h)) \ {s} \subseteq Servers(rs)
    BY <1>1, <2>2, UnregisteredSound
  <2> HIDE DEF rs
  <2>4. /\ ListsOK'
        /\ \A g : Listed(g)' = IF g = h THEN Servers(rs) ELSE Listed(g)
    BY <2>1, <2>3, WithListOK
  <2> QED BY <2>3, <2>4 DEF Listed
<1>2. CASE s \notin Servers(List(h))
  <2>1. replicas' = replicas
    BY <1>2 DEF WithoutReplica
  <2> QED BY <2>1 DEF ListsOK, Listed, List
<1> QED BY <1>1, <1>2

\* Adding a server to a list.
LEMMA RegisteredOK ==
  ASSUME ListsOK, NEW h, NEW s \in Server, NEW primary \in BOOLEAN
  PROVE  /\ Registered(List(h), s, primary) \in Seq(Entry(Server))
         /\ IsReplicaList(Registered(List(h), s, primary))
         /\ Servers(Registered(List(h), s, primary)) = Listed(h) \cup {s}
<1> DEFINE rs == List(h)
<1>1. rs \in Seq(Entry(Server)) /\ (rs = <<>> \/ IsReplicaList(rs))
  BY ListSound
<1>2. Listed(h) = Servers(rs)
  BY DEF Listed
<1> HIDE DEF rs
<1>3. /\ Registered(rs, s, primary) \in Seq(Entry(Server))
      /\ IsReplicaList(Registered(rs, s, primary))
      /\ Servers(Registered(rs, s, primary)) = Servers(rs) \cup {s}
  BY <1>1, RegisteredSound
<1> QED BY <1>2, <1>3 DEF rs

\* A step that leaves the lists alone.
LEMMA ListsKept ==
  ASSUME ListsOK, UNCHANGED replicas
  PROVE  ListsOK' /\ \A g : Listed(g)' = Listed(g)
BY DEF ListsOK, Listed, List

\* The parts of the invariant that speak of nothing a step changes.
LEMMA PartsKept ==
  ASSUME IInv
  PROVE  /\ UNCHANGED tables => TablesOK'
         /\ UNCHANGED replicas => ListsOK' /\ \A g : Listed(g)' = Listed(g)
         /\ UNCHANGED <<heard, endpoints, beat>> => HeardOK'
         /\ UNCHANGED <<rpc, next, allocated>> => RpcOK'
         /\ UNCHANGED task => TaskOK'
         /\ UNCHANGED disk => DiskOK' /\ \A h, s : Has(h, s)' = Has(h, s)
         /\ UNCHANGED <<endpoints, beat>> => \A s : Known(s)' = Known(s)
         /\ UNCHANGED <<chunks, next, allocated, rpc>> =>
              \A h : Kept(h)' = Kept(h)
<1>1. UNCHANGED tables => TablesOK'
  BY DEF IInv, tables, TablesOK
<1>2. UNCHANGED replicas => ListsOK' /\ \A g : Listed(g)' = Listed(g)
  BY ListsKept DEF IInv
<1>3. UNCHANGED <<heard, endpoints, beat>> => HeardOK'
  BY DEF IInv, HeardOK
<1>4. UNCHANGED <<rpc, next, allocated>> => RpcOK'
  BY DEF IInv, RpcOK
<1>5. UNCHANGED task => TaskOK'
  BY DEF IInv, TaskOK
<1>6. UNCHANGED disk => DiskOK' /\ \A h, s : Has(h, s)' = Has(h, s)
  BY DEF IInv, DiskOK, Has
<1>7. UNCHANGED <<endpoints, beat>> => \A s : Known(s)' = Known(s)
  BY DEF Known
<1>8. UNCHANGED <<chunks, next, allocated, rpc>> => \A h : Kept(h)' = Kept(h)
  BY DEF Kept
<1> QED BY <1>1, <1>2, <1>3, <1>4, <1>5, <1>6, <1>7, <1>8

-----------------------------------------------------------------------------
(* Heartbeats.                                                             *)

\* HearHeartbeat keeps the invariant.
LEMMA HearHeartbeatOK ==
  ASSUME IInv, NEW s \in Server, HearHeartbeat(s)
  PROVE  IInv'
<1> DEFINE state == [alive |-> TRUE, fresh |-> TRUE, reported |-> DOMAIN disk[s]]
<1>1. /\ heard' = Put(heard, s, state)
      /\ beat' = [beat EXCEPT ![s] = "heard"]
      /\ UNCHANGED tables /\ UNCHANGED <<replicas, endpoints, rpc, task, disk>>
      /\ UNCHANGED <<chunks, next, recovered, generation, allocated>>
  BY DEF HearHeartbeat, tables
<1>2. /\ TablesOK' /\ ListsOK' /\ RpcOK' /\ TaskOK' /\ DiskOK'
      /\ \A g : Listed(g)' = Listed(g)
      /\ \A g, t : Has(g, t)' = Has(g, t)
      /\ \A h : Kept(h)' = Kept(h)
  BY <1>1, PartsKept
<1>3. state \in ServerState /\ state.reported = DOMAIN disk[s]
  BY DEF ServerState, IInv, DiskOK
<1> HIDE DEF state
<1>4. HeardOK'
  BY <1>1, <1>3 DEF IInv, HeardOK, Put
<1>5. KnownOK'
  <2>1. \A t : Known(t) => Known(t)'
    BY <1>1 DEF Known, IInv, HeardOK
  <2>2. Known(s)'
    BY <1>1 DEF Known, IInv, HeardOK
  <2>3. \A t \in DOMAIN heard' : t \in DOMAIN heard \/ t = s
    BY <1>1 DEF Put
  <2> QED BY <1>1, <1>2, <2>1, <2>2, <2>3 DEF IInv, KnownOK
<1>6. ExistOK'
  <2>1. \A t \in DOMAIN heard' : \A h \in heard'[t].reported : Has(h, t)
    BY <1>1, <1>3 DEF Put, Has, IInv, ExistOK, DiskOK
  <2> QED BY <1>1, <1>2, <2>1 DEF IInv, ExistOK
<1>7. MoveOK'
  BY <1>1, <1>2 DEF IInv, MoveOK
<1> QED BY <1>2, <1>4, <1>5, <1>6, <1>7 DEF IInv

\* ListReported puts the server on the list of every chunk it reported.
LEMMA ListReportedLists ==
  ASSUME IInv, NEW s \in Server, ListReported(s)
  PROVE  /\ ListsOK'
         /\ \A g : Listed(g)' =
              IF g \in heard[s].reported THEN Listed(g) \cup {s} ELSE Listed(g)
<1> DEFINE sent == heard[s].reported
<1>1. replicas' = [h \in DOMAIN replicas \cup sent |->
                     IF h \in sent THEN Registered(List(h), s, FALSE)
                     ELSE List(h)]
  BY DEF ListReported
<1>2. sent \subseteq Handle
  BY DEF ListReported, IInv, HeardOK, ServerState
<1> HIDE DEF sent
<1>3. \A g \in sent :
        /\ Registered(List(g), s, FALSE) \in Seq(Entry(Server))
        /\ IsReplicaList(Registered(List(g), s, FALSE))
        /\ Servers(Registered(List(g), s, FALSE)) = Listed(g) \cup {s}
  BY RegisteredOK DEF IInv
<1>4. DOMAIN replicas \subseteq Handle
  BY DEF IInv, ListsOK
<1>5. ListsOK'
  <2>1. ASSUME NEW h \in DOMAIN replicas'
        PROVE  replicas'[h] \in Seq(Entry(Server)) /\ IsReplicaList(replicas'[h])
    BY <1>1, <1>3 DEF IInv, ListsOK, List
  <2> QED BY <1>1, <1>2, <1>4, <2>1 DEF ListsOK
<1>6. ASSUME NEW g
      PROVE  Listed(g)' = IF g \in sent THEN Listed(g) \cup {s} ELSE Listed(g)
  <2>1. List(g)' = IF g \in sent THEN Registered(List(g), s, FALSE) ELSE List(g)
    BY <1>1 DEF List
  <2> QED BY <1>3, <2>1 DEF Listed
<1> QED BY <1>5, <1>6 DEF sent

\* ListReported keeps the invariant.
LEMMA ListReportedOK ==
  ASSUME IInv, NEW s \in Server, ListReported(s)
  PROVE  IInv'
<1>1. /\ beat[s] = "heard" /\ beat' = [beat EXCEPT ![s] = "listed"]
      /\ UNCHANGED tables /\ UNCHANGED <<heard, endpoints, rpc, task, disk>>
      /\ UNCHANGED <<chunks, next, recovered, generation, allocated>>
  BY DEF ListReported, tables
<1>2. /\ TablesOK' /\ RpcOK' /\ TaskOK' /\ DiskOK'
      /\ \A g, t : Has(g, t)' = Has(g, t)
      /\ \A h : Kept(h)' = Kept(h)
  BY <1>1, PartsKept
<1> DEFINE sent == heard[s].reported
<1>3. s \in DOMAIN heard /\ Known(s)
  BY <1>1 DEF IInv, HeardOK, Known
<1>4. \A h \in sent : Has(h, s)
  BY <1>3 DEF IInv, ExistOK
<1>5. /\ ListsOK'
      /\ \A g : Listed(g)' = IF g \in sent THEN Listed(g) \cup {s} ELSE Listed(g)
  BY ListReportedLists
<1> HIDE DEF sent
<1>6. HeardOK' /\ \A t : Known(t) => Known(t)'
  BY <1>1 DEF IInv, HeardOK, Known
<1>7. KnownOK'
  BY <1>1, <1>3, <1>5, <1>6 DEF IInv, KnownOK
<1>8. ExistOK'
  BY <1>1, <1>2, <1>4, <1>5 DEF IInv, ExistOK
<1>9. MoveOK'
  BY <1>1, <1>2, <1>5 DEF IInv, MoveOK
<1> QED BY <1>2, <1>5, <1>6, <1>7, <1>8, <1>9 DEF IInv

\* RegisterEndpoint keeps the invariant.
LEMMA RegisterEndpointOK ==
  ASSUME IInv, NEW s \in Server, RegisterEndpoint(s)
  PROVE  IInv'
<1>1. /\ endpoints' = endpoints \cup ({s} \ Attached)
      /\ beat' = [beat EXCEPT ![s] = "idle"]
      /\ UNCHANGED tables /\ UNCHANGED <<replicas, heard, rpc, task, disk>>
      /\ UNCHANGED <<chunks, next, recovered, generation, allocated>>
  BY DEF RegisterEndpoint, tables
<1>2. /\ TablesOK' /\ ListsOK' /\ RpcOK' /\ TaskOK' /\ DiskOK'
      /\ \A g : Listed(g)' = Listed(g)
      /\ \A g, t : Has(g, t)' = Has(g, t)
      /\ \A h : Kept(h)' = Kept(h)
  BY <1>1, PartsKept
<1>3. HeardOK' /\ \A t : Known(t) => Known(t)'
  BY <1>1 DEF IInv, HeardOK, Known
<1>4. KnownOK' /\ ExistOK' /\ MoveOK'
  BY <1>1, <1>2, <1>3 DEF IInv, KnownOK, ExistOK, MoveOK
<1> QED BY <1>2, <1>3, <1>4 DEF IInv

\* A step that changes nothing but what is known of the state of the servers
\* that were heard of, and not what they reported.
LEMMA StatesOK ==
  ASSUME IInv, NEW f \in [DOMAIN heard -> ServerState], heard' = f,
         \A s \in DOMAIN heard : f[s].reported = heard[s].reported,
         UNCHANGED <<tables, replicas, endpoints, rpc, task, beat, disk>>
  PROVE  IInv'
<1>1. /\ UNCHANGED tables
      /\ UNCHANGED <<replicas, endpoints, rpc, task, beat, disk>>
      /\ UNCHANGED <<chunks, next, recovered, generation, allocated>>
  BY DEF tables
<1>2. /\ TablesOK' /\ ListsOK' /\ RpcOK' /\ TaskOK' /\ DiskOK'
      /\ \A g : Listed(g)' = Listed(g)
      /\ \A g, t : Has(g, t)' = Has(g, t)
      /\ \A h : Kept(h)' = Kept(h)
      /\ \A s : Known(s)' = Known(s)
  BY <1>1, PartsKept
<1>3. DOMAIN heard' = DOMAIN heard /\ heard' \in [DOMAIN heard -> ServerState]
  OBVIOUS
<1>4. HeardOK'
  BY <1>1, <1>3 DEF IInv, HeardOK
<1>5. KnownOK' /\ ExistOK' /\ MoveOK'
  BY <1>1, <1>2, <1>3 DEF IInv, KnownOK, ExistOK, MoveOK
<1> QED BY <1>2, <1>4, <1>5 DEF IInv

\* TimeOut keeps the invariant.
LEMMA TimeOutOK ==
  ASSUME IInv, NEW s \in Server, TimeOut(s)
  PROVE  IInv'
<1> DEFINE f == [heard EXCEPT ![s].fresh = FALSE]
<1>1. heard \in [DOMAIN heard -> ServerState] /\ s \in DOMAIN heard
  BY DEF IInv, HeardOK, TimeOut
<1>2. /\ f \in [DOMAIN heard -> ServerState]
      /\ \A t \in DOMAIN heard : f[t].reported = heard[t].reported
  BY <1>1 DEF ServerState
<1> QED BY <1>2, StatesOK DEF TimeOut

\* DetectFailedServers keeps the invariant.
LEMMA DetectFailedServersOK ==
  ASSUME IInv, DetectFailedServers
  PROVE  IInv'
<1> DEFINE f == [s \in DOMAIN heard |->
                   [heard[s] EXCEPT !.alive = @ /\ heard[s].fresh]]
<1>1. \A s \in DOMAIN heard : heard[s] \in ServerState
  BY DEF IInv, HeardOK
<1>2. \A s \in DOMAIN heard :
        (heard[s].alive /\ heard[s].fresh) \in BOOLEAN
  OBVIOUS
<1>3. /\ f \in [DOMAIN heard -> ServerState]
      /\ \A t \in DOMAIN heard : f[t].reported = heard[t].reported
  BY <1>1, <1>2 DEF ServerState
<1> QED BY <1>3, StatesOK DEF DetectFailedServers

-----------------------------------------------------------------------------
(* Requests.                                                               *)

\* What Select returns names each of the candidates at most once.
LEMMA SelectSound ==
  ASSUME NEW c, NEW n \in Int
  PROVE  Select(c, n) \in Seq(c) /\ IsInjective(Select(c, n))
<1> DEFINE before(s, t) ==
             \/ Cardinality(ChunksOn(s)) < Cardinality(ChunksOn(t))
             \/ /\ Cardinality(ChunksOn(s)) = Cardinality(ChunksOn(t))
                /\ s < t
           left(p, i) == c \ {p[j] : j \in 1..i - 1}
           selections ==
             {p \in [1..n -> c] : \A i \in 1..n :
                /\ p[i] \in left(p, i)
                /\ \A s \in left(p, i) \ {p[i]} : before(p[i], s)}
<1>1. Select(c, n) =
        IF selections = {} THEN <<>> ELSE CHOOSE p \in selections : TRUE
  BY DEF Select
<1>2. CASE selections = {}
  <2>1. <<>> \in Seq(c) /\ DOMAIN <<>> = {}
    OBVIOUS
  <2>2. Select(c, n) = <<>>
    BY <1>1, <1>2
  <2> QED BY <2>1, <2>2 DEF IsInjective
<1>3. ASSUME NEW p \in selections
      PROVE  p \in Seq(c) /\ IsInjective(p)
  <2>1. /\ p \in [1..n -> c]
        /\ \A i \in 1..n : p[i] \in left(p, i)
    OBVIOUS
  <2>2. \A i \in 1..n : \A j \in 1..i - 1 : p[i] # p[j]
    BY <2>1
  <2>3. p \in Seq(c)
    <3>1. CASE n \in Nat
      BY <2>1, <3>1, SeqDef
    <3>2. CASE n \notin Nat
      <4>1. 1..n = 1..0
        BY <3>2
      <4> QED BY <2>1, <4>1, SeqDef
    <3> QED BY <3>1, <3>2
  <2>4. \A i, j \in 1..n : i # j => p[i] # p[j]
    <3>1. \A i, j \in 1..n : i < j => p[i] # p[j]
      BY <2>2
    <3>2. \A i, j \in 1..n : i < j \/ j < i \/ i = j
      OBVIOUS
    <3> QED BY <3>1, <3>2
  <2> QED BY <2>1, <2>3, <2>4 DEF IsInjective
<1> QED BY <1>1, <1>2, <1>3

\* The chunk files of one server change, and at most the chunk h is added.
LEMMA DiskChanged ==
  ASSUME DiskOK, NEW s \in Server, NEW h \in Handle,
         NEW f \in [DOMAIN disk[s] \cup {h} -> File],
         disk' = [disk EXCEPT ![s] = f]
  PROVE  /\ DiskOK'
         /\ \A g, t : Has(g, t)' <=> Has(g, t) \/ (g = h /\ t = s)
<1>1. DOMAIN disk = Server /\ DOMAIN disk' = Server
  BY DEF DiskOK
<1>2. disk'[s] = f /\ \A t \in Server \ {s} : disk'[t] = disk[t]
  BY <1>1
<1>3. DOMAIN f = DOMAIN disk[s] \cup {h}
  OBVIOUS
<1>4. DiskOK'
  BY <1>1, <1>2, <1>3 DEF DiskOK
<1>5. \A g, t : Has(g, t)' <=> Has(g, t) \/ (g = h /\ t = s)
  BY <1>1, <1>2, <1>3 DEF Has
<1> QED BY <1>4, <1>5

\* BeginAllocate keeps the invariant.
LEMMA BeginAllocateOK ==
  ASSUME IInv, NEW factor \in FileFactor, BeginAllocate(factor)
  PROVE  IInv'
<1> DEFINE place == Select(LiveServers, PolicyFactor)
           rs == RegisteredAll(List(next), place)
<1>1. /\ next <= MaxHandle
      /\ chunks' = Put(chunks, next, [factor |-> factor, version |-> 1])
      /\ generation[next] < MaxGeneration
      /\ generation' = [generation EXCEPT ![next] = @ + 1]
      /\ next' = next + 1 /\ recovered' = next + 1
      /\ allocated' = allocated \ {next}
      /\ replicas' = WithList(next, rs)
      /\ UNCHANGED <<heard, endpoints, task, beat, disk>>
      /\ \/ rpc' = [at |-> "create", chunk |-> next, place |-> place, i |-> 1]
         \/ rpc' = NoRpc
  BY DEF BeginAllocate
<1>2. /\ HeardOK' /\ TaskOK' /\ DiskOK'
      /\ \A g, t : Has(g, t)' = Has(g, t)
      /\ \A s : Known(s)' = Known(s)
  BY <1>1, PartsKept
<1>3. next \in Handle /\ next \in 1..MaxHandle + 1 /\ recovered \in 1..next
      /\ MaxHandle \in Nat
  BY <1>1, ClusterAssumption DEF IInv, TablesOK, Handle
<1>4. place \in Seq(Server) /\ IsInjective(place)
      /\ \A i \in DOMAIN place : place[i] \in LiveServers
  <2>1. place \in Seq(LiveServers) /\ IsInjective(place)
    BY SelectSound, ClusterAssumption
  <2>2. LiveServers \subseteq Server
    BY DEF LiveServers, IInv, HeardOK
  <2> HIDE DEF place
  <2>3. \A i \in DOMAIN place : place[i] \in LiveServers
    BY <2>1, LenProperties, ElementOfSeq
  <2>4. place \in Seq(Server)
    BY <2>1, <2>2
  <2> QED BY <2>1, <2>3, <2>4
<1> HIDE DEF place
<1>5. /\ rs \in Seq(Entry(Server)) /\ (rs = <<>> \/ IsReplicaList(rs))
      /\ Listed(next) \subseteq Servers(rs)
      /\ Servers(rs) \subseteq Listed(next) \cup {place[i] : i \in DOMAIN place}
  <2> DEFINE old == List(next)
  <2>1. old \in Seq(Entry(Server)) /\ (old = <<>> \/ IsReplicaList(old))
    BY ListSound DEF IInv
  <2>2. Listed(next) = Servers(old)
    BY DEF Listed
  <2> HIDE DEF old
  <2>3. /\ RegisteredAll(old, place) \in Seq(Entry(Server))
        /\ RegisteredAll(old, place) = <<>> \/ IsReplicaList(RegisteredAll(old, place))
        /\ Servers(old) \subseteq Servers(RegisteredAll(old, place))
        /\ Servers(RegisteredAll(old, place))
             \subseteq Servers(old) \cup {place[i] : i \in DOMAIN place}
    <3>1. CASE place = <<>>
      <4>1. RegisteredAll(old, place) = old
        BY <3>1 DEF RegisteredAll
      <4> QED BY <4>1, <2>1
    <3>2. CASE place # <<>>
      BY <3>2, <2>1, <1>4, RegisteredAllSound
    <3> QED BY <3>1, <3>2
  <2> QED BY <2>2, <2>3 DEF old
<1> HIDE DEF rs
<1>6. /\ ListsOK'
      /\ \A g : Listed(g)' = IF g = next THEN Servers(rs) ELSE Listed(g)
  BY <1>1, <1>3, <1>5, WithListOK DEF IInv
<1>7. TablesOK'
  <2>1. [factor |-> factor, version |-> 1] \in Chunk
    BY ClusterAssumption DEF Chunk
  <2>2. /\ DOMAIN chunks' = DOMAIN chunks \cup {next}
        /\ chunks' \in [DOMAIN chunks' -> Chunk]
    BY <1>1, <2>1 DEF Put, IInv, TablesOK
  <2>3. generation' \in [Handle -> 0..MaxGeneration]
    BY <1>1, <1>3, ClusterAssumption DEF IInv, TablesOK
  <2>4. /\ next' \in 1..MaxHandle + 1 /\ recovered' \in 1..next'
        /\ \A h \in DOMAIN chunks' : h < recovered'
    <3>1. \A h \in DOMAIN chunks : h \in Nat /\ h < recovered
      BY <1>3 DEF IInv, TablesOK, Handle
    <3>2. next \in Nat /\ recovered \in Nat /\ recovered <= next
      BY <1>3
    <3>3. \A h \in DOMAIN chunks' : h \in Nat /\ h < next + 1
      BY <2>2, <3>1, <3>2
    <3> QED BY <1>1, <1>3, <3>2, <3>3
  <2> QED BY <1>1, <1>3, <2>2, <2>3, <2>4 DEF IInv, TablesOK
<1>8. RpcOK'
  <2>1. CASE rpc' = NoRpc
    <3>1. <<>> \in Seq(Server)
      OBVIOUS
    <3> QED BY <2>1, <3>1 DEF RpcOK, NoRpc, Rpc
  <2>2. CASE rpc' = [at |-> "create", chunk |-> next, place |-> place, i |-> 1]
    <3>1. Len(place) \in Nat
      BY <1>4, LenProperties
    <3>2. /\ rpc'.at = "create" /\ rpc'.chunk = next /\ rpc'.place = place
          /\ rpc'.i = 1 /\ rpc' \in Rpc
      BY <2>2, <1>3, <1>4 DEF Rpc
    <3>3. next < next' /\ 1 \in 1..Len(place) + 1
      BY <1>1, <1>3, <3>1
    <3> QED BY <1>1, <1>3, <3>2, <3>3 DEF RpcOK
  <2> QED BY <1>1, <2>1, <2>2
<1>9. KnownOK'
  <2>1. \A i \in DOMAIN place : Known(place[i])
    BY <1>4 DEF LiveServers, IInv, KnownOK
  <2> QED BY <1>1, <1>2, <1>3, <1>5, <1>6, <2>1 DEF IInv, KnownOK
<1>10. ExistOK'
  <2>1. \A h \in allocated' : h # next /\ h \in allocated
    BY <1>1
  <2>2. \A h \in Handle : h >= next' => h # next /\ h >= next
    BY <1>1, <1>3 DEF Handle
  <2>3. \A s \in Listed(next) : Has(next, s)
    BY <1>3 DEF IInv, ExistOK
  <2>4. rpc'.at = "create" => rpc'.chunk = next /\ rpc'.place = place /\ rpc'.i = 1
    BY <1>1 DEF NoRpc
  <2>5. \A s \in Servers(rs) : Has(next, s) \/ \E i \in DOMAIN place : s = place[i]
    BY <1>5, <2>3
  <2>6. rpc'.at = "create" => 1..rpc'.i - 1 = {}
    BY <2>4
  <2>7. (rpc.at = "create" =>
          /\ \A s \in Listed(rpc.chunk) :
               Has(rpc.chunk, s) \/ \E i \in DOMAIN rpc.place : s = rpc.place[i]
          /\ \A i \in 1..rpc.i - 1 : Has(rpc.chunk, rpc.place[i]))'
    BY <1>2, <1>6, <2>4, <2>5, <2>6
  <2>8. /\ \A h \in allocated' : \A s \in Listed(h)' : Has(h, s)'
        /\ \A h \in Handle : h >= next' => \A s \in Listed(h)' : Has(h, s)'
    BY <1>2, <1>6, <2>1, <2>2 DEF IInv, ExistOK
  <2>9. /\ \A s \in DOMAIN heard' : \A h \in heard'[s].reported : Has(h, s)'
        /\ (task.at \in {"register", "remove"} => Has(task.chunk, Head(task.to)))'
    BY <1>1, <1>2 DEF IInv, ExistOK
  <2> QED BY <2>7, <2>8, <2>9 DEF ExistOK
<1>11. MoveOK'
  <2>1. \A h \in Handle : Kept(h)' => Kept(h)
    BY <1>1, <1>3 DEF Kept, Put, NoRpc, Handle
  <2>2. \A h : Listed(h) \subseteq Listed(h)'
    BY <1>5, <1>6
  <2>3. task.at # "idle" /\ task.at # "move" => task.chunk \in Handle
    BY DEF IInv, TaskOK
  <2> QED BY <1>1, <2>1, <2>2, <2>3 DEF IInv, MoveOK
<1> QED BY <1>2, <1>6, <1>7, <1>8, <1>9, <1>10, <1>11 DEF IInv

\* CreateReplica keeps the invariant.
LEMMA CreateReplicaOK ==
  ASSUME IInv, CreateReplica
  PROVE  IInv'
<1> DEFINE s == rpc.place[rpc.i]
           c == rpc.chunk
<1>1. /\ rpc.at = "create" /\ rpc.i <= Len(rpc.place)
      /\ UNCHANGED tables /\ UNCHANGED <<replicas, heard, endpoints, task, beat>>
      /\ UNCHANGED <<chunks, next, recovered, generation, allocated>>
      /\ \/ /\ disk' = [disk EXCEPT ![s] = Created(@, c)]
            /\ \/ rpc' = [rpc EXCEPT !.i = @ + 1]
               \/ rpc' = [rpc EXCEPT !.at = "undo", !.i = 1]
         \/ /\ rpc' = [rpc EXCEPT !.at = "undo", !.i = 1]
            /\ UNCHANGED disk
  BY DEF CreateReplica, tables
<1>2. /\ TablesOK' /\ ListsOK' /\ HeardOK' /\ TaskOK'
      /\ \A g : Listed(g)' = Listed(g)
      /\ \A t : Known(t)' = Known(t)
  BY <1>1, PartsKept
<1>3. /\ rpc \in Rpc /\ c \in Handle /\ c < next /\ c \notin allocated
      /\ rpc.i \in 1..Len(rpc.place) + 1 /\ rpc.place \in Seq(Server)
      /\ Len(rpc.place) \in Nat
  BY <1>1, LenProperties DEF IInv, RpcOK, Rpc
<1>4. rpc.i \in 1..Len(rpc.place) /\ s \in Server
  <2>1. rpc.i \in 1..Len(rpc.place)
    BY <1>1, <1>3
  <2> QED BY <1>3, <2>1, ElementOfSeq
<1>5. /\ rpc'.chunk = c /\ rpc'.place = rpc.place
      /\ \/ rpc'.at = "create" /\ rpc'.i = rpc.i + 1
         \/ rpc'.at = "undo" /\ rpc'.i = 1
      /\ rpc' \in Rpc
      /\ \/ UNCHANGED disk /\ rpc'.at = "undo"
         \/ disk' = [disk EXCEPT ![s] = Created(@, c)]
  <2>1. rpc.i \in Nat /\ rpc.i + 1 \in Nat /\ 1 \in Nat
    BY <1>4
  <2>2. ASSUME rpc' = [rpc EXCEPT !.i = @ + 1]
        PROVE  /\ rpc'.chunk = c /\ rpc'.place = rpc.place
               /\ rpc'.at = "create" /\ rpc'.i = rpc.i + 1 /\ rpc' \in Rpc
    BY ONLY <1>1, <1>3, <2>1, <2>2 DEF Rpc
  <2>3. ASSUME rpc' = [rpc EXCEPT !.at = "undo", !.i = 1]
        PROVE  /\ rpc'.chunk = c /\ rpc'.place = rpc.place
               /\ rpc'.at = "undo" /\ rpc'.i = 1 /\ rpc' \in Rpc
    BY ONLY <1>3, <2>1, <2>3 DEF Rpc
  <2> QED BY <1>1, <2>2, <2>3
<1>6. RpcOK'
  BY <1>1, <1>3, <1>4, <1>5 DEF RpcOK
<1>7. CASE UNCHANGED disk /\ rpc'.at = "undo"
  <2>1. DiskOK' /\ \A g, t : Has(g, t)' = Has(g, t)
    BY <1>7, PartsKept
  <2>2. KnownOK' /\ ExistOK'
    BY <1>1, <1>2, <1>7, <2>1 DEF IInv, KnownOK, ExistOK
  <2>3. MoveOK'
    BY <1>1, <1>2, <1>7 DEF IInv, MoveOK, Kept
  <2> QED BY <1>2, <1>6, <2>1, <2>2, <2>3 DEF IInv
<1>8. CASE disk' = [disk EXCEPT ![s] = Created(@, c)]
  <2> DEFINE f == Created(disk[s], c)
  <2>1. disk' = [disk EXCEPT ![s] = f]
    BY <1>8
  <2>2. f \in [DOMAIN disk[s] \cup {c} -> File]
    <3> DEFINE files == disk[s]
    <3>1. files \in [DOMAIN files -> File] /\ {} \in File
      BY <1>4 DEF IInv, DiskOK, File
    <3> HIDE DEF files, c
    <3>2. Created(files, c) \in [DOMAIN files \cup {c} -> File]
      BY ONLY <3>1 DEF Created, Put
    <3> QED BY <3>2 DEF files
  <2> HIDE DEF f, s, c
  <2>3. DiskOK' /\ \A g, t : Has(g, t)' <=> Has(g, t) \/ (g = c /\ t = s)
    BY <1>3, <1>4, <2>1, <2>2, DiskChanged DEF IInv
  <2> USE DEF s, c
  <2>4. ExistOK'
    <3>1. rpc'.at = "create" =>
            \A i \in 1..rpc'.i - 1 : i \in 1..rpc.i - 1 \/ i = rpc.i
      BY <1>3, <1>4, <1>5
    <3>2. (rpc.at = "create" =>
            /\ \A t \in Listed(rpc.chunk) :
                 Has(rpc.chunk, t) \/ \E i \in DOMAIN rpc.place : t = rpc.place[i]
            /\ \A i \in 1..rpc.i - 1 : Has(rpc.chunk, rpc.place[i]))'
      BY <1>1, <1>2, <1>5, <2>3, <3>1 DEF IInv, ExistOK
    <3> QED BY <1>1, <1>2, <2>3, <3>2 DEF IInv, ExistOK
  <2>5. MoveOK'
    BY <1>1, <1>2, <1>5 DEF IInv, MoveOK, Kept
  <2> QED BY <1>1, <1>2, <1>6, <2>3, <2>4, <2>5 DEF IInv, KnownOK
<1> QED BY <1>5, <1>7, <1>8

\* UndoPlacement keeps the invariant.
LEMMA UndoPlacementOK ==
  ASSUME IInv, UndoPlacement
  PROVE  IInv'
<1> DEFINE c == rpc.chunk
<1>1. /\ rpc.at = "undo"
      /\ replicas' = WithoutReplica(c, rpc.place[rpc.i])
      /\ UNCHANGED tables /\ UNCHANGED <<heard, endpoints, task, beat, disk>>
      /\ UNCHANGED <<chunks, next, recovered, generation, allocated>>
      /\ \/ rpc.i < Len(rpc.place) /\ rpc' = [rpc EXCEPT !.i = @ + 1]
         \/ rpc' = NoRpc
  BY DEF UndoPlacement, tables
<1>2. /\ TablesOK' /\ HeardOK' /\ TaskOK' /\ DiskOK'
      /\ \A g, t : Has(g, t)' = Has(g, t)
      /\ \A t : Known(t)' = Known(t)
  BY <1>1, PartsKept
<1>3. /\ rpc \in Rpc /\ c \in Handle /\ c < next /\ c \notin allocated
      /\ rpc.i \in 1..Len(rpc.place) + 1 /\ rpc.place \in Seq(Server)
      /\ Len(rpc.place) \in Nat
  BY <1>1, LenProperties DEF IInv, RpcOK, Rpc
<1>4. /\ ListsOK'
      /\ \A g : Listed(g)' \subseteq Listed(g)
      /\ \A g : g # c => Listed(g)' = Listed(g)
  BY <1>1, <1>3, WithoutReplicaOK DEF IInv
<1>5. RpcOK' /\ rpc'.at # "create"
  <2>1. CASE rpc' = NoRpc
    <3>1. <<>> \in Seq(Server)
      OBVIOUS
    <3> QED BY <2>1, <3>1 DEF RpcOK, NoRpc, Rpc
  <2>2. CASE rpc.i < Len(rpc.place) /\ rpc' = [rpc EXCEPT !.i = @ + 1]
    <3>1. /\ rpc'.at = "undo" /\ rpc'.chunk = c /\ rpc'.place = rpc.place
          /\ rpc'.i = rpc.i + 1 /\ rpc' \in Rpc
      BY <1>1, <1>3, <2>2 DEF Rpc
    <3> QED BY <1>1, <1>3, <2>2, <3>1 DEF RpcOK
  <2> QED BY <1>1, <2>1, <2>2
<1>6. KnownOK' /\ ExistOK'
  BY <1>1, <1>2, <1>4, <1>5 DEF IInv, KnownOK, ExistOK
<1>7. MoveOK'
  <2>1. \A h \in Handle : Kept(h)' => Kept(h) /\ h # c
    BY <1>1, <1>3, <1>5 DEF Kept, IInv, TablesOK, Handle
  <2>2. task.at # "idle" /\ task.at # "move" => task.chunk \in Handle
    BY DEF IInv, TaskOK
  <2> QED BY <1>1, <1>4, <2>1, <2>2 DEF IInv, MoveOK
<1> QED BY <1>2, <1>4, <1>5, <1>6, <1>7 DEF IInv

\* EndAllocate keeps the invariant.
LEMMA EndAllocateOK ==
  ASSUME IInv, EndAllocate
  PROVE  IInv'
<1> DEFINE c == rpc.chunk
<1>1. /\ rpc.at = "create" /\ rpc.i > Len(rpc.place)
      /\ allocated' = allocated \cup {c} /\ rpc' = NoRpc
      /\ UNCHANGED <<chunks, next, recovered, generation>>
      /\ UNCHANGED <<replicas, heard, endpoints, task, beat, disk>>
  BY DEF EndAllocate
<1>2. /\ ListsOK' /\ HeardOK' /\ TaskOK' /\ DiskOK'
      /\ \A g : Listed(g)' = Listed(g)
      /\ \A g, t : Has(g, t)' = Has(g, t)
      /\ \A t : Known(t)' = Known(t)
  BY <1>1, PartsKept
<1>3. /\ rpc \in Rpc /\ c \in Handle /\ c < next /\ c \notin allocated
      /\ rpc.i \in 1..Len(rpc.place) + 1 /\ rpc.place \in Seq(Server)
      /\ Len(rpc.place) \in Nat /\ DOMAIN rpc.place = 1..Len(rpc.place)
  BY <1>1, LenProperties DEF IInv, RpcOK, Rpc
<1>4. \A t \in Listed(c) : Has(c, t)
  <2>1. DOMAIN rpc.place \subseteq 1..rpc.i - 1
    BY <1>1, <1>3
  <2> QED BY <1>1, <2>1 DEF IInv, ExistOK
<1>5. TablesOK'
  BY <1>1, <1>3 DEF IInv, TablesOK
<1>6. RpcOK' /\ rpc'.at = "idle"
  <2>1. <<>> \in Seq(Server)
    OBVIOUS
  <2> QED BY <1>1, <2>1 DEF RpcOK, NoRpc, Rpc
<1>7. KnownOK' /\ ExistOK'
  BY <1>1, <1>2, <1>4, <1>6 DEF IInv, KnownOK, ExistOK
<1>8. MoveOK'
  <2>1. \A h : Kept(h)' => Kept(h)
    BY <1>1, <1>6 DEF Kept
  <2> QED BY <1>1, <1>2, <2>1 DEF IInv, MoveOK
<1> QED BY <1>2, <1>5, <1>6, <1>7, <1>8 DEF IInv

\* DeleteFile keeps the invariant.
LEMMA DeleteFileOK ==
  ASSUME IInv, NEW h \in Handle, DeleteFile(h)
  PROVE  IInv'
<1>1. /\ rpc.at = "idle" /\ h \in DOMAIN chunks
      /\ chunks' = Drop(chunks, h) /\ replicas' = WithList(h, <<>>)
      /\ UNCHANGED <<next, recovered, generation, allocated>>
      /\ UNCHANGED <<heard, endpoints, rpc, task, beat, disk>>
  BY DEF DeleteFile
<1>2. /\ HeardOK' /\ RpcOK' /\ TaskOK' /\ DiskOK'
      /\ \A g, t : Has(g, t)' = Has(g, t)
      /\ \A t : Known(t)' = Known(t)
  BY <1>1, PartsKept
<1>3. /\ ListsOK'
      /\ \A g : Listed(g)' = IF g = h THEN {} ELSE Listed(g)
  <2>1. <<>> \in Seq(Entry(Server)) /\ Servers(<<>>) = {}
    BY DEF Servers
  <2> QED BY <1>1, <2>1, WithListOK DEF IInv
<1>4. TablesOK'
  BY <1>1 DEF IInv, TablesOK, Drop
<1>5. KnownOK' /\ ExistOK'
  BY <1>1, <1>2, <1>3 DEF IInv, KnownOK, ExistOK
<1>6. MoveOK'
  <2>1. h \in Nat /\ h < next /\ next \in Nat
    BY <1>1, ClusterAssumption DEF IInv, TablesOK, Handle
  <2>2. \A g \in Handle : Kept(g)' => Kept(g) /\ g # h
    BY <1>1, <2>1 DEF Kept, Drop
  <2>3. task.at # "idle" /\ task.at # "move" => task.chunk \in Handle
    BY DEF IInv, TaskOK
  <2> QED BY <1>1, <1>3, <2>2, <2>3 DEF IInv, MoveOK
<1> QED BY <1>2, <1>3, <1>4, <1>5, <1>6 DEF IInv

\* SetChunkVersion keeps the invariant.
LEMMA SetChunkVersionOK ==
  ASSUME IInv, NEW h \in Handle, SetChunkVersion(h)
  PROVE  IInv'
<1>1. /\ h \in DOMAIN chunks /\ chunks[h].version < MaxVersion
      /\ chunks' = [chunks EXCEPT ![h].version = @ + 1]
      /\ UNCHANGED <<next, recovered, generation, allocated>>
      /\ UNCHANGED <<replicas, heard, endpoints, rpc, task, beat, disk>>
  BY DEF SetChunkVersion
<1>2. /\ ListsOK' /\ HeardOK' /\ RpcOK' /\ TaskOK' /\ DiskOK'
      /\ \A g : Listed(g)' = Listed(g)
      /\ \A g, t : Has(g, t)' = Has(g, t)
      /\ \A t : Known(t)' = Known(t)
  BY <1>1, PartsKept
<1>3. DOMAIN chunks' = DOMAIN chunks /\ chunks' \in [DOMAIN chunks -> Chunk]
  BY <1>1, ClusterAssumption DEF IInv, TablesOK, Chunk
<1>4. TablesOK'
  BY <1>1, <1>3 DEF IInv, TablesOK
<1>5. KnownOK' /\ ExistOK'
  BY <1>1, <1>2 DEF IInv, KnownOK, ExistOK
<1>6. MoveOK'
  <2>1. \A g : Kept(g)' = Kept(g)
    BY <1>1, <1>3 DEF Kept
  <2> QED BY <1>1, <1>2, <2>1 DEF IInv, MoveOK
<1> QED BY <1>2, <1>4, <1>5, <1>6 DEF IInv

\* A step that changes the chunk files of one server only.
LEMMA FilesOK ==
  ASSUME IInv, NEW s \in Server, NEW h \in Handle,
         NEW f \in [DOMAIN disk[s] \cup {h} -> File],
         disk' = [disk EXCEPT ![s] = f],
         UNCHANGED <<tables, replicas, heard, endpoints, rpc, beat>>
  PROVE  /\ TablesOK' /\ ListsOK' /\ HeardOK' /\ RpcOK' /\ DiskOK'
         /\ \A g : Listed(g)' = Listed(g)
         /\ \A g, t : Has(g, t)' <=> Has(g, t) \/ (g = h /\ t = s)
         /\ \A t : Known(t)' = Known(t)
         /\ \A g : Kept(g)' = Kept(g)
<1>1. /\ UNCHANGED tables
      /\ UNCHANGED <<replicas, heard, endpoints, rpc, beat>>
      /\ UNCHANGED <<chunks, next, recovered, generation, allocated>>
  BY DEF tables
<1>2. /\ TablesOK' /\ ListsOK' /\ HeardOK' /\ RpcOK'
      /\ \A g : Listed(g)' = Listed(g)
      /\ \A t : Known(t)' = Known(t)
      /\ \A g : Kept(g)' = Kept(g)
  BY <1>1, PartsKept
<1>3. DiskOK' /\ \A g, t : Has(g, t)' <=> Has(g, t) \/ (g = h /\ t = s)
  BY DiskChanged DEF IInv
<1> QED BY <1>2, <1>3

\* WriteChunk keeps the invariant.
LEMMA WriteChunkOK ==
  ASSUME IInv, NEW s \in Server, NEW h \in Handle, NEW g \in Generation,
         WriteChunk(s, h, g)
  PROVE  IInv'
<1> DEFINE f == [disk[s] EXCEPT ![h] = @ \cup {g}]
<1>1. /\ h \in DOMAIN disk[s]
      /\ disk' = [disk EXCEPT ![s] = f]
      /\ UNCHANGED <<tables, replicas, heard, endpoints, rpc, beat>>
      /\ UNCHANGED task
      /\ UNCHANGED <<chunks, next, recovered, generation, allocated>>
  BY DEF WriteChunk, tables
<1>2. f \in [DOMAIN disk[s] \cup {h} -> File]
  BY <1>1 DEF IInv, DiskOK, File
<1> HIDE DEF f
<1>3. /\ TablesOK' /\ ListsOK' /\ HeardOK' /\ RpcOK' /\ DiskOK'
      /\ \A c : Listed(c)' = Listed(c)
      /\ \A c, t : Has(c, t)' <=> Has(c, t) \/ (c = h /\ t = s)
      /\ \A t : Known(t)' = Known(t)
      /\ \A c : Kept(c)' = Kept(c)
  BY <1>1, <1>2, FilesOK
<1>4. TaskOK' /\ KnownOK' /\ ExistOK' /\ MoveOK'
  BY <1>1, <1>3 DEF IInv, TaskOK, KnownOK, ExistOK, MoveOK
<1> QED BY <1>3, <1>4 DEF IInv

-----------------------------------------------------------------------------
(* Recovery of a chunk.                                                    *)

\* A step of a recovery or of a rebalancing that changes no file.
LEMMA TaskStep ==
  ASSUME IInv, UNCHANGED <<tables, heard, endpoints, rpc, beat, disk>>
  PROVE  /\ TablesOK' /\ HeardOK' /\ RpcOK' /\ DiskOK'
         /\ \A h, s : Has(h, s)' = Has(h, s)
         /\ \A s : Known(s)' = Known(s)
         /\ \A h : Kept(h)' = Kept(h)
         /\ UNCHANGED <<chunks, next, recovered, generation, allocated>>
         /\ UNCHANGED <<heard, endpoints, rpc, beat, disk>>
<1>1. /\ UNCHANGED tables
      /\ UNCHANGED <<heard, endpoints, rpc, beat, disk>>
      /\ UNCHANGED <<chunks, next, recovered, generation, allocated>>
  BY DEF tables
<1> QED BY <1>1, PartsKept

\* When there is no task.
LEMMA NoTaskSound ==
  /\ NoTask \in Task /\ NoTask.at = "idle" /\ NoTask.kind = "recover"
  /\ NoTask.to = <<>> /\ NoTask.from = 0
<1>1. <<>> \in Seq(Server) /\ {} \in File
  BY DEF File
<1> QED BY <1>1 DEF NoTask, Task

\* StartRecovery keeps the invariant.
LEMMA StartRecoveryOK ==
  ASSUME IInv, NEW h \in Handle, StartRecovery(h)
  PROVE  IInv'
<1> DEFINE gone == {s \in Servers(List(h)) : ~Alive(s)}
           stale == {s \in Servers(List(h)) : IsStaleReplica(h, s)}
<1>1. /\ task' = [NoTask EXCEPT !.at = "drop", !.chunk = h,
                                !.gone = gone, !.stale = stale]
      /\ UNCHANGED replicas
      /\ UNCHANGED <<tables, heard, endpoints, rpc, beat, disk>>
  BY DEF StartRecovery
<1>2. /\ TablesOK' /\ HeardOK' /\ RpcOK' /\ DiskOK'
      /\ \A g, s : Has(g, s)' = Has(g, s)
      /\ \A s : Known(s)' = Known(s)
      /\ UNCHANGED <<chunks, next, recovered, generation, allocated>>
      /\ UNCHANGED <<heard, endpoints, rpc, beat, disk>>
  BY <1>1, TaskStep
<1>3. ListsOK' /\ \A g : Listed(g)' = Listed(g)
  BY <1>1, PartsKept
<1>4. gone \subseteq Server /\ stale \subseteq Server
  BY ListSound DEF IInv, Listed
<1> HIDE DEF gone, stale
<1>5. /\ task' \in Task /\ task'.at = "drop" /\ task'.kind = "recover"
      /\ task'.chunk = h /\ task'.to = <<>>
  BY <1>1, <1>4, NoTaskSound DEF Task
<1>6. TaskOK' /\ KnownOK' /\ ExistOK' /\ MoveOK'
  BY <1>2, <1>3, <1>5 DEF IInv, TaskOK, KnownOK, ExistOK, MoveOK
<1> QED BY <1>2, <1>3, <1>6 DEF IInv

\* DropDead keeps the invariant.
LEMMA DropDeadOK ==
  ASSUME IInv, DropDead
  PROVE  IInv'
<1>1. PICK s \in task.gone :
        /\ replicas' = WithoutReplica(task.chunk, s)
        /\ task' = [task EXCEPT !.gone = @ \ {s}]
  BY DEF DropDead
<1>2. /\ task.at = "drop"
      /\ UNCHANGED <<tables, heard, endpoints, rpc, beat, disk>>
  BY DEF DropDead
<1>3. /\ TablesOK' /\ HeardOK' /\ RpcOK' /\ DiskOK'
      /\ \A g, t : Has(g, t)' = Has(g, t)
      /\ \A t : Known(t)' = Known(t)
      /\ UNCHANGED <<chunks, next, recovered, generation, allocated>>
      /\ UNCHANGED <<heard, endpoints, rpc, beat, disk>>
  BY <1>2, TaskStep
<1>4. task.chunk \in Handle /\ task \in Task
  BY <1>2 DEF IInv, TaskOK
<1>5. /\ ListsOK' /\ \A g : Listed(g)' \subseteq Listed(g)
  BY <1>1, <1>4, WithoutReplicaOK DEF IInv
<1>6. /\ task' \in Task /\ task'.at = "drop" /\ task'.chunk = task.chunk
      /\ task'.to = task.to /\ task'.kind = task.kind
  BY <1>1, <1>2, <1>4 DEF Task
<1>7. TaskOK' /\ KnownOK' /\ ExistOK' /\ MoveOK'
  BY <1>2, <1>3, <1>4, <1>5, <1>6 DEF IInv, TaskOK, KnownOK, ExistOK, MoveOK
<1> QED BY <1>3, <1>5, <1>7 DEF IInv

\* WithPrimary makes a listed server a primary.
LEMMA WithPrimaryPromotes ==
  ASSUME NEW rs \in Seq(Entry(Server)), NEW s \in Servers(rs)
  PROVE  s \in Primaries(WithPrimary(rs, s))
<1>1. PICK i \in DOMAIN rs : rs[i].server = s
  BY DEF Servers
<1>2. rs[i] \in Entry(Server)
  BY <1>1, LenProperties, ElementOfSeq
<1>3. WithPrimary(rs, s)[i] = [rs[i] EXCEPT !.primary = TRUE]
  BY <1>1 DEF WithPrimary
<1>4. WithPrimary(rs, s)[i].primary /\ WithPrimary(rs, s)[i].server = s
  BY <1>1, <1>2, <1>3 DEF Entry
<1>5. i \in DOMAIN WithPrimary(rs, s)
  BY <1>1 DEF WithPrimary
<1> QED BY <1>4, <1>5 DEF Primaries

\* ChooseSource keeps the invariant.
LEMMA ChooseSourceOK ==
  ASSUME IInv, ChooseSource
  PROVE  IInv'
<1> DEFINE h == task.chunk
           rs == List(h)
           healthy == Healthy(h)
           first == CHOOSE i \in DOMAIN rs :
                      /\ rs[i].server \in healthy
                      /\ \A j \in 1..i - 1 : rs[j].server \notin healthy
           led == IF healthy = {} \/ Primaries(rs) \cap healthy # {}
                  THEN rs ELSE WithPrimary(rs, rs[first].server)
           candidates == {s \in LiveServers :
                            /\ s \notin Servers(rs)
                            /\ Alive(s) /\ HasChunkserver(s)}
           from == IF healthy = {} THEN 0
                   ELSE CHOOSE s \in Primaries(led) \cap healthy : TRUE
           to == IF healthy = {} \/ Cardinality(healthy) >= Desired(h)
                 THEN <<>>
                 ELSE Select(candidates, Desired(h) - Cardinality(healthy))
<1>1. /\ task.at = "drop"
      /\ replicas' = WithList(h, led)
      /\ task' = [task EXCEPT !.at = "purge", !.from = from, !.to = to]
      /\ UNCHANGED <<tables, heard, endpoints, rpc, beat, disk>>
  BY DEF ChooseSource
<1>2. /\ TablesOK' /\ HeardOK' /\ RpcOK' /\ DiskOK'
      /\ \A g, s : Has(g, s)' = Has(g, s)
      /\ \A s : Known(s)' = Known(s)
      /\ UNCHANGED <<chunks, next, recovered, generation, allocated>>
      /\ UNCHANGED <<heard, endpoints, rpc, beat, disk>>
  BY <1>1, TaskStep
<1>3. h \in Handle /\ task \in Task
  BY <1>1 DEF IInv, TaskOK
<1>4. /\ rs \in Seq(Entry(Server)) /\ (rs = <<>> \/ IsReplicaList(rs))
      /\ Servers(rs) \subseteq Server /\ Listed(h) = Servers(rs)
  BY ListSound DEF IInv, Listed
<1>5. healthy \subseteq Servers(rs) /\ healthy \subseteq Server
  BY <1>4 DEF Healthy
<1>6. /\ Cardinality(healthy) \in Nat /\ Desired(h) \in Nat
      /\ Desired(h) - Cardinality(healthy) \in Int
  <2>1. Cardinality(healthy) \in Nat
    BY <1>5, FS_Subset, FS_CardinalityType, ClusterAssumption
  <2>2. Desired(h) \in Nat
    BY <1>3, ClusterAssumption DEF Desired, IInv, TablesOK, Chunk
  <2> HIDE DEF healthy
  <2> QED BY <2>1, <2>2
<1>7. /\ candidates \subseteq Server
      /\ \A s \in candidates : Known(s)
  BY DEF LiveServers, HasChunkserver, Known, IInv, HeardOK
<1>8. /\ to \in Seq(Server)
      /\ \A i \in DOMAIN to : Known(to[i])
  <2> HIDE DEF healthy, candidates, h
  <2>1. <<>> \in Seq(Server) /\ DOMAIN <<>> = {}
    OBVIOUS
  <2> DEFINE picked == Select(candidates, Desired(h) - Cardinality(healthy))
  <2>2. picked \in Seq(candidates)
    BY <1>6, SelectSound
  <2> HIDE DEF picked
  <2>3. \A i \in DOMAIN picked : picked[i] \in candidates
    BY <2>2, LenProperties, ElementOfSeq
  <2>4. picked \in Seq(Server)
    BY <1>7, <2>2
  <2>5. to = <<>> \/ to = picked
    BY DEF picked
  <2> QED BY <1>7, <2>1, <2>3, <2>4, <2>5
<1> HIDE DEF h, rs, healthy, candidates, to
<1>9. /\ led \in Seq(Entry(Server)) /\ (led = <<>> \/ IsReplicaList(led))
      /\ Servers(led) = Servers(rs)
      /\ healthy # {} => Primaries(led) \cap healthy # {}
  <2>1. CASE healthy = {} \/ Primaries(rs) \cap healthy # {}
    BY <2>1, <1>4
  <2>2. CASE healthy # {} /\ Primaries(rs) \cap healthy = {}
    <3>1. led = WithPrimary(rs, rs[first].server)
      BY <2>2
    <3>2. first \in DOMAIN rs /\ rs[first].server \in healthy
      <4> DEFINE T == {i \in DOMAIN rs : rs[i].server \in healthy}
      <4>1. DOMAIN rs = 1..Len(rs) /\ Len(rs) \in Nat
        BY <1>4, LenProperties
      <4>2. T \in SUBSET Nat /\ T # {}
        BY <1>5, <2>2, <4>1 DEF Servers
      <4>3. PICK i \in T : \A j \in T : i <= j
        BY <4>2, LeastIndex
      <4>4. \A j \in 1..i - 1 : rs[j].server \notin healthy
        BY <4>1, <4>3
      <4> QED BY <4>3, <4>4
    <3> HIDE DEF first
    <3> DEFINE p == rs[first].server
    <3>3. p \in Servers(rs) /\ p \in healthy
      BY <3>2 DEF Servers
    <3>4. rs # <<>> /\ IsReplicaList(rs)
      BY <1>4, <3>3 DEF Servers
    <3> HIDE DEF p
    <3>5. /\ WithPrimary(rs, p) \in Seq(Entry(Server))
          /\ Servers(WithPrimary(rs, p)) = Servers(rs)
          /\ IsReplicaList(WithPrimary(rs, p))
      BY <1>4, <3>4, WithPrimarySound
    <3>6. p \in Primaries(WithPrimary(rs, p))
      BY <1>4, <3>3, WithPrimaryPromotes
    <3> QED BY <3>1, <3>3, <3>5, <3>6 DEF p
  <2> QED BY <2>1, <2>2
<1> HIDE DEF led
<1>10. from \in Server \cup {0} /\ (to # <<>> => from \in Server)
  <2>1. healthy # {} => from \in healthy
    BY <1>9
  <2>2. to # <<>> => healthy # {}
    BY DEF to
  <2> QED BY <1>5, <2>1, <2>2
<1> HIDE DEF from
<1>11. ListsOK' /\ \A g : Listed(g)' = Listed(g)
  BY <1>1, <1>3, <1>4, <1>9, WithListOK DEF IInv
<1>12. /\ task' \in Task /\ task'.at = "purge" /\ task'.chunk = h
       /\ task'.from = from /\ task'.to = to /\ task'.kind = task.kind
  BY ONLY <1>1, <1>3, <1>8, <1>10 DEF Task, h
<1>13. TaskOK' /\ KnownOK' /\ ExistOK' /\ MoveOK'
  BY <1>1, <1>2, <1>3, <1>8, <1>10, <1>11, <1>12
     DEF IInv, TaskOK, KnownOK, ExistOK, MoveOK
<1> QED BY <1>2, <1>11, <1>13 DEF IInv

\* PurgeStale keeps the invariant.
LEMMA PurgeStaleOK ==
  ASSUME IInv, PurgeStale
  PROVE  IInv'
<1>1. /\ task.at = "purge"
      /\ UNCHANGED <<tables, heard, endpoints, rpc, beat, disk>>
  BY DEF PurgeStale
<1>2. /\ TablesOK' /\ HeardOK' /\ RpcOK' /\ DiskOK'
      /\ \A g, t : Has(g, t)' = Has(g, t)
      /\ \A t : Known(t)' = Known(t)
      /\ UNCHANGED <<chunks, next, recovered, generation, allocated>>
      /\ UNCHANGED <<heard, endpoints, rpc, beat, disk>>
  BY <1>1, TaskStep
<1>3. task.chunk \in Handle /\ task \in Task
  BY <1>1 DEF IInv, TaskOK
<1>4. CASE \E s \in task.stale :
             /\ replicas' = WithoutReplica(task.chunk, s)
             /\ task' = [task EXCEPT !.stale = @ \ {s}]
  <2>1. PICK s \in task.stale :
             /\ replicas' = WithoutReplica(task.chunk, s)
             /\ task' = [task EXCEPT !.stale = @ \ {s}]
    BY <1>4
  <2>2. ListsOK' /\ \A g : Listed(g)' \subseteq Listed(g)
    BY <1>3, <2>1, WithoutReplicaOK DEF IInv
  <2>3. /\ task' \in Task /\ task'.at = "purge" /\ task'.chunk = task.chunk
        /\ task'.to = task.to /\ task'.from = task.from
        /\ task'.kind = task.kind
    BY <1>1, <1>3, <2>1 DEF Task
  <2>4. TaskOK' /\ KnownOK' /\ ExistOK' /\ MoveOK'
    BY <1>1, <1>2, <1>3, <2>2, <2>3
       DEF IInv, TaskOK, KnownOK, ExistOK, MoveOK
  <2> QED BY <1>2, <2>2, <2>4 DEF IInv
<1>5. CASE /\ UNCHANGED replicas
           /\ task' = IF task.to = <<>> THEN NoTask
                      ELSE [task EXCEPT !.at = "copy"]
  <2>1. ListsOK' /\ \A g : Listed(g)' = Listed(g)
    BY <1>5, PartsKept
  <2>2. CASE task' = NoTask
    <3>1. TaskOK' /\ KnownOK' /\ ExistOK' /\ MoveOK'
      BY <1>2, <2>1, <2>2, NoTaskSound
         DEF IInv, TaskOK, KnownOK, ExistOK, MoveOK
    <3> QED BY <1>2, <2>1, <3>1 DEF IInv
  <2>3. CASE task.to # <<>> /\ task' = [task EXCEPT !.at = "copy"]
    <3>1. /\ task' \in Task /\ task'.at = "copy" /\ task'.chunk = task.chunk
          /\ task'.to = task.to /\ task'.from = task.from
          /\ task'.kind = task.kind
      BY <1>3, <2>3 DEF Task
    <3>2. task.kind = "recover"
      BY <1>1 DEF IInv, TaskOK
    <3>3. TaskOK' /\ KnownOK' /\ ExistOK' /\ MoveOK'
      BY <1>1, <1>2, <1>3, <2>1, <2>3, <3>1, <3>2
         DEF IInv, TaskOK, KnownOK, ExistOK, MoveOK
    <3> QED BY <1>2, <2>1, <3>3 DEF IInv
  <2> QED BY <1>5, <2>2, <2>3
<1> QED BY <1>4, <1>5 DEF PurgeStale

-----------------------------------------------------------------------------
(* TransferReplica.                                                        *)

\* After a destination comes the next one, the next move, or nothing.
LEMMA NextDestinationSound ==
  ASSUME IInv, task.at \in {"copy", "write", "register", "remove"},
         task' = NextDestination
  PROVE  /\ TaskOK'
         /\ \A i \in DOMAIN task'.to : \E j \in DOMAIN task.to :
              task'.to[i] = task.to[j]
         /\ task'.at \in {"idle", "move", "copy"}
         /\ task'.at = "copy" => task'.kind = "recover"
<1>1. /\ task \in Task /\ task.chunk \in Handle /\ task.to # <<>>
      /\ task.from \in Server /\ task.to \in Seq(Server)
      /\ task.at = "remove" => task.kind = "move"
      /\ task.kind \in {"move", "recover"}
  BY DEF IInv, TaskOK, Task
<1>2. CASE task.kind = "move"
  <2>1. task' = [task EXCEPT !.at = "move"]
    BY <1>2 DEF NextDestination
  <2>2. /\ task' \in Task /\ task'.at = "move" /\ task'.to = task.to
        /\ task'.from = task.from /\ task'.kind = "move"
    BY <1>1, <1>2, <2>1 DEF Task
  <2> QED BY <1>1, <2>2 DEF TaskOK
<1>3. CASE task.kind # "move" /\ Len(task.to) = 1
  <2>1. task' = NoTask
    BY <1>3 DEF NextDestination
  <2> QED BY <2>1, NoTaskSound DEF TaskOK
<1>4. CASE task.kind # "move" /\ Len(task.to) # 1
  <2> DEFINE left == Tail(task.to)
  <2>1. task' = [task EXCEPT !.to = left, !.at = "copy"]
    BY <1>4 DEF NextDestination
  <2>2. /\ left \in Seq(Server) /\ left # <<>>
        /\ \A i \in DOMAIN left : \E j \in DOMAIN task.to : left[i] = task.to[j]
    <3> DEFINE to == task.to
    <3>1. /\ to \in Seq(Server) /\ to # <<>> /\ Len(to) # 1
      BY <1>1, <1>4
    <3> HIDE DEF to
    <3>2. /\ Len(to) \in Nat /\ Len(to) # 0 /\ DOMAIN to = 1..Len(to)
      BY <3>1, LenProperties, EmptySeq
    <3>3. /\ Tail(to) \in Seq(Server) /\ Len(Tail(to)) = Len(to) - 1
          /\ \A i \in 1..Len(Tail(to)) : Tail(to)[i] = to[i + 1]
      BY <3>1, HeadTailProperties
    <3>4. left = Tail(to)
      BY DEF to
    <3> HIDE DEF left
    <3>5. left \in Seq(Server) /\ DOMAIN left = 1..Len(left)
      BY <3>3, <3>4, LenProperties
    <3>6. Len(left) = Len(to) - 1 /\ \A i \in 1..Len(left) : left[i] = to[i + 1]
      BY <3>3, <3>4
    <3>7. left # <<>>
      <4>1. Len(left) # 0
        BY ONLY <3>1, <3>2, <3>6
      <4> QED BY ONLY <4>1, Len(<<>>) = 0
    <3>8. \A i \in DOMAIN left : i + 1 \in DOMAIN to /\ left[i] = to[i + 1]
      BY ONLY <3>2, <3>5, <3>6
    <3> QED BY <3>5, <3>7, <3>8 DEF to
  <2> HIDE DEF left
  <2>3. /\ task' \in Task /\ task'.at = "copy" /\ task'.to = left
        /\ task'.from = task.from /\ task'.kind = task.kind
        /\ task'.chunk = task.chunk
    BY <1>1, <2>1, <2>2 DEF Task
  <2> QED BY <1>1, <1>4, <2>2, <2>3 DEF TaskOK
<1> QED BY <1>2, <1>3, <1>4

\* A step to the next destination that makes no file disappear and lists
\* nobody.
LEMMA ToNextDestination ==
  ASSUME IInv, task.at \in {"copy", "write", "register", "remove"},
         task' = NextDestination,
         TablesOK', ListsOK', HeardOK', RpcOK', DiskOK',
         \A g : Listed(g)' \subseteq Listed(g),
         \A g, t : Has(g, t) => Has(g, t)', \A t : Known(t)' = Known(t),
         UNCHANGED <<tables, heard, endpoints, rpc, beat>>
  PROVE  IInv'
<1>1. /\ TaskOK'
      /\ \A i \in DOMAIN task'.to : \E j \in DOMAIN task.to :
           task'.to[i] = task.to[j]
      /\ task'.at \in {"idle", "move", "copy"}
      /\ task'.at = "copy" => task'.kind = "recover"
  BY NextDestinationSound
<1>2. /\ UNCHANGED <<chunks, next, recovered, generation, allocated>>
      /\ UNCHANGED <<heard, endpoints, rpc, beat>>
  BY DEF tables
<1>3. KnownOK'
  BY <1>1, <1>2 DEF IInv, KnownOK
<1>4. ExistOK'
  BY <1>1, <1>2 DEF IInv, ExistOK
<1>5. MoveOK'
  BY <1>1 DEF MoveOK
<1> QED BY <1>1, <1>3, <1>4, <1>5 DEF IInv

\* What a transfer goes from and to.
LEMMA TransferSound ==
  ASSUME IInv, task.at \in {"copy", "write", "register", "remove"}
  PROVE  /\ task \in Task /\ task.chunk \in Handle
         /\ task.from \in Server /\ Head(task.to) \in Server
         /\ Known(Head(task.to)) /\ task.to # <<>>
<1>1. /\ task \in Task /\ task.chunk \in Handle /\ task.to # <<>>
      /\ task.from \in Server /\ task.to \in Seq(Server)
  BY DEF IInv, TaskOK, Task
<1>2. 1 \in DOMAIN task.to /\ Head(task.to) = task.to[1]
  <2> DEFINE to == task.to
  <2>1. to \in Seq(Server) /\ to # <<>>
    BY <1>1
  <2> HIDE DEF to
  <2>2. Head(to) = to[1] /\ DOMAIN to = 1..Len(to) /\ Len(to) \in Nat /\ Len(to) # 0
    BY <2>1, HeadTailProperties, LenProperties, EmptySeq
  <2> QED BY <2>2 DEF to
<1>3. Head(task.to) \in Server
  BY <1>1, <1>2, LenProperties, ElementOfSeq
<1> QED BY <1>1, <1>2, <1>3 DEF IInv, KnownOK

\* SkipCopy keeps the invariant.
LEMMA SkipCopyOK ==
  ASSUME IInv, SkipCopy
  PROVE  IInv'
<1>1. /\ task.at = "copy" /\ (task' = NoTask \/ task' = NextDestination)
      /\ UNCHANGED replicas
      /\ UNCHANGED <<tables, heard, endpoints, rpc, beat, disk>>
      /\ UNCHANGED <<tables, heard, endpoints, rpc, beat>>
  BY DEF SkipCopy
<1>2. /\ TablesOK' /\ HeardOK' /\ RpcOK' /\ DiskOK'
      /\ \A g, t : Has(g, t)' = Has(g, t)
      /\ \A t : Known(t)' = Known(t)
      /\ UNCHANGED <<chunks, next, recovered, generation, allocated>>
      /\ UNCHANGED <<heard, endpoints, rpc, beat, disk>>
  BY <1>1, TaskStep
<1>3. ListsOK' /\ \A g : Listed(g)' = Listed(g)
  BY <1>1, PartsKept
<1>4. CASE task' = NoTask
  <2>1. TaskOK' /\ KnownOK' /\ ExistOK' /\ MoveOK'
    BY <1>2, <1>3, <1>4, NoTaskSound
       DEF IInv, TaskOK, KnownOK, ExistOK, MoveOK
  <2> QED BY <1>2, <1>3, <2>1 DEF IInv
<1>5. CASE task' = NextDestination
  BY <1>1, <1>2, <1>3, <1>5, ToNextDestination
<1> QED BY <1>1, <1>4, <1>5

\* BeginCopy keeps the invariant.
LEMMA BeginCopyOK ==
  ASSUME IInv, BeginCopy
  PROVE  IInv'
<1> DEFINE h == task.chunk
           s == Head(task.to)
           from == task.from
           old == IF h \in DOMAIN disk[s] /\ ~({s, from} \subseteq Attached)
                  THEN disk[s][h] ELSE {}
           f == Put(disk[s], h, old)
           data == disk[from][h]
           at == IF data = {} THEN "register" ELSE "write"
<1>1. /\ task.at = "copy"
      /\ UNCHANGED replicas
      /\ UNCHANGED <<tables, replicas, heard, endpoints, rpc, beat>>
      /\ UNCHANGED <<tables, heard, endpoints, rpc, beat>>
      /\ \/ /\ h \in DOMAIN disk[from]
            /\ disk' = [disk EXCEPT ![s] = f]
            /\ task' = [task EXCEPT !.data = data, !.at = at]
         \/ /\ disk' = [disk EXCEPT ![s] = f]
            /\ task' = NextDestination
         \/ UNCHANGED disk /\ task' = NextDestination
  BY DEF BeginCopy
<1>2. /\ task \in Task /\ h \in Handle /\ from \in Server /\ s \in Server
      /\ task.to # <<>>
  BY <1>1, TransferSound
<1>3. f \in [DOMAIN disk[s] \cup {h} -> File]
  BY <1>2 DEF Put, IInv, DiskOK, File
<1> HIDE DEF f
<1>4. CASE disk' = [disk EXCEPT ![s] = f]
  <2> HIDE DEF s, h
  <2>1. /\ TablesOK' /\ ListsOK' /\ HeardOK' /\ RpcOK' /\ DiskOK'
        /\ \A g : Listed(g)' = Listed(g)
        /\ \A g, t : Has(g, t)' <=> Has(g, t) \/ (g = h /\ t = s)
        /\ \A t : Known(t)' = Known(t)
        /\ \A g : Kept(g)' = Kept(g)
    BY <1>1, <1>2, <1>3, <1>4, FilesOK
  <2>2. CASE task' = NextDestination
    BY <1>1, <2>1, <2>2, ToNextDestination
  <2>3. CASE h \in DOMAIN disk[from] /\ task' = [task EXCEPT !.data = data, !.at = at]
    <3>1. data \in File
      BY <1>2, <2>3 DEF IInv, DiskOK
    <3>2. at \in {"register", "write"}
      OBVIOUS
    <3> HIDE DEF data, at
    <3>3. /\ task' \in Task /\ task'.at = at /\ task'.chunk = h
          /\ task'.to = task.to /\ task'.from = task.from
          /\ task'.kind = task.kind
      BY <1>2, <2>3, <3>1, <3>2 DEF Task, h
    <3>4. TaskOK'
      BY <1>2, <3>2, <3>3 DEF TaskOK
    <3>5. /\ UNCHANGED <<chunks, next, recovered, generation, allocated>>
          /\ UNCHANGED <<heard, endpoints, rpc, beat>>
      BY <1>1 DEF tables
    <3>6. KnownOK'
      BY <2>1, <3>3, <3>5 DEF IInv, KnownOK
    <3>7. ExistOK'
      BY <2>1, <3>3, <3>5 DEF IInv, ExistOK, s
    <3>8. MoveOK'
      BY <1>1, <2>1, <3>2, <3>3 DEF IInv, MoveOK, h
    <3> QED BY <2>1, <3>4, <3>6, <3>7, <3>8 DEF IInv
  <2> QED BY <1>1, <2>2, <2>3 DEF s, h
<1>5. CASE UNCHANGED disk /\ task' = NextDestination
  <2>1. UNCHANGED <<tables, heard, endpoints, rpc, beat, disk>>
    BY <1>1, <1>5
  <2>2. /\ TablesOK' /\ HeardOK' /\ RpcOK' /\ DiskOK'
        /\ \A g, t : Has(g, t)' = Has(g, t)
        /\ \A t : Known(t)' = Known(t)
    BY <2>1, TaskStep
  <2>3. ListsOK' /\ \A g : Listed(g)' = Listed(g)
    BY <1>1, PartsKept
  <2> QED BY <1>1, <1>5, <2>2, <2>3, ToNextDestination
<1> QED BY <1>1, <1>4, <1>5

\* WriteCopy keeps the invariant.
LEMMA WriteCopyOK ==
  ASSUME IInv, WriteCopy
  PROVE  IInv'
<1> DEFINE h == task.chunk
           s == Head(task.to)
<1>1. /\ task.at = "write"
      /\ UNCHANGED replicas
      /\ UNCHANGED <<tables, replicas, heard, endpoints, rpc, beat>>
      /\ UNCHANGED <<tables, heard, endpoints, rpc, beat>>
      /\ \/ /\ h \in DOMAIN disk[s]
            /\ \E tail \in {{}, disk[s][h]} :
                 disk' = [disk EXCEPT ![s][h] = task.data \cup tail]
            /\ \/ task' = [task EXCEPT !.at = "register"]
               \/ task' = NextDestination
         \/ UNCHANGED disk /\ task' = NextDestination
  BY DEF WriteCopy
<1>2. /\ task \in Task /\ h \in Handle /\ task.from \in Server /\ s \in Server
      /\ task.to # <<>>
  BY <1>1, TransferSound
<1>3. CASE /\ h \in DOMAIN disk[s]
           /\ \E tail \in {{}, disk[s][h]} :
                disk' = [disk EXCEPT ![s][h] = task.data \cup tail]
  <2>1. PICK tail \in {{}, disk[s][h]} :
          disk' = [disk EXCEPT ![s][h] = task.data \cup tail]
    BY <1>3
  <2> DEFINE f == [disk[s] EXCEPT ![h] = task.data \cup tail]
  <2>2. f \in [DOMAIN disk[s] \cup {h} -> File]
    <3>1. task.data \in File
      BY <1>2 DEF Task
    <3>2. disk[s] \in [DOMAIN disk[s] -> File] /\ disk[s][h] \in File
      BY <1>2, <1>3 DEF IInv, DiskOK
    <3>3. task.data \cup tail \in File
      BY <3>1, <3>2 DEF File
    <3> QED BY <1>3, <3>2, <3>3
  <2>3. disk' = [disk EXCEPT ![s] = f]
    BY <2>1
  <2>4. Has(h, s)
    BY <1>2, <1>3 DEF Has, IInv, DiskOK
  <2> HIDE DEF f, s, h
  <2>5. /\ TablesOK' /\ ListsOK' /\ HeardOK' /\ RpcOK' /\ DiskOK'
        /\ \A g : Listed(g)' = Listed(g)
        /\ \A g, t : Has(g, t)' <=> Has(g, t) \/ (g = h /\ t = s)
        /\ \A t : Known(t)' = Known(t)
        /\ \A g : Kept(g)' = Kept(g)
    BY <1>1, <1>2, <2>2, <2>3, FilesOK
  <2>6. CASE task' = NextDestination
    BY <1>1, <2>5, <2>6, ToNextDestination
  <2>7. CASE task' = [task EXCEPT !.at = "register"]
    <3>1. /\ task' \in Task /\ task'.at = "register" /\ task'.chunk = h
          /\ task'.to = task.to /\ task'.from = task.from
          /\ task'.kind = task.kind
      BY <1>2, <2>7 DEF Task, h
    <3>2. TaskOK'
      BY <1>2, <3>1 DEF TaskOK
    <3>3. /\ UNCHANGED <<chunks, next, recovered, generation, allocated>>
          /\ UNCHANGED <<heard, endpoints, rpc, beat>>
      BY <1>1 DEF tables
    <3>4. KnownOK'
      BY <2>5, <3>1, <3>3 DEF IInv, KnownOK
    <3>5. ExistOK'
      BY <2>4, <2>5, <3>1, <3>3 DEF IInv, ExistOK, s
    <3>6. MoveOK'
      BY <1>1, <2>5, <3>1 DEF IInv, MoveOK, h
    <3> QED BY <2>5, <3>2, <3>4, <3>5, <3>6 DEF IInv
  <2> QED BY <1>1, <2>6, <2>7
<1>4. CASE UNCHANGED disk /\ task' = NextDestination
  <2>1. UNCHANGED <<tables, heard, endpoints, rpc, beat, disk>>
    BY <1>1, <1>4
  <2>2. /\ TablesOK' /\ HeardOK' /\ RpcOK' /\ DiskOK'
        /\ \A g, t : Has(g, t)' = Has(g, t)
        /\ \A t : Known(t)' = Known(t)
    BY <2>1, TaskStep
  <2>3. ListsOK' /\ \A g : Listed(g)' = Listed(g)
    BY <1>1, PartsKept
  <2> QED BY <1>1, <1>4, <2>2, <2>3, ToNextDestination
<1> QED BY <1>1, <1>3, <1>4

\* RegisterCopy keeps the invariant.
LEMMA RegisterCopyOK ==
  ASSUME IInv, RegisterCopy
  PROVE  IInv'
<1> DEFINE h == task.chunk
           s == Head(task.to)
           rs == Registered(List(h), s, task.lead)
<1>1. /\ task.at = "register"
      /\ replicas' = WithList(h, rs)
      /\ UNCHANGED <<tables, heard, endpoints, rpc, beat, disk>>
      /\ \/ task.kind = "move" /\ task' = [task EXCEPT !.at = "remove"]
         \/ task' = NextDestination
  BY DEF RegisterCopy
<1>2. /\ task \in Task /\ h \in Handle /\ task.from \in Server /\ s \in Server
      /\ task.to # <<>> /\ Known(s) /\ task.lead \in BOOLEAN
  BY <1>1, TransferSound DEF Task
<1>3. /\ TablesOK' /\ HeardOK' /\ RpcOK' /\ DiskOK'
      /\ \A g, t : Has(g, t)' = Has(g, t)
      /\ \A t : Known(t)' = Known(t)
      /\ \A g : Kept(g)' = Kept(g)
      /\ UNCHANGED <<chunks, next, recovered, generation, allocated>>
      /\ UNCHANGED <<heard, endpoints, rpc, beat, disk>>
  BY <1>1, TaskStep
<1>4. /\ rs \in Seq(Entry(Server)) /\ IsReplicaList(rs)
      /\ Servers(rs) = Listed(h) \cup {s}
  BY <1>2, RegisteredOK DEF IInv
<1>5. Has(h, s)
  BY <1>1 DEF IInv, ExistOK
<1> HIDE DEF rs, s, h
<1>6. /\ ListsOK'
      /\ \A g : Listed(g)' = IF g = h THEN Listed(h) \cup {s} ELSE Listed(g)
  BY <1>1, <1>2, <1>4, WithListOK DEF IInv
<1>7. TaskOK' /\ (\A i \in DOMAIN task'.to : Known(task'.to[i]))
  <2>1. CASE task' = NextDestination
    BY <1>1, <2>1, NextDestinationSound DEF IInv, KnownOK
  <2>2. CASE task.kind = "move" /\ task' = [task EXCEPT !.at = "remove"]
    <3>1. /\ task' \in Task /\ task'.at = "remove" /\ task'.chunk = h
          /\ task'.to = task.to /\ task'.from = task.from
          /\ task'.kind = "move"
      BY <1>2, <2>2 DEF Task, h
    <3> QED BY <1>2, <3>1 DEF TaskOK, IInv, KnownOK
  <2> QED BY <1>1, <2>1, <2>2
<1>8. \/ task'.at \in {"idle", "move"}
      \/ task'.at = "copy" /\ task'.kind = "recover"
      \/ /\ task'.at = "remove" /\ task'.chunk = h /\ task'.to = task.to
         /\ task'.from = task.from /\ task.kind = "move"
  <2>1. CASE task' = NextDestination
    BY <1>1, <2>1, NextDestinationSound
  <2>2. CASE task.kind = "move" /\ task' = [task EXCEPT !.at = "remove"]
    BY <1>2, <2>2 DEF Task, h
  <2> QED BY <1>1, <2>1, <2>2
<1>9. KnownOK'
  BY <1>2, <1>3, <1>6, <1>7 DEF IInv, KnownOK
<1>10. ExistOK'
  <2>1. (task.at \in {"register", "remove"} => Has(task.chunk, Head(task.to)))'
    BY <1>3, <1>5, <1>8 DEF s
  <2>2. (rpc.at = "create" =>
          /\ \A t \in Listed(rpc.chunk) :
               Has(rpc.chunk, t) \/ \E i \in DOMAIN rpc.place : t = rpc.place[i]
          /\ \A i \in 1..rpc.i - 1 : Has(rpc.chunk, rpc.place[i]))'
    BY <1>3, <1>5, <1>6 DEF IInv, ExistOK
  <2>3. /\ \A g \in allocated' : \A t \in Listed(g)' : Has(g, t)'
        /\ \A g \in Handle : g >= next' => \A t \in Listed(g)' : Has(g, t)'
    BY <1>3, <1>5, <1>6 DEF IInv, ExistOK
  <2>4. \A t \in DOMAIN heard' : \A g \in heard'[t].reported : Has(g, t)'
    BY <1>3 DEF IInv, ExistOK
  <2> QED BY <2>1, <2>2, <2>3, <2>4 DEF ExistOK
<1>11. MoveOK'
  BY <1>1, <1>3, <1>6, <1>8 DEF IInv, MoveOK, s, h
<1> QED BY <1>3, <1>6, <1>7, <1>9, <1>10, <1>11 DEF IInv

-----------------------------------------------------------------------------
(* Rebalancing.                                                            *)

\* A step that changes nothing but the task, with nothing to copy yet or with
\* a copy from a server that is listed to one that is not.
LEMMA TaskOnly ==
  ASSUME IInv, UNCHANGED replicas,
         UNCHANGED <<tables, heard, endpoints, rpc, beat, disk>>,
         TaskOK', \A i \in DOMAIN task'.to : Known(task'.to[i]),
         task'.at \notin {"write", "register", "remove"},
         task'.at = "copy" =>
           /\ task'.from \in Listed(task'.chunk)
           /\ Head(task'.to) \notin Listed(task'.chunk)
  PROVE  IInv'
<1>1. /\ TablesOK' /\ HeardOK' /\ RpcOK' /\ DiskOK'
      /\ \A g, t : Has(g, t)' = Has(g, t)
      /\ \A t : Known(t)' = Known(t)
      /\ UNCHANGED <<chunks, next, recovered, generation, allocated>>
      /\ UNCHANGED <<heard, endpoints, rpc, beat, disk>>
  BY TaskStep
<1>2. ListsOK' /\ \A g : Listed(g)' = Listed(g)
  BY PartsKept
<1>3. KnownOK' /\ ExistOK' /\ MoveOK'
  BY <1>1, <1>2 DEF IInv, KnownOK, ExistOK, MoveOK
<1> QED BY <1>1, <1>2, <1>3 DEF IInv

\* Rebalance keeps the invariant.
LEMMA RebalanceOK ==
  ASSUME IInv, Rebalance
  PROVE  IInv'
<1> DEFINE sound == {s \in LiveServers : Alive(s) /\ HasChunkserver(s)}
<1>1. PICK from \in sound, to \in sound :
        task' = [NoTask EXCEPT
                  !.at = "move", !.kind = "move", !.from = from, !.to = <<to>>,
                  !.rest = {h \in ChunksOn(from) : MayMove(h, from, to)}]
  BY DEF Rebalance
<1>2. /\ UNCHANGED replicas
      /\ UNCHANGED <<tables, heard, endpoints, rpc, beat, disk>>
  BY DEF Rebalance
<1>3. from \in Server /\ to \in Server /\ Known(to)
  BY DEF LiveServers, HasChunkserver, Known, IInv, HeardOK
<1> DEFINE rest == {h \in ChunksOn(from) : MayMove(h, from, to)}
           dests == <<to>>
<1>4. rest \in SUBSET Handle
  BY DEF ChunksOn, IInv, ListsOK
<1>5. /\ dests \in Seq(Server) /\ dests # <<>>
      /\ \A i \in DOMAIN dests : Known(dests[i])
  BY <1>3
<1>6. task' = [NoTask EXCEPT !.at = "move", !.kind = "move", !.from = from,
                             !.to = dests, !.rest = rest]
  BY <1>1
<1> HIDE DEF rest, dests
<1>7. /\ task' \in Task /\ task'.at = "move" /\ task'.kind = "move"
      /\ task'.from = from /\ task'.to = dests
  BY <1>3, <1>4, <1>5, <1>6, NoTaskSound DEF Task
<1>8. TaskOK' /\ \A i \in DOMAIN task'.to : Known(task'.to[i])
  BY <1>3, <1>5, <1>7 DEF TaskOK
<1> QED BY <1>2, <1>7, <1>8, TaskOnly

\* StartMove keeps the invariant.
LEMMA StartMoveOK ==
  ASSUME IInv, StartMove
  PROVE  IInv'
<1>1. /\ task.at = "move"
      /\ UNCHANGED replicas
      /\ UNCHANGED <<tables, heard, endpoints, rpc, beat, disk>>
  BY DEF StartMove
<1>2. /\ task \in Task /\ task.to # <<>> /\ task.from \in Server
      /\ task.kind = "move" /\ task.rest \in SUBSET Handle
      /\ \A i \in DOMAIN task.to : Known(task.to[i])
  BY <1>1 DEF IInv, TaskOK, KnownOK, Task
<1>3. CASE task' = NoTask
  <2>1. TaskOK' /\ \A i \in DOMAIN task'.to : Known(task'.to[i])
    BY <1>3, NoTaskSound DEF TaskOK
  <2>2. task'.at = "idle"
    BY <1>3, NoTaskSound
  <2> QED BY <1>1, <2>1, <2>2, TaskOnly
<1>4. ASSUME NEW h \in task.rest, NEW at, NEW lead \in BOOLEAN,
             (at = "copy" /\ MayMove(h, task.from, Head(task.to))) \/ at = "move",
             task' = [task EXCEPT !.at = at, !.chunk = h, !.lead = lead,
                                  !.rest = @ \ {h}]
      PROVE  IInv'
  <2>1. /\ task' \in Task /\ task'.at = at /\ task'.chunk = h
        /\ task'.to = task.to /\ task'.from = task.from
        /\ task'.kind = "move"
    BY <1>2, <1>4 DEF Task
  <2>2. TaskOK' /\ \A i \in DOMAIN task'.to : Known(task'.to[i])
    BY <1>2, <1>4, <2>1 DEF TaskOK
  <2>3. task'.at = "copy" =>
          /\ task'.from \in Listed(task'.chunk)
          /\ Head(task'.to) \notin Listed(task'.chunk)
    BY <1>4, <2>1 DEF MayMove, Listed
  <2> QED BY <1>1, <1>4, <2>1, <2>2, <2>3, TaskOnly
<1>5. CASE \E h \in task.rest :
             task' = [task EXCEPT
               !.at = IF MayMove(h, task.from, Head(task.to))
                      THEN "copy" ELSE "move",
               !.chunk = h,
               !.lead = task.from \in Primaries(List(h)),
               !.rest = @ \ {h}]
  <2>1. PICK h \in task.rest :
             task' = [task EXCEPT
               !.at = IF MayMove(h, task.from, Head(task.to))
                      THEN "copy" ELSE "move",
               !.chunk = h,
               !.lead = task.from \in Primaries(List(h)),
               !.rest = @ \ {h}]
    BY <1>5
  <2> DEFINE at == IF MayMove(h, task.from, Head(task.to)) THEN "copy" ELSE "move"
             lead == task.from \in Primaries(List(h))
  <2>2. task' = [task EXCEPT !.at = at, !.chunk = h, !.lead = lead, !.rest = @ \ {h}]
    BY <2>1
  <2>3. lead \in BOOLEAN
    OBVIOUS
  <2>4. (at = "copy" /\ MayMove(h, task.from, Head(task.to))) \/ at = "move"
    OBVIOUS
  <2> HIDE DEF at, lead
  <2> QED BY <1>4, <2>2, <2>3, <2>4
<1> QED BY <1>3, <1>5 DEF StartMove

\* RemoveMoved takes nobody off a list but the source of the move, if it is
\* listed.
LEMMA RemoveMovedLists ==
  ASSUME IInv, RemoveMoved, NEW h, h = task.chunk, NEW from, from = task.from
  PROVE  /\ ListsOK' /\ \A g : Listed(g)' \subseteq Listed(g)
         /\ \A g : g # h => Listed(g)' = Listed(g)
         /\ from \in Listed(h) => Listed(h) \ {from} \subseteq Listed(h)'
<1> DEFINE t == Head(task.to)
           moved == WithoutReplica(h, from)
<1>1. /\ task.at = "remove"
      /\ replicas' =
           IF from \notin Servers(List(h)) THEN WithoutReplica(h, t)
           ELSE IF task.lead /\ h \in DOMAIN moved
           THEN [moved EXCEPT ![h] = WithPrimary(@, t)]
           ELSE moved
  BY DEF RemoveMoved
<1>2. h \in Handle
  BY <1>1, TransferSound
<1> HIDE DEF t
<1>3. CASE from \notin Servers(List(h)) /\ replicas' = WithoutReplica(h, t)
  <2>1. from \notin Listed(h)
    BY <1>3 DEF Listed
  <2>2. /\ ListsOK'
        /\ \A g : Listed(g)' \subseteq Listed(g)
        /\ \A g : g # h => Listed(g)' = Listed(g)
    BY <1>2, <1>3, WithoutReplicaOK DEF IInv
  <2> QED BY <2>1, <2>2
<1>5. CASE replicas' = moved
  <2>1. /\ ListsOK'
        /\ \A g : Listed(g)' \subseteq Listed(g)
        /\ \A g : g # h => Listed(g)' = Listed(g)
        /\ Listed(h) \ {from} \subseteq Listed(h)'
    BY <1>2, <1>5, WithoutReplicaOK DEF IInv
  <2> QED BY <2>1
<1>4. CASE /\ from \in Servers(List(h)) /\ h \in DOMAIN moved
           /\ replicas' = [moved EXCEPT ![h] = WithPrimary(@, t)]
  <2> DEFINE old == List(h)
             rs == Unregistered(old, from)
             new == WithPrimary(rs, t)
  <2>1. old \in Seq(Entry(Server)) /\ (old = <<>> \/ IsReplicaList(old))
        /\ from \in Servers(old) /\ old # <<>> /\ Listed(h) = Servers(old)
    BY <1>4, ListSound DEF IInv, Servers, Listed
  <2> HIDE DEF old
  <2>2. /\ rs \in Seq(Entry(Server)) /\ (rs = <<>> \/ IsReplicaList(rs))
        /\ Servers(rs) \subseteq Servers(old)
        /\ Servers(old) \ {from} \subseteq Servers(rs)
    BY <2>1, UnregisteredSound
  <2>3. moved = WithList(h, rs)
    BY <1>4 DEF WithoutReplica, old
  <2> HIDE DEF rs, moved
  <2>4. rs # <<>>
    BY <1>4, <2>3 DEF WithList, Drop
  <2>5. moved = Put(replicas, h, rs)
    BY <2>3, <2>4 DEF WithList
  <2>6. /\ new \in Seq(Entry(Server)) /\ IsReplicaList(new)
        /\ Servers(new) = Servers(rs)
    BY <2>2, <2>4, WithPrimarySound
  <2>7. replicas' = Put(replicas, h, new)
    BY <1>4, <2>5 DEF Put
  <2> HIDE DEF new
  <2>8. new # <<>>
    BY <2>6 DEF IsReplicaList
  <2>9. replicas' = WithList(h, new)
    BY <2>7, <2>8 DEF WithList
  <2>10. /\ ListsOK'
         /\ \A g : Listed(g)' = IF g = h THEN Servers(new) ELSE Listed(g)
    BY <1>2, <2>6, <2>9, WithListOK DEF IInv
  <2>11. Servers(new) \subseteq Listed(h) /\ Listed(h) \ {from} \subseteq Servers(new)
    BY <2>1, <2>2, <2>6
  <2> QED BY <2>10, <2>11
<1> QED BY <1>1, <1>3, <1>4, <1>5

\* RemoveMoved keeps the invariant.
LEMMA RemoveMovedOK ==
  ASSUME IInv, RemoveMoved
  PROVE  IInv'
<1>1. /\ task.at = "remove" /\ task' = NextDestination
      /\ UNCHANGED <<tables, heard, endpoints, rpc, beat, disk>>
      /\ UNCHANGED <<tables, heard, endpoints, rpc, beat>>
  BY DEF RemoveMoved
<1>2. /\ TablesOK' /\ HeardOK' /\ RpcOK' /\ DiskOK'
      /\ \A g, s : Has(g, s)' = Has(g, s)
      /\ \A s : Known(s)' = Known(s)
  BY <1>1, TaskStep
<1>3. ListsOK' /\ \A g : Listed(g)' \subseteq Listed(g)
  BY RemoveMovedLists
<1> QED BY <1>1, <1>2, <1>3, ToNextDestination

-----------------------------------------------------------------------------
(* The master stops and starts.                                            *)

\* CreateCheckpoint keeps the invariant.
LEMMA CreateCheckpointOK ==
  ASSUME IInv, CreateCheckpoint
  PROVE  IInv'
<1>1. PICK n \in {0} \cup DOMAIN chunks :
        (\A h \in DOMAIN chunks : h <= n) /\ recovered' = n + 1
  BY DEF CreateCheckpoint
<1>2. /\ UNCHANGED <<chunks, next, generation, allocated>>
      /\ UNCHANGED <<replicas, heard, endpoints, rpc, task, beat, disk>>
      /\ UNCHANGED <<rpc, next, allocated>> /\ UNCHANGED <<endpoints, beat>>
      /\ UNCHANGED <<chunks, next, allocated, rpc>>
      /\ UNCHANGED <<heard, endpoints, beat>>
  BY DEF CreateCheckpoint
<1>3. /\ ListsOK' /\ HeardOK' /\ RpcOK' /\ TaskOK' /\ DiskOK'
      /\ \A g : Listed(g)' = Listed(g)
      /\ \A g, s : Has(g, s)' = Has(g, s)
      /\ \A s : Known(s)' = Known(s)
      /\ \A g : Kept(g)' = Kept(g)
  BY <1>2, PartsKept
<1>4. TablesOK'
  <2>1. /\ next \in Nat /\ recovered \in Nat /\ 1 <= recovered /\ recovered <= next
        /\ \A h \in DOMAIN chunks : h \in Nat /\ h < recovered
    BY ClusterAssumption DEF IInv, TablesOK, Handle
  <2>2. n \in Nat /\ n < recovered
    BY <2>1
  <2>3. recovered' \in 1..next
    BY <1>1, <2>1, <2>2
  <2>4. \A h \in DOMAIN chunks : h < recovered'
    BY <1>1, <2>1, <2>2
  <2> QED BY <1>2, <2>3, <2>4 DEF IInv, TablesOK
<1>5. KnownOK' /\ ExistOK' /\ MoveOK'
  BY <1>2, <1>3 DEF IInv, KnownOK, ExistOK, MoveOK
<1> QED BY <1>3, <1>4, <1>5 DEF IInv

\* RestartMaster keeps the invariant.
LEMMA RestartMasterOK ==
  ASSUME IInv, RestartMaster
  PROVE  IInv'
<1>1. /\ next' = recovered
      /\ replicas' = <<>> /\ heard' = <<>> /\ endpoints' = {}
      /\ rpc' = NoRpc /\ task' = NoTask
      /\ beat' = [s \in Server |-> "idle"]
      /\ UNCHANGED <<chunks, recovered, generation, allocated, disk>>
  BY DEF RestartMaster
<1>2. DOMAIN <<>> = {} /\ <<>> \in Seq(Server)
  OBVIOUS
<1>3. \A g : Listed(g)' = {}
  BY <1>1, <1>2 DEF Listed, List, Servers
<1>4. TablesOK'
  <2>1. next' \in 1..MaxHandle + 1 /\ recovered' \in 1..next'
    BY <1>1, ClusterAssumption DEF IInv, TablesOK
  <2> QED BY <1>1, <2>1 DEF IInv, TablesOK
<1>5. ListsOK' /\ HeardOK'
  BY <1>1, <1>2 DEF ListsOK, HeardOK
<1>6. RpcOK' /\ rpc'.at = "idle"
  BY <1>1, <1>2 DEF RpcOK, NoRpc, Rpc
<1>7. TaskOK' /\ task'.at = "idle" /\ DOMAIN task'.to = {}
  BY <1>1, <1>2, NoTaskSound DEF TaskOK
<1>8. DiskOK'
  BY <1>1 DEF IInv, DiskOK
<1>9. KnownOK' /\ ExistOK' /\ MoveOK'
  BY <1>1, <1>2, <1>3, <1>6, <1>7 DEF KnownOK, ExistOK, MoveOK
<1> QED BY <1>4, <1>5, <1>6, <1>7, <1>8, <1>9 DEF IInv

-----------------------------------------------------------------------------

\* The invariant holds at first.
LEMMA InitOK ==
  ASSUME Init
  PROVE  IInv
<1>1. DOMAIN <<>> = {} /\ <<>> \in Seq(Server)
  OBVIOUS
<1>2. \A g : Listed(g) = {}
  BY <1>1 DEF Init, Listed, List, Servers
<1>3. TablesOK
  BY <1>1, ClusterAssumption DEF Init, TablesOK
<1>4. ListsOK /\ HeardOK
  BY <1>1 DEF Init, ListsOK, HeardOK
<1>5. RpcOK /\ rpc.at = "idle"
  BY <1>1 DEF Init, RpcOK, NoRpc, Rpc
<1>6. TaskOK /\ task.at = "idle" /\ DOMAIN task.to = {}
  BY <1>1, NoTaskSound DEF Init, TaskOK
<1>7. DiskOK
  BY <1>1 DEF Init, DiskOK
<1>8. KnownOK /\ ExistOK /\ MoveOK
  BY <1>1, <1>2, <1>5, <1>6 DEF Init, KnownOK, ExistOK, MoveOK
<1> QED BY <1>3, <1>4, <1>5, <1>6, <1>7, <1>8 DEF IInv

\* A step that changes nothing keeps it.
LEMMA StutterOK ==
  ASSUME IInv, UNCHANGED vars
  PROVE  IInv'
<1>1. /\ UNCHANGED <<tables, replicas, heard, endpoints, rpc, task, beat, disk>>
      /\ UNCHANGED <<chunks, next, recovered, generation, allocated>>
      /\ UNCHANGED tables
      /\ UNCHANGED replicas /\ UNCHANGED <<heard, endpoints, beat>>
      /\ UNCHANGED <<rpc, next, allocated>> /\ UNCHANGED task
      /\ UNCHANGED disk /\ UNCHANGED <<endpoints, beat>>
      /\ UNCHANGED <<chunks, next, allocated, rpc>>
  BY DEF vars, tables
<1>2. /\ TablesOK' /\ ListsOK' /\ HeardOK' /\ RpcOK' /\ TaskOK' /\ DiskOK'
      /\ \A g : Listed(g)' = Listed(g)
      /\ \A g, s : Has(g, s)' = Has(g, s)
      /\ \A s : Known(s)' = Known(s)
      /\ \A g : Kept(g)' = Kept(g)
  BY <1>1, PartsKept
<1>3. KnownOK' /\ ExistOK' /\ MoveOK'
  BY <1>1, <1>2 DEF IInv, KnownOK, ExistOK, MoveOK
<1> QED BY <1>2, <1>3 DEF IInv

\* Every step keeps the invariant.
LEMMA NextOK ==
  ASSUME IInv, [Next]_vars
  PROVE  IInv'
<1>1. CASE \E s \in Server : Heartbeat(s) \/ TimeOut(s)
  BY <1>1, HearHeartbeatOK, ListReportedOK, RegisterEndpointOK, TimeOutOK
     DEF Heartbeat
<1>2. CASE DetectFailedServers
  BY <1>2, DetectFailedServersOK
<1>3. CASE \E factor \in FileFactor : BeginAllocate(factor)
  BY <1>3, BeginAllocateOK
<1>4. CASE CreateReplica \/ UndoPlacement \/ EndAllocate
  BY <1>4, CreateReplicaOK, UndoPlacementOK, EndAllocateOK
<1>5. CASE \E h \in Handle : DeleteFile(h) \/ SetChunkVersion(h)
  BY <1>5, DeleteFileOK, SetChunkVersionOK
<1>6. CASE \E s \in Server, h \in Handle, g \in Generation : WriteChunk(s, h, g)
  BY <1>6, WriteChunkOK
<1>7. CASE Maintain
  <2>1. CASE \E h \in Handle : StartRecovery(h)
    BY <2>1, StartRecoveryOK
  <2>2. CASE DropDead \/ ChooseSource \/ PurgeStale
    BY <2>2, DropDeadOK, ChooseSourceOK, PurgeStaleOK
  <2>3. CASE Rebalance \/ StartMove
    BY <2>3, RebalanceOK, StartMoveOK
  <2>4. CASE SkipCopy \/ BeginCopy \/ WriteCopy
    BY <2>4, SkipCopyOK, BeginCopyOK, WriteCopyOK
  <2>5. CASE RegisterCopy \/ RemoveMoved
    BY <2>5, RegisterCopyOK, RemoveMovedOK
  <2> QED BY <1>7, <2>1, <2>2, <2>3, <2>4, <2>5 DEF Maintain
<1>8. CASE CreateCheckpoint \/ RestartMaster
  BY <1>8, CreateCheckpointOK, RestartMasterOK
<1>9. CASE UNCHANGED vars
  BY <1>9, StutterOK
<1> QED BY <1>1, <1>2, <1>3, <1>4, <1>5, <1>6, <1>7, <1>8, <1>9 DEF Next

\* The invariant always holds.
LEMMA Inductive == Spec => []IInv
<1>1. Init => IInv
  BY InitOK
<1>2. IInv /\ [Next]_vars => IInv'
  BY NextOK
<1> QED BY <1>1, <1>2, PTL DEF Spec

\* Every location the master has can be served: who is listed has an endpoint
\* or is about to get one from the heartbeat that is being processed.
THEOREM LocationsAlwaysServable == Spec => []LocationsServable
<1>1. IInv => LocationsServable
  <2> SUFFICES ASSUME IInv, NEW h \in DOMAIN replicas,
                      NEW s \in Servers(replicas[h]) \ Attached
               PROVE  s \in endpoints \/ beat[s] \in {"heard", "listed"}
    BY DEF LocationsServable
  <2>1. h \in Handle /\ s \in Listed(h)
    BY DEF IInv, ListsOK, Listed, List
  <2> QED BY <2>1 DEF IInv, KnownOK, Known
<1> QED BY <1>1, Inductive, PTL

\* A chunk that was allocated has a file on every server that is listed for
\* it, whatever fails, comes late or is repeated.
THEOREM AllocatedChunksAlwaysExist == Spec => []AllocatedChunksExist
<1>1. IInv => AllocatedChunksExist
  BY DEF IInv, ExistOK, Has, AllocatedChunksExist, Listed
<1> QED BY <1>1, Inductive, PTL

\* The master restarts no more often than the bound says.
LEMMA RestartsBounded == Spec => [](restarts \in 0..MaxRestarts)
<1> DEFINE Inv == restarts \in 0..MaxRestarts
<1>1. Init => Inv
  BY ClusterAssumption DEF Init
<1>2. Inv /\ [Next]_vars => Inv'
  <2> SUFFICES ASSUME Inv, [Next]_vars PROVE Inv'
    OBVIOUS
  <2>1. CASE RestartMaster
    BY <2>1, ClusterAssumption DEF RestartMaster
  <2>2. CASE UNCHANGED restarts
    BY <2>2
  <2>3. RestartMaster \/ UNCHANGED restarts
    BY DEF Next, vars, Heartbeat, HearHeartbeat, ListReported,
           RegisterEndpoint, TimeOut, DetectFailedServers, BeginAllocate,
           CreateReplica, UndoPlacement, EndAllocate, DeleteFile,
           SetChunkVersion, WriteChunk, Maintain, StartRecovery, DropDead,
           ChooseSource, PurgeStale, Rebalance, StartMove, SkipCopy,
           BeginCopy, WriteCopy, RegisterCopy, RemoveMoved, CreateCheckpoint
  <2> QED BY <2>1, <2>2, <2>3
<1> QED BY <1>1, <1>2, PTL DEF Spec

\* Every variable keeps its type, and every list the shape ReplicaManager
\* gives it.
THEOREM ClusterTypes == Spec => []TypeOK
<1>1. IInv /\ restarts \in 0..MaxRestarts => TypeOK
  <2> SUFFICES ASSUME IInv, restarts \in 0..MaxRestarts PROVE TypeOK
    OBVIOUS
  <2>1. \E H \in SUBSET Handle : chunks \in [H -> Chunk]
    BY DEF IInv, TablesOK
  <2>2. /\ next \in 1..MaxHandle + 1 /\ recovered \in 1..MaxHandle + 1
        /\ generation \in [Handle -> 0..MaxGeneration]
        /\ allocated \subseteq Handle
    BY ClusterAssumption DEF IInv, TablesOK
  <2>3. /\ DOMAIN replicas \subseteq Handle
        /\ \A h \in DOMAIN replicas :
             replicas[h] \in Seq(Listing) /\ IsReplicaList(replicas[h])
    BY DEF IInv, ListsOK, Listing, Entry
  <2>4. /\ \E S \in SUBSET Server : heard \in [S -> ServerState]
        /\ endpoints \subseteq Server
        /\ beat \in [Server -> {"idle", "heard", "listed"}]
    BY DEF IInv, HeardOK
  <2>5. rpc \in Rpc /\ task \in Task
    BY DEF IInv, RpcOK, TaskOK
  <2>6. \A s \in Server : \E H \in SUBSET Handle : disk[s] \in [H -> File]
    BY DEF IInv, DiskOK
  <2> QED BY <2>1, <2>2, <2>3, <2>4, <2>5, <2>6 DEF TypeOK
<1> QED BY <1>1, Inductive, RestartsBounded, PTL

\* RegisterCopy takes nobody off a list.
LEMMA RegisterCopyLists ==
  ASSUME IInv, RegisterCopy
  PROVE  \A g : Listed(g) \subseteq Listed(g)'
<1> DEFINE h == task.chunk
           rs == Registered(List(h), Head(task.to), task.lead)
<1>1. task.at = "register" /\ replicas' = WithList(h, rs)
  BY DEF RegisterCopy
<1>2. h \in Handle /\ Head(task.to) \in Server /\ task.lead \in BOOLEAN
  BY <1>1, TransferSound DEF Task
<1>3. /\ rs \in Seq(Entry(Server)) /\ IsReplicaList(rs)
      /\ Listed(h) \subseteq Servers(rs)
  BY <1>2, RegisteredOK DEF IInv
<1> HIDE DEF rs, h
<1>4. \A g : Listed(g)' = IF g = h THEN Servers(rs) ELSE Listed(g)
  BY <1>1, <1>2, <1>3, WithListOK DEF IInv
<1> QED BY <1>3, <1>4

\* A move drops a replica of an allocated chunk only when the server it moves
\* to is listed and has the file.
THEOREM MovesReplaceBeforeTheyDrop == Spec => ReplacedBeforeDropped
<1> DEFINE Replaced ==
             \A h \in DOMAIN chunks \cap allocated : \A s \in Servers(List(h)) :
               (task.kind = "move" /\ Maintain /\ s \notin Servers(List(h)')) =>
                 LET t == Head(task.to)
                 IN  t # s /\ t \in Servers(List(h)') /\ h \in DOMAIN disk[t]
<1>1. IInv /\ [Next]_vars => [Replaced]_vars
  <2> SUFFICES ASSUME IInv, NEW h \in DOMAIN chunks \cap allocated,
                      NEW s \in Listed(h), task.kind = "move", Maintain,
                      s \notin Listed(h)'
               PROVE  LET t == Head(task.to)
                      IN  t # s /\ t \in Listed(h)' /\ h \in DOMAIN disk[t]
    BY DEF Listed
  <2>1. ~UNCHANGED replicas
    BY PartsKept
  <2>2. task.at \notin {"drop", "purge"}
    BY DEF IInv, TaskOK
  <2>3. ~RegisterCopy
    BY RegisterCopyLists
  <2>4. RemoveMoved
    BY <2>1, <2>2, <2>3
       DEF Maintain, StartRecovery, DropDead, ChooseSource, PurgeStale,
           Rebalance, StartMove, SkipCopy, BeginCopy, WriteCopy
  <2>5. task.at = "remove"
    BY <2>4 DEF RemoveMoved
  <2>6. h = task.chunk
    BY <2>4, RemoveMovedLists
  <2>7. Kept(h)
    BY DEF Kept
  <2>8. /\ task.from # Head(task.to) /\ task.from \in Listed(h)
        /\ Head(task.to) \in Listed(h)
    BY <2>5, <2>6, <2>7 DEF IInv, MoveOK
  <2>9. Listed(h) \ {task.from} \subseteq Listed(h)'
    BY <2>4, <2>6, <2>8, RemoveMovedLists
  <2>10. Has(h, Head(task.to))
    BY <2>5, <2>6 DEF IInv, ExistOK
  <2> QED BY <2>8, <2>9, <2>10 DEF Has
<1> QED BY <1>1, Inductive, PTL DEF Spec, ReplacedBeforeDropped

-----------------------------------------------------------------------------
(* What the files hold.                                                    *)

\* The chunks that bytes for a handle can have been written to: every chunk it
\* has named, but not the one that is being allocated, which no client knows.
WrittenTo(h) ==
  1..(IF rpc.at # "idle" /\ rpc.chunk = h THEN generation[h] - 1
      ELSE generation[h])

FilesWritten ==
  \A s \in Server : \A h \in DOMAIN disk[s] : disk[s][h] \subseteq WrittenTo(h)

ContentsOK ==
  /\ FilesWritten
  /\ \A h \in Handle :
       task.at = "write" /\ task.chunk = h => task.data \subseteq WrittenTo(h)

\* An allocation leaves to its chunk only what is written after it is done.
LEMMA WrittenGrows ==
  ASSUME IInv, [Next]_vars, NEW h \in Handle
  PROVE  WrittenTo(h) \subseteq WrittenTo(h)'
<1>1. generation[h] \in Nat
  BY ClusterAssumption DEF IInv, TablesOK
<1>2. ASSUME NEW factor \in FileFactor, BeginAllocate(factor)
      PROVE  WrittenTo(h) \subseteq WrittenTo(h)'
  <2> DEFINE g == generation[h]
  <2>1. /\ rpc.at = "idle" /\ next \in Handle
        /\ generation' = [generation EXCEPT ![next] = @ + 1]
        /\ rpc'.at = "idle" \/ rpc'.chunk = next
    BY <1>2, ClusterAssumption DEF BeginAllocate, NoRpc, IInv, TablesOK, Handle
  <2>2. WrittenTo(h) = 1..g
    BY <2>1 DEF WrittenTo
  <2>3. \/ h = next /\ generation'[h] = g + 1
        \/ h # next /\ generation'[h] = g
    BY <2>1 DEF IInv, TablesOK
  <2>4. WrittenTo(h)' \in {1..g, 1..g + 1, 1..(g + 1) - 1}
    BY <2>1, <2>3 DEF WrittenTo
  <2> HIDE DEF g
  <2>5. g \in Nat
    BY <1>1 DEF g
  <2> QED BY <2>2, <2>4, <2>5
<1>3. ASSUME UNCHANGED generation,
             \/ UNCHANGED rpc
             \/ rpc' = NoRpc
             \/ rpc.at # "idle" /\ rpc'.chunk = rpc.chunk
      PROVE  WrittenTo(h) \subseteq WrittenTo(h)'
  <2> DEFINE g == generation[h]
  <2>1. \/ WrittenTo(h)' = WrittenTo(h)
        \/ WrittenTo(h) = 1..g - 1 /\ WrittenTo(h)' = 1..g
    BY <1>3 DEF WrittenTo, NoRpc
  <2> HIDE DEF g
  <2>2. g \in Nat
    BY <1>1 DEF g
  <2> QED BY <2>1, <2>2
<1>4. CASE CreateReplica \/ UndoPlacement
  <2>1. rpc \in Rpc
    BY DEF IInv, RpcOK
  <2>2. /\ UNCHANGED generation /\ rpc.at # "idle"
        /\ rpc' = NoRpc \/ rpc'.chunk = rpc.chunk
    BY <1>4, <2>1 DEF CreateReplica, UndoPlacement, tables, Rpc
  <2> QED BY <1>3, <2>2
<1>5. CASE EndAllocate \/ RestartMaster
  BY <1>3, <1>5 DEF EndAllocate, RestartMaster
<1>6. CASE UNCHANGED <<generation, rpc>>
  BY <1>3, <1>6
<1>7. \/ \E factor \in FileFactor : BeginAllocate(factor)
      \/ CreateReplica \/ UndoPlacement \/ EndAllocate \/ RestartMaster
      \/ UNCHANGED <<generation, rpc>>
  BY DEF Next, vars, tables, Heartbeat, HearHeartbeat, ListReported,
         RegisterEndpoint, TimeOut, DetectFailedServers, DeleteFile,
         SetChunkVersion, WriteChunk, Maintain, StartRecovery, DropDead,
         ChooseSource, PurgeStale, Rebalance, StartMove, SkipCopy, BeginCopy,
         WriteCopy, RegisterCopy, RemoveMoved, CreateCheckpoint
<1> QED BY <1>2, <1>4, <1>5, <1>6, <1>7

\* The files of one server change to files that hold what they may.
LEMMA FilesRewritten ==
  ASSUME IInv, [Next]_vars, FilesWritten, NEW s \in Server, NEW f,
         DOMAIN f \subseteq Handle, disk' = [disk EXCEPT ![s] = f],
         \A h \in DOMAIN f : f[h] \subseteq WrittenTo(h)
  PROVE  FilesWritten'
<1>1. disk'[s] = f /\ \A t \in Server \ {s} : disk'[t] = disk[t]
  BY DEF IInv, DiskOK
<1>2. \A t \in Server : DOMAIN disk[t] \subseteq Handle
  BY DEF IInv, DiskOK
<1>3. \A t \in Server : \A h \in DOMAIN disk'[t] :
        h \in Handle /\ disk'[t][h] \subseteq WrittenTo(h)
  BY <1>1, <1>2 DEF FilesWritten
<1> QED BY <1>3, WrittenGrows DEF FilesWritten

\* A step that leaves the files alone and reads none.
LEMMA FilesNotTouched ==
  ASSUME IInv, [Next]_vars, ContentsOK, UNCHANGED disk,
         task'.at = "write" => UNCHANGED task
  PROVE  ContentsOK'
<1>1. FilesWritten'
  <2>1. \A t \in Server : DOMAIN disk[t] \subseteq Handle
    BY DEF IInv, DiskOK
  <2> QED BY <2>1, WrittenGrows DEF ContentsOK, FilesWritten
<1>2. ASSUME NEW h \in Handle, task'.at = "write", task'.chunk = h
      PROVE  task'.data \subseteq WrittenTo(h)'
  BY <1>2, WrittenGrows DEF ContentsOK
<1> QED BY <1>1, <1>2 DEF ContentsOK

\* A replica that is created is empty, or an old file.
LEMMA CreateReplicaContents ==
  ASSUME IInv, [Next]_vars, ContentsOK, CreateReplica
  PROVE  ContentsOK'
<1> DEFINE s == rpc.place[rpc.i]
           f == Created(disk[s], rpc.chunk)
<1>1. UNCHANGED task /\ (UNCHANGED disk \/ disk' = [disk EXCEPT ![s] = f])
  BY DEF CreateReplica
<1>2. CASE UNCHANGED disk
  BY <1>1, <1>2, FilesNotTouched
<1>3. CASE disk' = [disk EXCEPT ![s] = f]
  <2>1. s \in Server /\ rpc.chunk \in Handle
    <3>1. /\ rpc.place \in Seq(Server) /\ rpc.i \in 1..Len(rpc.place)
          /\ rpc.chunk \in Handle
      <4>1. /\ rpc.at = "create" /\ rpc \in Rpc /\ rpc.i <= Len(rpc.place)
            /\ rpc.i \in 1..Len(rpc.place) + 1 /\ rpc.chunk \in Handle
        BY DEF CreateReplica, IInv, RpcOK
      <4>2. rpc.place \in Seq(Server) /\ Len(rpc.place) \in Nat
        BY <4>1, LenProperties DEF Rpc
      <4> QED BY <4>1, <4>2
    <3> QED BY <3>1, ElementOfSeq
  <2> HIDE DEF s
  <2>2. /\ DOMAIN disk[s] \subseteq Handle
        /\ \A h \in DOMAIN disk[s] : disk[s][h] \subseteq WrittenTo(h)
    BY <2>1 DEF IInv, DiskOK, ContentsOK, FilesWritten
  <2>3. /\ DOMAIN f \subseteq Handle
        /\ \A h \in DOMAIN f : f[h] \subseteq WrittenTo(h)
    BY <2>1, <2>2 DEF Created, Put
  <2> HIDE DEF f
  <2>4. FilesWritten'
    BY <1>3, <2>1, <2>3, FilesRewritten DEF ContentsOK
  <2> QED BY <1>1, <2>4, WrittenGrows DEF ContentsOK
<1> QED BY <1>1, <1>2, <1>3

\* A client writes to a chunk that it was given before.
LEMMA WriteChunkContents ==
  ASSUME IInv, [Next]_vars, ContentsOK,
         NEW s \in Server, NEW h \in Handle, NEW g \in Generation,
         WriteChunk(s, h, g)
  PROVE  ContentsOK'
<1> DEFINE f == [disk[s] EXCEPT ![h] = @ \cup {g}]
<1>1. /\ h \in DOMAIN disk[s] /\ g \in 1..generation[h]
      /\ rpc.chunk = h => g < generation[h]
      /\ disk' = [disk EXCEPT ![s] = f] /\ UNCHANGED task
  BY DEF WriteChunk
<1>2. g \in WrittenTo(h)
  <2>1. generation[h] \in Nat
    BY ClusterAssumption DEF IInv, TablesOK
  <2>2. g \in 1..generation[h] - 1 \/ ~(rpc.at # "idle" /\ rpc.chunk = h)
    BY <1>1, <2>1
  <2> QED BY <1>1, <2>2 DEF WrittenTo
<1>3. /\ DOMAIN disk[s] \subseteq Handle
      /\ \A c \in DOMAIN disk[s] : disk[s][c] \subseteq WrittenTo(c)
  BY DEF IInv, DiskOK, ContentsOK, FilesWritten
<1>4. /\ DOMAIN f \subseteq Handle
      /\ \A c \in DOMAIN f : f[c] \subseteq WrittenTo(c)
  BY <1>1, <1>2, <1>3
<1> HIDE DEF f
<1>5. FilesWritten'
  BY <1>1, <1>4, FilesRewritten DEF ContentsOK
<1> QED BY <1>1, <1>5, WrittenGrows DEF ContentsOK

\* A destination gets an empty file or keeps an old one, and what was read is
\* what the source held.
LEMMA BeginCopyContents ==
  ASSUME IInv, [Next]_vars, ContentsOK, BeginCopy
  PROVE  ContentsOK'
<1> DEFINE h == task.chunk
           s == Head(task.to)
           from == task.from
           old == IF h \in DOMAIN disk[s] /\ ~({s, from} \subseteq Attached)
                  THEN disk[s][h] ELSE {}
           f == Put(disk[s], h, old)
<1>1. /\ task.at = "copy"
      /\ UNCHANGED disk \/ disk' = [disk EXCEPT ![s] = f]
      /\ \/ /\ h \in DOMAIN disk[from]
            /\ task' = [task EXCEPT
                 !.data = disk[from][h],
                 !.at = IF disk[from][h] = {} THEN "register" ELSE "write"]
         \/ task' = NextDestination
  BY DEF BeginCopy
<1>2. task \in Task /\ h \in Handle /\ s \in Server /\ from \in Server
  BY <1>1, TransferSound
<1>3. \A c \in Handle : task'.at = "write" /\ task'.chunk = c =>
        task'.data \subseteq WrittenTo(c)
  <2>1. task' = NextDestination => task'.at # "write"
    BY <1>1, NextDestinationSound
  <2>2. h \in DOMAIN disk[from] => disk[from][h] \subseteq WrittenTo(h)
    BY <1>2 DEF ContentsOK, FilesWritten
  <2> QED BY <1>1, <1>2, <2>1, <2>2 DEF Task
<1>4. /\ DOMAIN disk[s] \subseteq Handle
      /\ \A c \in DOMAIN disk[s] : disk[s][c] \subseteq WrittenTo(c)
  BY <1>2 DEF IInv, DiskOK, ContentsOK, FilesWritten
<1> HIDE DEF h, s, from
<1>5. DOMAIN f \subseteq Handle /\ \A c \in DOMAIN f : f[c] \subseteq WrittenTo(c)
  BY <1>2, <1>4 DEF Put
<1> HIDE DEF f
<1>6. FilesWritten'
  <2>1. CASE disk' = [disk EXCEPT ![s] = f]
    BY <1>2, <1>5, <2>1, FilesRewritten DEF ContentsOK
  <2>2. CASE UNCHANGED disk
    <3>1. \A t \in Server : DOMAIN disk[t] \subseteq Handle
      BY DEF IInv, DiskOK
    <3> QED BY <2>2, <3>1, WrittenGrows DEF ContentsOK, FilesWritten
  <2> QED BY <1>1, <2>1, <2>2
<1> QED BY <1>3, <1>6, WrittenGrows DEF ContentsOK

\* What is copied was written to the chunk at the source.
LEMMA WriteCopyContents ==
  ASSUME IInv, [Next]_vars, ContentsOK, WriteCopy
  PROVE  ContentsOK'
<1> DEFINE h == task.chunk
           s == Head(task.to)
           f(tail) == [disk[s] EXCEPT ![h] = task.data \cup tail]
<1>1. /\ task.at = "write"
      /\ \/ /\ h \in DOMAIN disk[s]
            /\ \E tail \in {{}, disk[s][h]} : disk' = [disk EXCEPT ![s] = f(tail)]
            /\ task' = [task EXCEPT !.at = "register"] \/ task' = NextDestination
         \/ UNCHANGED disk /\ task' = NextDestination
  BY DEF WriteCopy
<1>2. task \in Task /\ h \in Handle /\ s \in Server
  BY <1>1, TransferSound
<1>3. task'.at # "write"
  <2>1. task' = NextDestination => task'.at # "write"
    BY <1>1, NextDestinationSound
  <2>2. task' = [task EXCEPT !.at = "register"] => task'.at # "write"
    BY <1>2 DEF Task
  <2> QED BY <1>1, <2>1, <2>2
<1>4. /\ DOMAIN disk[s] \subseteq Handle
      /\ \A c \in DOMAIN disk[s] : disk[s][c] \subseteq WrittenTo(c)
      /\ task.data \subseteq WrittenTo(h)
  BY <1>1, <1>2 DEF IInv, DiskOK, ContentsOK, FilesWritten
<1> HIDE DEF h, s
<1>5. CASE UNCHANGED disk
  BY <1>3, <1>5, FilesNotTouched
<1>6. ASSUME h \in DOMAIN disk[s], NEW tail \in {{}, disk[s][h]},
             disk' = [disk EXCEPT ![s] = f(tail)]
      PROVE  FilesWritten'
  <2>1. /\ DOMAIN f(tail) \subseteq Handle
        /\ \A c \in DOMAIN f(tail) : f(tail)[c] \subseteq WrittenTo(c)
    BY <1>4, <1>6
  <2> HIDE DEF f
  <2> QED BY <1>2, <1>6, <2>1, FilesRewritten DEF ContentsOK
<1> HIDE DEF f
<1>7. FilesWritten' \/ UNCHANGED disk
  BY <1>1, <1>6
<1> QED BY <1>3, <1>5, <1>7 DEF ContentsOK

\* A step that neither writes nor reads a file.
LEMMA OtherContents ==
  ASSUME IInv, Next, ContentsOK,
         ~CreateReplica, ~BeginCopy, ~WriteCopy,
         \A s \in Server, h \in Handle, g \in Generation : ~WriteChunk(s, h, g)
  PROVE  UNCHANGED disk /\ (task'.at = "write" => UNCHANGED task)
<1>1. task \in Task
  BY DEF IInv, TaskOK
<1>2. CASE SkipCopy \/ RegisterCopy \/ RemoveMoved
  <2>1. task' = NextDestination => task'.at # "write"
    BY <1>2, NextDestinationSound DEF SkipCopy, RegisterCopy, RemoveMoved
  <2>2. [task EXCEPT !.at = "remove"].at # "write"
    BY <1>1 DEF Task
  <2> QED BY <1>2, <2>1, <2>2, NoTaskSound DEF SkipCopy, RegisterCopy, RemoveMoved
<1>3. CASE \/ \E h \in Handle : StartRecovery(h)
           \/ DropDead \/ ChooseSource \/ PurgeStale
  BY <1>1, <1>3, NoTaskSound
     DEF StartRecovery, DropDead, ChooseSource, PurgeStale, Task, NoTask
<1>4. CASE Rebalance \/ StartMove
  BY <1>1, <1>4, NoTaskSound DEF Rebalance, StartMove, Task, NoTask
<1>5. CASE RestartMaster
  BY <1>5 DEF RestartMaster, NoTask
<1> QED BY <1>2, <1>3, <1>4, <1>5
     DEF Next, Heartbeat, HearHeartbeat, ListReported,
         RegisterEndpoint, TimeOut, DetectFailedServers, BeginAllocate,
         UndoPlacement, EndAllocate, DeleteFile, SetChunkVersion, Maintain,
         CreateCheckpoint

\* Every file holds only what was written to a chunk of its handle, and never
\* to the one that is being allocated.
LEMMA ContentsAlwaysOK == Spec => []ContentsOK
<1>1. Init => ContentsOK
  <2>1. DOMAIN <<>> = {}
    OBVIOUS
  <2> QED BY <2>1 DEF Init, ContentsOK, FilesWritten, NoTask
<1>2. IInv /\ ContentsOK /\ [Next]_vars => ContentsOK'
  <2> SUFFICES ASSUME IInv, ContentsOK, [Next]_vars PROVE ContentsOK'
    OBVIOUS
  <2>1. CASE CreateReplica
    BY <2>1, CreateReplicaContents
  <2>2. CASE \E s \in Server, h \in Handle, g \in Generation : WriteChunk(s, h, g)
    BY <2>2, WriteChunkContents
  <2>3. CASE BeginCopy \/ WriteCopy
    BY <2>3, BeginCopyContents, WriteCopyContents
  <2>4. CASE UNCHANGED vars
    BY <2>4, FilesNotTouched DEF vars
  <2> QED BY <2>1, <2>2, <2>3, <2>4, OtherContents, FilesNotTouched
<1> QED BY <1>1, <1>2, Inductive, PTL DEF Spec

\* Until the master restarts, a handle is given out once, in order.
FirstOK ==
  /\ restarts \in Nat
  /\ restarts = 0 =>
       \A h \in Handle : generation[h] = IF h < next THEN 1 ELSE 0

\* A step either allocates, restarts the master, or leaves the handles alone.
LEMMA HandlesStep ==
  ASSUME [Next]_vars
  PROVE  \/ \E factor \in FileFactor : BeginAllocate(factor)
         \/ RestartMaster
         \/ UNCHANGED <<restarts, generation, next>>
BY DEF Next, vars, tables, Heartbeat, HearHeartbeat, ListReported,
       RegisterEndpoint, TimeOut, DetectFailedServers, CreateReplica,
       UndoPlacement, EndAllocate, DeleteFile, SetChunkVersion, WriteChunk,
       Maintain, StartRecovery, DropDead, ChooseSource, PurgeStale, Rebalance,
       StartMove, SkipCopy, BeginCopy, WriteCopy, RegisterCopy, RemoveMoved,
       CreateCheckpoint

LEMMA FirstAlwaysOK == Spec => []FirstOK
<1>1. Init => FirstOK
  BY DEF Init, FirstOK, Handle
<1>2. IInv /\ FirstOK /\ [Next]_vars => FirstOK'
  <2> SUFFICES ASSUME IInv, FirstOK, [Next]_vars PROVE FirstOK'
    OBVIOUS
  <2>1. ASSUME NEW factor \in FileFactor, BeginAllocate(factor)
        PROVE  FirstOK'
    <3>1. /\ next' = next + 1 /\ UNCHANGED restarts /\ next <= MaxHandle
          /\ generation' = [generation EXCEPT ![next] = @ + 1]
      BY <2>1 DEF BeginAllocate
    <3>2. next \in Nat /\ next \in Handle
      BY <3>1, ClusterAssumption DEF IInv, TablesOK, Handle
    <3>3. generation \in [Handle -> 0..MaxGeneration]
      BY DEF IInv, TablesOK
    <3>4. ASSUME restarts = 0, NEW h \in Handle
          PROVE  generation'[h] = IF h < next' THEN 1 ELSE 0
      <4>1. h \in Nat
        BY DEF Handle
      <4>2. generation[h] = IF h < next THEN 1 ELSE 0
        BY <3>4 DEF FirstOK
      <4>3. generation'[h] = IF h = next THEN generation[h] + 1 ELSE generation[h]
        BY <3>1, <3>2, <3>3
      <4> QED BY <3>1, <3>2, <4>1, <4>2, <4>3
    <3> QED BY <3>1, <3>4 DEF FirstOK
  <2>2. CASE RestartMaster
    BY <2>2 DEF RestartMaster, FirstOK
  <2>3. CASE UNCHANGED <<restarts, generation, next>>
    BY <2>3 DEF FirstOK
  <2> QED BY <2>1, <2>2, <2>3, HandlesStep
<1> QED BY <1>1, <1>2, Inductive, PTL DEF Spec

\* Until the master restarts, what is listed for a chunk holds its data only.
THEOREM OwnDataOnlyUntilRestart == Spec => []OwnDataOnly
<1>1. IInv /\ ContentsOK /\ FirstOK => OwnDataOnly
  <2> SUFFICES ASSUME IInv, ContentsOK, FirstOK, restarts = 0,
                      NEW h \in DOMAIN chunks, NEW s \in Listed(h),
                      h \in DOMAIN disk[s]
               PROVE  disk[s][h] \subseteq {generation[h]}
    BY DEF OwnDataOnly, Listed
  <2>1. s \in Server
    BY ListSound DEF IInv
  <2>2. h \in Handle /\ generation[h] = 1
    <3>1. h \in Handle /\ h < recovered /\ recovered \in 1..next
      BY DEF IInv, TablesOK
    <3>2. h \in Nat /\ recovered \in Nat /\ next \in Nat
      BY <3>1, ClusterAssumption DEF IInv, TablesOK, Handle
    <3>3. h < next
      BY <3>1, <3>2
    <3> QED BY <3>1, <3>3 DEF FirstOK
  <2>3. disk[s][h] \subseteq 1..1
    BY <2>1, <2>2 DEF ContentsOK, FilesWritten, WrittenTo
  <2> QED BY <2>2, <2>3
<1> QED BY <1>1, Inductive, ContentsAlwaysOK, FirstAlwaysOK, PTL

\* Where the servers schedule neither recovery nor rebalancing: a server that
\* can be chosen for a new chunk and has an old file of its handle is listed.
ReuseOK ==
  /\ task = NoTask
  /\ \A s \in Server, h \in Handle : h >= next /\ Has(h, s) =>
       /\ s \in endpoints \/ beat[s] = "listed" => s \in Listed(h)
       /\ beat[s] = "heard" => h \in heard[s].reported
  /\ rpc.at = "create" =>
       /\ IsInjective(rpc.place)
       /\ \A j \in rpc.i..Len(rpc.place) : ~Has(rpc.chunk, rpc.place[j])

\* Without its jobs the master starts no task.
LEMMA NoJobNoTask ==
  ASSUME Job = {}, task = NoTask, [Next]_vars
  PROVE  task' = NoTask /\ (Next => ~Maintain)
<1>1. task.at = "idle" /\ task.kind = "recover"
  BY DEF NoTask
<1>2. ~Maintain
  BY <1>1 DEF Maintain, StartRecovery, DropDead, ChooseSource, PurgeStale,
              Rebalance, StartMove, SkipCopy, BeginCopy, WriteCopy,
              RegisterCopy, RemoveMoved
<1> QED BY <1>2
     DEF Next, vars, Heartbeat, HearHeartbeat, ListReported, RegisterEndpoint,
         TimeOut, DetectFailedServers, BeginAllocate, CreateReplica,
         UndoPlacement, EndAllocate, DeleteFile, SetChunkVersion, WriteChunk,
         CreateCheckpoint, RestartMaster

\* A step that changes nothing the invariant speaks of, but may add to lists.
LEMMA ReuseSame ==
  ASSUME ReuseOK, task' = NoTask, UNCHANGED <<next, endpoints, beat>>,
         \A h, s : Has(h, s)' = Has(h, s),
         \A h \in Handle : h >= next => Listed(h) \subseteq Listed(h)',
         \A s \in Server : beat[s] = "heard" =>
           heard'[s].reported = heard[s].reported,
         rpc'.at = "create" => UNCHANGED rpc
  PROVE  ReuseOK'
BY DEF ReuseOK

\* The chunk whose replicas are created has been given its handle.
LEMMA HandlesOrdered ==
  ASSUME IInv
  PROVE  /\ next \in Nat
         /\ \A h \in DOMAIN chunks : h < next
         /\ rpc.at # "idle" => rpc.chunk < next /\ rpc.chunk \in Handle
<1>1. next \in Nat /\ recovered \in 1..next /\ MaxHandle \in Nat
  BY ClusterAssumption DEF IInv, TablesOK
<1>2. \A h \in DOMAIN chunks : h \in Nat /\ h < recovered
  BY DEF IInv, TablesOK, Handle
<1>3. \A h \in DOMAIN chunks : h < next
  BY <1>1, <1>2
<1> QED BY <1>1, <1>3 DEF IInv, RpcOK

\* Heartbeats: what a server has is reported, then listed, and only then is
\* the server an endpoint.
LEMMA HeartbeatReuse ==
  ASSUME IInv, ReuseOK, task' = NoTask, NEW s \in Server, Heartbeat(s)
  PROVE  ReuseOK'
<1>1. beat \in [Server -> {"idle", "heard", "listed"}]
  BY DEF IInv, HeardOK
<1>2. CASE HearHeartbeat(s)
  <2>1. /\ beat' = [beat EXCEPT ![s] = "heard"]
        /\ heard'[s].reported = DOMAIN disk[s]
        /\ \A t \in Server \ {s} : beat[t] = "heard" => heard'[t] = heard[t]
        /\ UNCHANGED <<next, endpoints, rpc, disk, replicas>>
    <3>1. \A t \in Server : beat[t] = "heard" => t \in DOMAIN heard
      BY DEF IInv, HeardOK
    <3> QED BY <1>2, <3>1 DEF HearHeartbeat, Put, tables
  <2>2. (\A h, t : Has(h, t)' = Has(h, t)) /\ \A h : Listed(h)' = Listed(h)
    BY <2>1, PartsKept
  <2> QED BY <1>1, <2>1, <2>2 DEF ReuseOK, Has
<1>3. CASE ListReported(s)
  <2>1. /\ beat[s] = "heard" /\ beat' = [beat EXCEPT ![s] = "listed"]
        /\ UNCHANGED <<next, heard, endpoints, rpc, disk>>
    BY <1>3 DEF ListReported, tables
  <2>2. \A h, t : Has(h, t)' = Has(h, t)
    BY <2>1, PartsKept
  <2>3. \A h : Listed(h)' = IF h \in heard[s].reported THEN Listed(h) \cup {s}
                            ELSE Listed(h)
    BY <1>3, ListReportedLists
  <2> QED BY <1>1, <2>1, <2>2, <2>3 DEF ReuseOK
<1>4. CASE RegisterEndpoint(s)
  <2>1. /\ beat[s] = "listed" /\ beat' = [beat EXCEPT ![s] = "idle"]
        /\ endpoints' \subseteq endpoints \cup {s}
        /\ UNCHANGED <<next, heard, rpc, disk, replicas>>
    BY <1>4 DEF RegisterEndpoint, tables
  <2>2. (\A h, t : Has(h, t)' = Has(h, t)) /\ \A h : Listed(h)' = Listed(h)
    BY <2>1, PartsKept
  <2> QED BY <1>1, <2>1, <2>2 DEF ReuseOK
<1> QED BY <1>2, <1>3, <1>4 DEF Heartbeat

\* An allocation that goes on chooses endpoints that are not listed, so that
\* they have no file of the handle.
LEMMA BeginAllocateReuse ==
  ASSUME IInv, ReuseOK, task' = NoTask,
         NEW factor \in FileFactor, BeginAllocate(factor)
  PROVE  ReuseOK'
<1> DEFINE place == Select(LiveServers, PolicyFactor)
           rs == RegisteredAll(List(next), place)
<1>1. /\ next <= MaxHandle /\ next' = next + 1
      /\ replicas' = WithList(next, rs)
      /\ UNCHANGED <<heard, endpoints, beat, disk>>
      /\ \/ /\ rpc' = [at |-> "create", chunk |-> next, place |-> place, i |-> 1]
            /\ Range(place) \subseteq endpoints
            /\ Range(place) \cap Listed(next) = {}
         \/ rpc' = NoRpc
  BY DEF BeginAllocate, Listed
<1>2. next \in Handle
  BY <1>1, HandlesOrdered, ClusterAssumption DEF IInv, TablesOK, Handle
<1>3. IsInjective(place) /\ place \in Seq(LiveServers)
  BY SelectSound, ClusterAssumption
<1>4. \A h : h # next => Listed(h)' = Listed(h)
  BY <1>1, <1>2 DEF Listed, List, WithList, Put, Drop
<1>5. \A h, t : Has(h, t)' = Has(h, t)
  BY <1>1 DEF Has
<1> HIDE DEF place
<1>6. rpc'.at = "create" =>
        \A j \in DOMAIN place : ~Has(next, place[j])
  <2> SUFFICES ASSUME rpc'.at = "create", NEW j \in DOMAIN place
               PROVE  ~Has(next, place[j])
    OBVIOUS
  <2>1. place[j] \in Range(place)
    BY DEF Range
  <2>2. place[j] \in endpoints /\ place[j] \notin Listed(next)
    BY <1>1, <2>1 DEF NoRpc
  <2>3. place[j] \in Server /\ next >= next
    BY <2>2, HandlesOrdered DEF IInv, HeardOK
  <2> QED BY <1>2, <2>2, <2>3 DEF ReuseOK
<1>7. (rpc.at = "create" =>
        /\ IsInjective(rpc.place)
        /\ \A j \in rpc.i..Len(rpc.place) : ~Has(rpc.chunk, rpc.place[j]))'
  <2> SUFFICES ASSUME rpc'.at = "create"
               PROVE  (/\ IsInjective(rpc.place)
                       /\ \A j \in rpc.i..Len(rpc.place) :
                            ~Has(rpc.chunk, rpc.place[j]))'
    OBVIOUS
  <2>1. rpc'.chunk = next /\ rpc'.place = place /\ rpc'.i = 1
    BY <1>1 DEF NoRpc
  <2>2. DOMAIN place = 1..Len(place)
    BY <1>3, LenProperties
  <2> QED BY <1>3, <1>5, <1>6, <2>1, <2>2
<1>8. \A h \in Handle : h >= next' => h >= next /\ h # next
  BY <1>1, HandlesOrdered DEF Handle
<1> QED BY <1>1, <1>4, <1>5, <1>7, <1>8 DEF ReuseOK

\* The replica is created where there was none, and not twice.
LEMMA CreateReplicaReuse ==
  ASSUME IInv, ReuseOK, task' = NoTask, CreateReplica
  PROVE  /\ ReuseOK'
         /\ rpc'.at = "create" => disk'[rpc.place[rpc.i]][rpc.chunk] = {}
<1> DEFINE s == rpc.place[rpc.i]
           c == rpc.chunk
           f == Created(disk[s], c)
<1>1. /\ rpc.at = "create" /\ rpc.i <= Len(rpc.place)
      /\ \/ /\ disk' = [disk EXCEPT ![s] = f]
            /\ \/ rpc' = [rpc EXCEPT !.i = @ + 1]
               \/ rpc' = [rpc EXCEPT !.at = "undo", !.i = 1]
         \/ /\ rpc' = [rpc EXCEPT !.at = "undo", !.i = 1]
            /\ UNCHANGED disk
      /\ UNCHANGED <<next, replicas, heard, endpoints, beat>>
  BY DEF CreateReplica, tables
<1>2. /\ rpc \in Rpc /\ rpc.i \in 1..Len(rpc.place) + 1
      /\ rpc.place \in Seq(Server) /\ Len(rpc.place) \in Nat
      /\ c \in Handle /\ c < next
  BY <1>1, HandlesOrdered, LenProperties DEF IInv, RpcOK, Rpc
<1>3. rpc.i \in 1..Len(rpc.place) /\ DOMAIN rpc.place = 1..Len(rpc.place)
  BY <1>1, <1>2, LenProperties
<1>4. s \in Server
  BY <1>2, <1>3, ElementOfSeq
<1>5. ~Has(c, s)
  <2>1. rpc.i \in rpc.i..Len(rpc.place)
    BY <1>3
  <2> QED BY <1>1, <2>1 DEF ReuseOK
<1>6. /\ \A h : Listed(h)' = Listed(h)
      /\ rpc'.at = "create" =>
           /\ rpc'.i = rpc.i + 1 /\ rpc'.chunk = c /\ rpc'.place = rpc.place
           /\ disk' = [disk EXCEPT ![s] = f]
  BY <1>1, <1>2, ListsKept DEF IInv, Rpc
<1>7. \A h, t : Has(h, t)' => Has(h, t) \/ (h = c /\ t = s)
  BY <1>1 DEF Has, Created, Put
<1>8. (rpc.at = "create" =>
        /\ IsInjective(rpc.place)
        /\ \A j \in rpc.i..Len(rpc.place) : ~Has(rpc.chunk, rpc.place[j]))'
  <2> SUFFICES ASSUME rpc'.at = "create"
               PROVE  /\ IsInjective(rpc.place)'
                      /\ (\A j \in rpc.i..Len(rpc.place) :
                            ~Has(rpc.chunk, rpc.place[j]))'
    OBVIOUS
  <2>1. /\ rpc'.i = rpc.i + 1 /\ rpc'.place = rpc.place /\ rpc'.chunk = c
        /\ IsInjective(rpc.place)
    BY <1>1, <1>6 DEF ReuseOK
  <2>2. ASSUME NEW j \in rpc'.i..Len(rpc'.place)
        PROVE  ~Has(c, rpc.place[j]) /\ rpc.place[j] # s
    <3>1. j \in rpc.i..Len(rpc.place) /\ j # rpc.i /\ j \in DOMAIN rpc.place
      BY <1>2, <1>3, <2>1
    <3> QED BY <1>1, <1>3, <2>1, <3>1 DEF IsInjective, ReuseOK
  <2> HIDE DEF c, s
  <2> QED BY <1>7, <2>1, <2>2
<1>9. \A h \in Handle : h >= next => h # c
  BY <1>2, HandlesOrdered DEF Handle
<1>10. rpc'.at = "create" => disk'[s][c] = {}
  BY <1>4, <1>5, <1>6 DEF Has, Created, Put, IInv, DiskOK
<1>11. ReuseOK'
  BY <1>1, <1>6, <1>7, <1>8, <1>9 DEF ReuseOK
<1> QED BY <1>10, <1>11

\* Without its jobs the master keeps the invariant.
LEMMA NextReuse ==
  ASSUME IInv, ReuseOK, Job = {}, [Next]_vars
  PROVE  ReuseOK'
<1>1. task' = NoTask /\ (Next => ~Maintain)
  BY NoJobNoTask DEF ReuseOK
<1>2. CASE \E s \in Server : Heartbeat(s)
  BY <1>1, <1>2, HeartbeatReuse
<1>3. CASE \E factor \in FileFactor : BeginAllocate(factor)
  BY <1>1, <1>3, BeginAllocateReuse
<1>4. CASE CreateReplica
  BY <1>1, <1>4, CreateReplicaReuse
<1>5. CASE RestartMaster
  BY <1>1, <1>5 DEF RestartMaster, ReuseOK, NoRpc
<1>6. CASE (\E s \in Server : TimeOut(s)) \/ DetectFailedServers
  <2>1. /\ UNCHANGED <<next, endpoints, beat, rpc>> /\ UNCHANGED replicas
        /\ UNCHANGED disk
        /\ \A s \in DOMAIN heard : heard'[s].reported = heard[s].reported
    BY <1>6 DEF TimeOut, DetectFailedServers, tables, IInv, HeardOK, ServerState
  <2>2. \A s \in Server : beat[s] = "heard" => s \in DOMAIN heard
    BY DEF IInv, HeardOK
  <2> QED BY <1>1, <2>1, <2>2, PartsKept, ReuseSame
<1>7. CASE UndoPlacement
  <2>1. /\ UNCHANGED <<next, endpoints, beat, heard>> /\ UNCHANGED disk
        /\ rpc'.at # "create"
        /\ replicas' = WithoutReplica(rpc.chunk, rpc.place[rpc.i])
        /\ rpc.at # "idle"
    BY <1>7 DEF UndoPlacement, tables, NoRpc, IInv, RpcOK, Rpc
  <2>2. \A h : h # rpc.chunk => Listed(h)' = Listed(h)
    BY <2>1, HandlesOrdered, WithoutReplicaOK DEF IInv
  <2>3. \A h \in Handle : h >= next => h # rpc.chunk
    BY <2>1, HandlesOrdered DEF Handle
  <2> QED BY <1>1, <2>1, <2>2, <2>3, PartsKept, ReuseSame
<1>8. CASE EndAllocate
  <2>1. /\ UNCHANGED <<next, endpoints, beat, heard>> /\ UNCHANGED disk
        /\ UNCHANGED replicas /\ rpc'.at # "create"
    BY <1>8 DEF EndAllocate, NoRpc
  <2> QED BY <1>1, <2>1, PartsKept, ReuseSame
<1>9. CASE \E h \in Handle : DeleteFile(h)
  <2>1. PICK h \in Handle : DeleteFile(h)
    BY <1>9
  <2>2. /\ UNCHANGED <<next, endpoints, beat, heard, rpc>> /\ UNCHANGED disk
        /\ h \in DOMAIN chunks /\ replicas' = WithList(h, <<>>)
    BY <2>1 DEF DeleteFile
  <2>3. \A g : g # h => Listed(g)' = Listed(g)
    BY <2>2 DEF Listed, List, WithList, Drop
  <2>4. \A g \in Handle : g >= next => g # h
    BY <2>2, HandlesOrdered DEF Handle
  <2> QED BY <1>1, <2>2, <2>3, <2>4, PartsKept, ReuseSame
<1>10. CASE \E s \in Server, h \in Handle, g \in Generation : WriteChunk(s, h, g)
  <2>1. PICK s \in Server, h \in Handle, g \in Generation : WriteChunk(s, h, g)
    BY <1>10
  <2>2. /\ h \in DOMAIN disk[s]
        /\ disk' = [disk EXCEPT ![s][h] = @ \cup {g}]
        /\ UNCHANGED <<next, endpoints, beat, heard, rpc>> /\ UNCHANGED replicas
    BY <2>1 DEF WriteChunk, tables
  <2>3. \A c, t : Has(c, t)' = Has(c, t)
    BY <2>2 DEF Has
  <2> QED BY <1>1, <2>2, <2>3, PartsKept, ReuseSame
<1>11. CASE \/ \E h \in Handle : SetChunkVersion(h)
            \/ CreateCheckpoint \/ UNCHANGED vars
  <2>1. /\ UNCHANGED <<next, endpoints, beat, heard, rpc>> /\ UNCHANGED disk
        /\ UNCHANGED replicas
    BY <1>11 DEF SetChunkVersion, CreateCheckpoint, vars, tables
  <2> QED BY <1>1, <2>1, PartsKept, ReuseSame
<1> QED BY <1>1, <1>2, <1>3, <1>4, <1>5, <1>6, <1>7, <1>8, <1>9, <1>10, <1>11
     DEF Next

LEMMA ReuseAlwaysOK == Job = {} /\ Spec => []ReuseOK
<1> SUFFICES ASSUME Job = {} PROVE Spec => []ReuseOK
  OBVIOUS
<1>1. Init => ReuseOK
  <2>1. DOMAIN <<>> = {}
    OBVIOUS
  <2> QED BY <2>1 DEF Init, ReuseOK, NoRpc, Has
<1>2. IInv /\ ReuseOK /\ [Next]_vars => ReuseOK'
  BY NextReuse
<1> QED BY <1>1, <1>2, Inductive, PTL DEF Spec

\* The chunk that AllocateChunk has created on a server is empty: before the
\* first restart because no client knows it; later, where no copies are made,
\* because a server with an old file of the handle is not chosen.
THEOREM FreshChunksAreEmpty == Spec => FreshChunksEmpty
<1> DEFINE Fresh ==
             (/\ restarts = 0 \/ Job = {}
              /\ rpc.at = "create" /\ rpc'.at = "create" /\ rpc'.i > rpc.i) =>
               disk'[rpc.place[rpc.i]][rpc.chunk] = {}
<1>1. ASSUME IInv, [Next]_vars, rpc.at = "create", rpc'.at = "create",
             rpc'.i > rpc.i
      PROVE  CreateReplica
  <2>1. rpc \in Rpc /\ rpc.i \in Nat
    BY <1>1 DEF IInv, RpcOK, Rpc
  <2>2. rpc' # rpc /\ rpc.at # "idle" /\ rpc.at # "undo" /\ rpc' # NoRpc
    BY <1>1, <2>1 DEF NoRpc
  <2> QED BY <1>1, <2>2
       DEF Next, vars, tables, Heartbeat, HearHeartbeat, ListReported,
           RegisterEndpoint, TimeOut, DetectFailedServers, BeginAllocate,
           UndoPlacement, EndAllocate, DeleteFile, SetChunkVersion,
           WriteChunk, Maintain, StartRecovery, DropDead, ChooseSource,
           PurgeStale, Rebalance, StartMove, SkipCopy, BeginCopy, WriteCopy,
           RegisterCopy, RemoveMoved, CreateCheckpoint, RestartMaster
<1>2. ASSUME IInv, ContentsOK, FirstOK, restarts = 0, CreateReplica,
             rpc'.at = "create"
      PROVE  disk'[rpc.place[rpc.i]][rpc.chunk] = {}
  <2> DEFINE s == rpc.place[rpc.i]
             c == rpc.chunk
  <2>1. /\ rpc.at = "create" /\ rpc.i <= Len(rpc.place) /\ rpc \in Rpc
        /\ rpc.i \in 1..Len(rpc.place) + 1 /\ c \in Handle /\ c < next
        /\ rpc.place \in Seq(Server) /\ Len(rpc.place) \in Nat
    BY <1>2, HandlesOrdered, LenProperties DEF CreateReplica, IInv, RpcOK, Rpc
  <2>2. s \in Server
    <3>1. rpc.i \in 1..Len(rpc.place)
      BY <2>1
    <3> QED BY <2>1, <3>1, ElementOfSeq
  <2>3. disk' = [disk EXCEPT ![s] = Created(@, c)]
    BY <1>2, <2>1 DEF CreateReplica, Rpc
  <2>4. c \in DOMAIN disk[s] => disk[s][c] \subseteq 1..0
    <3>1. generation[c] = 1
      BY <1>2, <2>1 DEF FirstOK
    <3> QED BY <1>2, <2>1, <2>2, <3>1 DEF ContentsOK, FilesWritten, WrittenTo
  <2>5. Created(disk[s], c)[c] = {}
    BY <2>4 DEF Created, Put
  <2> QED BY <1>2, <2>2, <2>3, <2>5 DEF IInv, DiskOK
<1>3. ASSUME IInv, ReuseOK, Job = {}, [Next]_vars, CreateReplica,
             rpc'.at = "create"
      PROVE  disk'[rpc.place[rpc.i]][rpc.chunk] = {}
  BY <1>3, NoJobNoTask, CreateReplicaReuse DEF ReuseOK
<1>4. CASE Job = {}
  <2>1. IInv /\ ContentsOK /\ FirstOK /\ ReuseOK /\ [Next]_vars => [Fresh]_vars
    BY <1>1, <1>3, <1>4
  <2> QED BY <1>4, <2>1, Inductive, ContentsAlwaysOK, FirstAlwaysOK,
             ReuseAlwaysOK, PTL DEF Spec, FreshChunksEmpty
<1>5. CASE Job # {}
  <2>1. IInv /\ ContentsOK /\ FirstOK /\ [Next]_vars => [Fresh]_vars
    BY <1>1, <1>2, <1>5
  <2> QED BY <2>1, Inductive, ContentsAlwaysOK, FirstAlwaysOK, PTL
          DEF Spec, FreshChunksEmpty
<1> QED BY <1>4, <1>5

=============================================================================
