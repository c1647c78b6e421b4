---------------------------- MODULE ClientProofs ----------------------------
(***************************************************************************)
(* For every number of clients, servers, operations and failed calls:  the *)
(* types of the client's state, that an append says where its record is,   *)
(* that what was acknowledged is kept, and that reads return it.           *)
(***************************************************************************)
EXTENDS Client, SequenceTheorems, FiniteSetTheorems, TLAPS

-----------------------------------------------------------------------------
(* The types, with what an operation in each of its states has at hand.    *)

\* The chunks there are: their handles are given out in order.
Made == Cardinality(DOMAIN location)

MasterOK ==
  /\ chunks \in Seq(Handle) /\ IsInjective(chunks) /\ Len(chunks) <= Made
  /\ Range(chunks) \subseteq 1..Made
  /\ size \in Nat /\ files \in 1..MaxFiles
  /\ Made \in 0..MaxHandle /\ location \in [1..Made -> Seq(Server)]
  /\ whole \subseteq 1..Made
  /\ \A h \in whole : Range(location[h]) = Server

DiskOK ==
  /\ DOMAIN disk = Server /\ disk = [s \in Server |-> disk[s]]
  /\ \A s \in Server : /\ DOMAIN disk[s] \subseteq 1..Made
                       /\ disk[s] \in [DOMAIN disk[s] -> Seq(Unit)]

\* A location: of a chunk there is, with all servers if all have replicas.
Sound(i, h, servers) ==
  /\ i \in 0..MaxHandle /\ h \in 1..Made
  /\ servers \in Seq(Server) /\ servers # <<>>
  /\ h \in whole => Range(servers) = Server

CacheOK ==
  /\ DOMAIN cache = Client /\ cache = [c \in Client |-> cache[c]]
  /\ \A c \in Client :
       /\ cache[c] \in [DOMAIN cache[c] -> Entry]
       /\ \A i \in DOMAIN cache[c] :
            Sound(i, cache[c][i].handle, cache[c][i].servers)

\* The operation has the location of the chunk at hand.
Held(o) ==
  \/ o.at \in {"check", "plan", "write", "took"}
  \/ o.at = "size" /\ o.kind = "append"

OpOK(o) ==
  /\ o \in Op /\ o.offset < ChunkSize
  /\ o.at \in {"check", "plan"} => o.kind = "append" /\ o.todo = o.servers
  /\ o.at = "took" => o.kind = "read"
  /\ o.at = "size" => o.kind # "read"
  /\ o.at = "allocate" => o.kind # "read" /\ o.index <= Made
  /\ o.at # "idle" /\ o.kind = "append" => o.record \in Record
  /\ o.at # "idle" /\ o.kind # "append" => o.tries = MaxTries
  /\ Held(o) => Sound(o.index, o.handle, o.servers)
  /\ o.at = "write" => o.todo # <<>>

OpsOK ==
  /\ DOMAIN op = Client /\ op = [c \in Client |-> op[c]]
  /\ \A c \in Client : OpOK(op[c])

CountsOK ==
  /\ count \in 0..MaxOps /\ faults \in 0..MaxFaults
  /\ acked \subseteq Ack /\ disturbed \in BOOLEAN
  /\ \A a \in acked : /\ a.handle \in 1..Made
                      /\ a.handle \in whole => a.servers = Server

TInv == MasterOK /\ DiskOK /\ CacheOK /\ OpsOK /\ CountsOK

-----------------------------------------------------------------------------
(* Numbers and sequences.                                                  *)

LEMMA LeastMost ==
  ASSUME NEW m \in Nat, NEW n \in Nat
  PROVE  /\ Least(m, n) \in Nat /\ Least(m, n) <= m /\ Least(m, n) <= n
         /\ Most(m, n) \in Nat /\ Most(m, n) >= m /\ Most(m, n) >= n
         /\ Least(m, n) \in {m, n} /\ Most(m, n) \in {m, n}
BY DEF Least, Most

LEMMA Product ==
  ASSUME NEW m \in Nat, NEW n \in Nat
  PROVE  m * n \in Nat
OBVIOUS

\* A position is the beginning of its chunk and the rest in the chunk.
LEMMA Division ==
  ASSUME NEW m \in Nat, NEW n \in Nat \ {0}
  PROVE  /\ m \div n \in Nat /\ m % n \in Nat
         /\ m = (m \div n) * n + (m % n)
         /\ (m * n) % n = 0
OBVIOUS

\* What is left of an operation.
LEMMA PartSound ==
  ASSUME NEW o \in Op
  PROVE  Start(o) \in Nat /\ Stop(o) \in Nat /\ Stop(o) <= o.to
<1>1. /\ o.from \in Nat /\ o.to \in Nat /\ o.index \in Nat
      /\ ChunkSize \in Nat \ {0}
  BY ClientAssumption DEF Op
<1>2. (o.index + 1) * ChunkSize \in Nat
  BY <1>1, Product
<1>3. Start(o) \in Nat
  BY <1>1, Division DEF Start
<1> QED BY <1>1, <1>2, <1>3, LeastMost DEF Stop

\* What a write makes of a chunk.
LEMMA OverwrittenSound ==
  ASSUME NEW file \in Seq(Unit), NEW offset \in Nat, NEW data \in Seq(Unit),
         NEW new, new = Overwritten(file, offset, data)
  PROVE  /\ new \in Seq(Unit)
         /\ Len(new) = Most(Len(file), offset + Len(data))
         /\ \A i \in 1..Len(new) :
              new[i] = IF i \in offset + 1..offset + Len(data)
                       THEN data[i - offset]
                       ELSE IF i <= Len(file) THEN file[i] ELSE 0
<1> DEFINE n == Most(Len(file), offset + Len(data))
           e(i) == IF i \in offset + 1..offset + Len(data)
                   THEN data[i - offset]
                   ELSE IF i <= Len(file) THEN file[i] ELSE 0
<1>1. /\ Len(file) \in Nat /\ Len(data) \in Nat
      /\ file \in [1..Len(file) -> Unit] /\ data \in [1..Len(data) -> Unit]
  BY LenProperties
<1>2. n \in Nat
  <2>1. offset + Len(data) \in Nat
    BY <1>1
  <2> QED BY <1>1, <2>1, LeastMost
<1>3. \A i \in 1..n : e(i) \in Unit
  BY <1>1, <1>2 DEF Unit
<1>4. new = [i \in 1..n |-> e(i)]
  BY DEF Overwritten
<1> HIDE DEF n, e
<1>5. new \in [1..n -> Unit]
  BY <1>3, <1>4
<1>6. new \in Seq(Unit) /\ DOMAIN new = 1..n
  BY <1>2, <1>5, SeqDef
<1>7. Len(new) = n
  BY <1>2, <1>6, LenProperties
<1> QED BY <1>4, <1>6, <1>7 DEF n, e

-----------------------------------------------------------------------------
(* How the types are kept.                                                 *)

\* Locations stay sound when chunks are added.
LEMMA Grown ==
  ASSUME Made \in Nat, Made' \in Nat, Made <= Made',
         \A h \in 1..Made : h \in whole' => h \in whole
  PROVE  /\ \A i, h, ss : Sound(i, h, ss) => Sound(i, h, ss)'
         /\ \A o : OpOK(o) => OpOK(o)'
<1>1. \A i, h, ss : Sound(i, h, ss) => Sound(i, h, ss)'
  BY DEF Sound
<1>2. ASSUME NEW o, OpOK(o)
      PROVE  OpOK(o)'
  <2>1. Held(o) => Sound(o.index, o.handle, o.servers)'
    BY <1>1, <1>2 DEF OpOK
  <2>2. o.at = "allocate" => o.kind # "read" /\ o.index <= Made'
    <3>1. o \in Op => o.index \in Nat
      BY DEF Op
    <3> QED BY <1>2, <3>1 DEF OpOK
  <2> QED BY <1>2, <2>1, <2>2 DEF OpOK, Held
<1> QED BY <1>1, <1>2

LEMMA Same ==
  ASSUME TInv, UNCHANGED <<location, whole>>
  PROVE  /\ \A i, h, ss : Sound(i, h, ss) => Sound(i, h, ss)'
         /\ \A o : OpOK(o) => OpOK(o)'
<1>1. Made' = Made /\ Made \in Nat
  BY ClientAssumption DEF Made, TInv, MasterOK
<1> QED BY <1>1, Grown

\* One client goes on.
LEMMA OpsStep ==
  ASSUME OpsOK, \A o : OpOK(o) => OpOK(o)', NEW c \in Client,
         \E x : OpOK(x)' /\ op' = [op EXCEPT ![c] = x]
  PROVE  OpsOK'
<1>1. PICK x : OpOK(x)' /\ op' = [op EXCEPT ![c] = x]
  OBVIOUS
<1>2. DOMAIN op' = Client /\ op' = [d \in Client |-> op'[d]]
  BY <1>1 DEF OpsOK
<1>3. \A d \in Client : op'[d] = IF d = c THEN x ELSE op[d]
  BY <1>1 DEF OpsOK
<1>4. ASSUME NEW d \in Client, NEW y, y = op'[d]
      PROVE  OpOK(y)'
  <2>1. CASE d = c
    BY <1>1, <1>3, <1>4, <2>1
  <2>2. CASE d # c
    BY <1>3, <1>4, <2>2 DEF OpsOK
  <2> QED BY <2>1, <2>2
<1> QED BY <1>2, <1>4 DEF OpsOK

\* A cache that loses entries, or none.
LEMMA CacheShrinks ==
  ASSUME CacheOK, \A i, h, ss : Sound(i, h, ss) => Sound(i, h, ss)',
         \/ UNCHANGED cache
         \/ \E c \in Client : \E S :
              cache' = [cache EXCEPT ![c] = Restrict(@, DOMAIN @ \ S)]
  PROVE  CacheOK'
<1>1. CASE UNCHANGED cache
  BY <1>1 DEF CacheOK
<1>2. CASE \E c \in Client : \E S :
             cache' = [cache EXCEPT ![c] = Restrict(@, DOMAIN @ \ S)]
  <2>0. PICK c \in Client :
          \E S : cache' = [cache EXCEPT ![c] = Restrict(@, DOMAIN @ \ S)]
    BY <1>2
  <2>1. PICK S : cache' = [cache EXCEPT ![c] = Restrict(@, DOMAIN @ \ S)]
    BY <2>0
  <2> DEFINE f == Restrict(cache[c], DOMAIN cache[c] \ S)
  <2>2. /\ f \in [DOMAIN f -> Entry]
        /\ \A i \in DOMAIN f : i \in DOMAIN cache[c] /\ f[i] = cache[c][i]
    BY DEF Restrict, CacheOK
  <2>3. /\ DOMAIN cache' = Client /\ cache' = [d \in Client |-> cache'[d]]
        /\ \A d \in Client : cache'[d] = IF d = c THEN f ELSE cache[d]
    BY <2>1 DEF CacheOK
  <2> HIDE DEF f
  <2>4. \A d \in Client :
          /\ cache'[d] \in [DOMAIN cache'[d] -> Entry]
          /\ \A i \in DOMAIN cache'[d] :
               Sound(i, cache'[d][i].handle, cache'[d][i].servers)
    BY <2>2, <2>3 DEF CacheOK
  <2> QED BY <2>3, <2>4 DEF CacheOK
<1> QED BY <1>1, <1>2

\* A cache that gets an entry.
LEMMA CacheGrows ==
  ASSUME CacheOK, \A i, h, ss : Sound(i, h, ss) => Sound(i, h, ss)',
         NEW c \in Client, NEW j, NEW e \in Entry, Sound(j, e.handle, e.servers)',
         Keep(c, j, e)
  PROVE  CacheOK'
<1> DEFINE f == [i \in DOMAIN cache[c] \cup {j} |->
                   IF i = j THEN e ELSE cache[c][i]]
<1>1. /\ f \in [DOMAIN f -> Entry]
      /\ \A i \in DOMAIN f :
           \/ i = j /\ f[i] = e
           \/ i \in DOMAIN cache[c] /\ f[i] = cache[c][i]
  BY DEF CacheOK
<1>2. /\ DOMAIN cache' = Client /\ cache' = [d \in Client |-> cache'[d]]
      /\ \A d \in Client : cache'[d] = IF d = c THEN f ELSE cache[d]
  BY DEF CacheOK, Keep
<1> HIDE DEF f
<1>3. \A d \in Client : cache[d] \in [DOMAIN cache[d] -> Entry]
  BY DEF CacheOK
<1>4. ASSUME NEW d \in Client, NEW i \in DOMAIN cache'[d]
      PROVE  Sound(i, cache[d][i].handle, cache[d][i].servers)'
  <2>1. \A k \in DOMAIN cache[d] :
          Sound(k, cache[d][k].handle, cache[d][k].servers)
    BY DEF CacheOK
  <2>2. \/ i = j /\ cache'[d][i] = e
        \/ i \in DOMAIN cache[d] /\ cache'[d][i] = cache[d][i]
    BY <1>1, <1>2
  <2> QED BY <2>1, <2>2
<1>5. \A d \in Client : cache'[d] \in [DOMAIN cache'[d] -> Entry]
  BY <1>1, <1>2, <1>3
<1> QED BY <1>2, <1>4, <1>5 DEF CacheOK

\* A step in which one client goes on and the master is left alone.
LEMMA LocalStep ==
  ASSUME TInv, UNCHANGED <<master, acked>>, UNCHANGED disk \/ DiskOK',
         NEW c \in Client, \E x : OpOK(x) /\ op' = [op EXCEPT ![c] = x],
         CacheOK', count' \in 0..MaxOps, faults' \in 0..MaxFaults,
         disturbed' \in BOOLEAN
  PROVE  TInv'
<1>1. UNCHANGED <<chunks, size, files, location, whole>> /\ Made' = Made
  BY DEF master, Made
<1>2. MasterOK' /\ CountsOK'
  BY <1>1 DEF TInv, MasterOK, CountsOK
<1>3. DiskOK'
  BY <1>1 DEF TInv, DiskOK
<1>4. OpsOK'
  BY <1>1, Same, OpsStep DEF TInv
<1> QED BY <1>2, <1>3, <1>4 DEF TInv

-----------------------------------------------------------------------------
(* Every step keeps the types.                                             *)

LEMMA IdleOK == OpOK(Idle) /\ Idle.at = "idle" /\ Idle.kind = "read"
<1>1. <<>> \in Seq(Server) /\ <<>> \in Seq(Unit)
  OBVIOUS
<1> QED BY <1>1, ClientAssumption DEF OpOK, Idle, Op, Held, Unit, Record

\* The call of the master or of a chunkserver may fail.
LEMMA FaultsOK ==
  ASSUME TInv, Works \/ Fails
  PROVE  faults' \in 0..MaxFaults
BY ClientAssumption DEF TInv, CountsOK, Works, Fails

\* A failed attempt is followed by another, or by none.
LEMMA RetryStep ==
  ASSUME TInv, NEW c \in Client, op[c].at # "idle", NEW i \in Nat, Retry(c, i)
  PROVE  /\ \E x : OpOK(x) /\ op' = [op EXCEPT ![c] = x]
         /\ (\A k, h, ss : Sound(k, h, ss) => Sound(k, h, ss)') => CacheOK'
<1> DEFINE o == op[c]
           next == [o EXCEPT !.at = "resolve", !.tries = @ + 1, !.index = i]
           x == IF o.tries = MaxTries THEN Idle ELSE next
<1>1. op' = [op EXCEPT ![c] = x]
  BY DEF Retry
<1>2. OpOK(o) /\ o \in Op /\ o.tries \in 0..MaxTries
  BY DEF TInv, OpsOK, OpOK, Op
<1>3. o.tries # MaxTries => OpOK(next)
  <2> SUFFICES ASSUME o.tries # MaxTries PROVE OpOK(next)
    OBVIOUS
  <2>1. o.tries + 1 \in 0..MaxTries
    BY <1>2, ClientAssumption
  <2>2. o.kind = "append" /\ o.record \in Record
    BY <1>2 DEF OpOK, Op
  <2> HIDE DEF o
  <2>3. /\ next \in Op /\ next.at = "resolve" /\ next.kind = o.kind
        /\ next.record = o.record /\ next.offset = o.offset
    BY <1>2, <2>1 DEF Op
  <2> HIDE DEF next
  <2> QED BY <1>2, <2>2, <2>3 DEF OpOK, Held
<1>4. OpOK(x)
  BY <1>3, IdleOK
<1>5. (\A k, h, ss : Sound(k, h, ss) => Sound(k, h, ss)') => CacheOK'
  <2>1. cache' = [cache EXCEPT ![c] = Restrict(@, DOMAIN @ \ {op[c].index})]
    BY DEF Retry
  <2> QED BY <2>1, CacheShrinks DEF TInv
<1> HIDE DEF x
<1> QED BY <1>1, <1>4, <1>5

\* Append, Write and Read begin.
LEMMA BeginsOK ==
  ASSUME TInv, NEW c \in Client,
         \/ BeginAppend(c)
         \/ \E r \in Ranges : BeginWrite(c, r) \/ BeginRead(c, r)
  PROVE  TInv'
<1>1. count \in 0..MaxOps /\ faults \in 0..MaxFaults /\ disturbed \in BOOLEAN
      /\ MaxOps \in Nat /\ size \in Nat
  BY ClientAssumption DEF TInv, CountsOK, MasterOK
<1>2. count' = count + 1 /\ count < MaxOps
      /\ UNCHANGED <<master, disk, cache, faults, acked>>
      /\ UNCHANGED <<location, whole>>
      /\ disturbed' \in BOOLEAN
  BY <1>1 DEF BeginAppend, BeginWrite, BeginRead, history, master
<1>3. count' \in 0..MaxOps /\ count + 1 \in Record /\ count + 1 \in Unit
  BY <1>1, <1>2 DEF Record, Unit
<1>4. CacheOK'
  BY <1>2, Same, CacheShrinks DEF TInv
<1>5. Idle \in Op /\ ChunkSize \in Nat \ {0} /\ MaxTries \in Nat \ {0}
  BY IdleOK, ClientAssumption DEF OpOK
<1>6. \E x : OpOK(x) /\ op' = [op EXCEPT ![c] = x]
  <2>1. CASE BeginAppend(c)
    <3> DEFINE i == Most(Len(chunks), 1) - 1
               x == [Idle EXCEPT !.at = "resolve", !.kind = "append",
                       !.tries = 1, !.record = count + 1, !.size = size,
                       !.index = i]
    <3>1. i \in Nat
      <4>1. Len(chunks) \in Nat
        BY LenProperties DEF TInv, MasterOK
      <4>2. Most(Len(chunks), 1) \in Nat /\ Most(Len(chunks), 1) >= 1
        BY <4>1, LeastMost
      <4> QED BY <4>2
    <3>2. 1 \in 0..MaxTries
      BY <1>5
    <3> HIDE DEF i
    <3>3. x \in Op /\ x.at = "resolve" /\ x.kind = "append" /\ x.offset = 0
          /\ x.record \in Record
      BY <1>1, <1>3, <1>5, <3>1, <3>2 DEF Op, Idle
    <3> HIDE DEF x
    <3>4. OpOK(x)
      BY <1>5, <3>3 DEF OpOK, Held
    <3>5. op' = [op EXCEPT ![c] = x]
      BY <2>1 DEF BeginAppend, x, i
    <3> QED BY <3>4, <3>5
  <2>2. ASSUME NEW r \in Ranges, BeginWrite(c, r) \/ BeginRead(c, r)
        PROVE  \E x : OpOK(x) /\ op' = [op EXCEPT ![c] = x]
    <3>1. r[1] \in Nat /\ r[2] \in Nat /\ r[1] \div ChunkSize \in Nat
      <4>1. r[1] \in Nat /\ r[2] \in Nat
        BY ClientAssumption
      <4> QED BY <1>5, <4>1, Division
    <3>2. Least(r[2], size) \in Nat
      BY <1>1, <3>1, LeastMost
    <3> DEFINE w == [Idle EXCEPT !.at = "resolve", !.kind = "write",
                       !.tries = MaxTries, !.record = count + 1,
                       !.from = r[1], !.to = r[2],
                       !.index = r[1] \div ChunkSize]
               x == [Idle EXCEPT !.at = "resolve", !.tries = MaxTries,
                       !.from = r[1], !.to = Least(r[2], size),
                       !.index = r[1] \div ChunkSize]
    <3>3. MaxTries \in 0..MaxTries
      BY <1>5
    <3>4. w \in Op /\ w.at = "resolve" /\ w.kind = "write" /\ w.offset = 0
          /\ w.tries = MaxTries
      BY <1>3, <1>5, <3>1, <3>3 DEF Op, Idle
    <3>5. x \in Op /\ x.at = "resolve" /\ x.kind = "read" /\ x.offset = 0
          /\ x.tries = MaxTries
      BY <1>5, <3>1, <3>2, <3>3 DEF Op, Idle
    <3>6. op' = [op EXCEPT ![c] = w] \/ op' = [op EXCEPT ![c] = x]
      BY <2>2 DEF BeginWrite, BeginRead
    <3> HIDE DEF w, x
    <3>7. OpOK(w) /\ OpOK(x)
      BY <1>5, <3>4, <3>5 DEF OpOK, Held
    <3> QED BY <3>6, <3>7
  <2> QED BY <2>1, <2>2
<1> QED BY <1>1, <1>2, <1>3, <1>4, <1>6, LocalStep

\* The operation gets the location of its chunk.
LEMMA ResolvedOK ==
  ASSUME NEW o, OpOK(o), o.at \in {"resolve", "allocate"}, NEW e \in Entry
  PROVE  /\ Sound(o.index, e.handle, e.servers) => OpOK(Resolved(o, e))
         /\ Sound(o.index, e.handle, e.servers)' => OpOK(Resolved(o, e))'
<1> DEFINE x == Resolved(o, e)
<1>1. o \in Op /\ o.offset < ChunkSize
  BY DEF OpOK
<1>2. /\ x \in Op /\ x.offset = o.offset /\ x.kind = o.kind
      /\ x.index = o.index /\ x.handle = e.handle /\ x.record = o.record
      /\ x.servers = e.servers /\ x.todo = e.servers /\ x.tries = o.tries
      /\ \/ x.at = "check" /\ x.kind = "append"
         \/ x.at = "write" /\ x.kind # "append"
  BY <1>1 DEF Op, Entry, Resolved
<1>3. /\ o.kind = "append" => o.record \in Record
      /\ o.kind # "append" => o.tries = MaxTries
  BY DEF OpOK
<1> HIDE DEF x
<1>4. Sound(o.index, e.handle, e.servers) => OpOK(x)
  BY <1>1, <1>2, <1>3 DEF OpOK, Sound
<1>5. Sound(o.index, e.handle, e.servers)' => OpOK(x)'
  BY <1>1, <1>2, <1>3 DEF OpOK, Sound
<1> QED BY <1>4, <1>5 DEF x

\* ResolveChunk and ResolveOrAllocateChunk up to the allocation.
LEMMA ResolveOK ==
  ASSUME TInv, NEW c \in Client,
         UseCached(c) \/ Lookup(c) \/ LookupNone(c) \/ LookupFails(c)
  PROVE  TInv'
<1> DEFINE o == op[c]
<1>1. /\ UNCHANGED <<master, disk, acked, count, disturbed>>
      /\ UNCHANGED <<location, whole>>
  BY DEF UseCached, Lookup, LookupNone, LookupFails, master, history
<1>2. OpOK(o) /\ o \in Op /\ o.index \in Nat
  BY DEF TInv, OpsOK, OpOK, Op
<1>3. faults' \in 0..MaxFaults /\ count' \in 0..MaxOps
      /\ disturbed' \in BOOLEAN
  <2>1. UNCHANGED faults \/ Fails
    BY DEF UseCached, Lookup, LookupNone, LookupFails
  <2> QED BY <1>1, <2>1, FaultsOK DEF Works, TInv, CountsOK
<1>4. /\ \E x : OpOK(x) /\ op' = [op EXCEPT ![c] = x]
      /\ CacheOK'
  <2>1. CASE Retry(c, o.index) /\ o.at # "idle"
    BY <1>1, <1>2, <2>1, RetryStep, Same
  <2>2. CASE UseCached(c)
    <3>1. cache[c][o.index] \in Entry
          /\ Sound(o.index, cache[c][o.index].handle,
                   cache[c][o.index].servers)
      BY <2>2 DEF UseCached, TInv, CacheOK
    <3>2. OpOK(Resolved(o, cache[c][o.index]))
      BY <1>2, <2>2, <3>1, ResolvedOK DEF UseCached
    <3>3. op' = [op EXCEPT ![c] = Resolved(o, cache[c][o.index])]
      BY <2>2 DEF UseCached
    <3>4. CacheOK'
      BY <1>1, <2>2, Same, CacheShrinks DEF UseCached, TInv
    <3> QED BY <3>2, <3>3, <3>4
  <2>3. CASE Lookup(c) /\ location[chunks[o.index + 1]] # <<>>
    <3> DEFINE h == chunks[o.index + 1]
               e == [handle |-> h, servers |-> location[h]]
    <3>1. o.at = "resolve" /\ o.index < Len(chunks)
      BY <2>3 DEF Lookup
    <3>2. /\ h \in Range(chunks) /\ Len(chunks) \in Nat
          /\ Made \in 0..MaxHandle /\ Len(chunks) <= Made
      <4>1. Len(chunks) \in Nat /\ DOMAIN chunks = 1..Len(chunks)
        BY LenProperties DEF TInv, MasterOK
      <4> QED BY <1>2, <3>1, <4>1 DEF TInv, MasterOK, Range
    <3>3. h \in 1..Made /\ h \in Handle
      BY <3>2, ClientAssumption DEF TInv, MasterOK, Handle
    <3>4. location[h] \in Seq(Server) /\ location[h] # <<>>
          /\ (h \in whole => Range(location[h]) = Server)
      BY <2>3, <3>3 DEF TInv, MasterOK
    <3>5. o.index \in 0..MaxHandle
      BY <1>2, <3>1, <3>2, ClientAssumption
    <3>6. Sound(o.index, h, location[h])
      BY <3>3, <3>4, <3>5 DEF Sound
    <3>7. e \in Entry /\ e.handle = h /\ e.servers = location[h]
      BY <3>3, <3>4 DEF Entry
    <3>8. /\ Keep(c, o.index, e)
          /\ op' = [op EXCEPT ![c] = Resolved(o, e)]
      BY <2>3 DEF Lookup
    <3> HIDE DEF e, h
    <3>9. OpOK(Resolved(o, e))
      BY <1>2, <3>1, <3>6, <3>7, ResolvedOK
    <3>10. CacheOK'
      <4>1. \A i, k, ss : Sound(i, k, ss) => Sound(i, k, ss)'
        BY <1>1, Same
      <4>2. PICK j \in Nat, g \in Entry : j = o.index /\ g = e
        BY <1>2, <3>7
      <4>3. Sound(j, g.handle, g.servers)'
        BY <3>6, <3>7, <4>1, <4>2
      <4>4. Keep(c, j, g)
        BY <3>8, <4>2
      <4> QED BY <4>1, <4>3, <4>4, CacheGrows DEF TInv
    <3> QED BY <3>8, <3>9, <3>10
  <2>4. CASE LookupNone(c) /\ o.kind # "read" /\ o.index = Len(chunks)
    <3> DEFINE x == [o EXCEPT !.at = "allocate"]
    <3>1. /\ op' = [op EXCEPT ![c] = x]
          /\ UNCHANGED cache
      BY <2>4 DEF LookupNone, TInv, OpsOK
    <3>2. x \in Op /\ x.at = "allocate" /\ x.kind = o.kind /\ x.index = o.index
          /\ x.record = o.record /\ x.offset = o.offset /\ x.tries = o.tries
      BY <1>2 DEF Op
    <3>3. o.index <= Made /\ o.at = "resolve"
      BY <2>4 DEF TInv, MasterOK, LookupNone
    <3> HIDE DEF x
    <3>4. OpOK(x)
      BY <1>2, <2>4, <3>2, <3>3 DEF OpOK, Held
    <3>5. CacheOK'
      BY <1>1, <3>1, Same, CacheShrinks DEF TInv
    <3> QED BY <3>1, <3>4, <3>5
  <2>5. \/ UseCached(c)
        \/ Lookup(c) /\ location[chunks[o.index + 1]] # <<>>
        \/ LookupNone(c) /\ o.kind # "read" /\ o.index = Len(chunks)
        \/ Retry(c, o.index) /\ o.at # "idle"
    BY DEF UseCached, Lookup, LookupNone, LookupFails
  <2> QED BY <2>1, <2>2, <2>3, <2>4, <2>5
<1> QED BY <1>1, <1>3, <1>4, LocalStep

\* What is known of the last chunk before an append is planned, and the plan.
LEMMA PlanOK ==
  ASSUME TInv, NEW c \in Client, CheckHandle(c) \/ PlanAppend(c)
  PROVE  TInv'
<1> DEFINE o == op[c]
<1>1. /\ UNCHANGED <<master, disk, acked, count, disturbed, faults>>
      /\ UNCHANGED <<location, whole>>
  BY DEF CheckHandle, PlanAppend, master, history
<1>2. OpOK(o) /\ o \in Op /\ o.index \in Nat
  BY DEF TInv, OpsOK, OpOK, Op
<1>3. faults' \in 0..MaxFaults /\ count' \in 0..MaxOps
      /\ disturbed' \in BOOLEAN
  BY <1>1 DEF TInv, CountsOK
<1>4. (\E x : OpOK(x) /\ op' = [op EXCEPT ![c] = x]) /\ CacheOK'
  <2>1. CASE o.at # "idle" /\ \E i \in Nat : Retry(c, i)
    BY <1>1, <1>2, <2>1, RetryStep, Same
  <2>2. CASE CheckHandle(c) /\ UNCHANGED cache
                /\ op' = [op EXCEPT ![c].at = "plan"]
    <3> DEFINE x == [o EXCEPT !.at = "plan"]
    <3>1. op' = [op EXCEPT ![c] = x] /\ o.at = "check"
      BY <2>2 DEF TInv, OpsOK, CheckHandle
    <3>2. /\ x \in Op /\ x.at = "plan" /\ x.kind = o.kind
          /\ x.index = o.index /\ x.record = o.record /\ x.offset = o.offset
          /\ x.tries = o.tries /\ x.handle = o.handle
          /\ x.servers = o.servers /\ x.todo = o.todo
      BY <1>2 DEF Op
    <3> HIDE DEF x
    <3>3. OpOK(x)
      BY <1>2, <3>1, <3>2 DEF OpOK, Held
    <3>4. CacheOK'
      BY <1>1, <2>2, Same, CacheShrinks DEF TInv
    <3> QED BY <3>1, <3>3, <3>4
  <2>3. ASSUME NEW m, o.at = "plan", Fits(m), m \in Nat, UNCHANGED cache,
               op' = [op EXCEPT ![c].at = "write", ![c].offset = m]
        PROVE  (\E x : OpOK(x) /\ op' = [op EXCEPT ![c] = x]) /\ CacheOK'
    <3> DEFINE x == [o EXCEPT !.at = "write", !.offset = m]
    <3>1. op' = [op EXCEPT ![c] = x] /\ o.at = "plan"
      BY <2>3 DEF TInv, OpsOK
    <3>2. /\ x \in Op /\ x.at = "write" /\ x.kind = o.kind
          /\ x.index = o.index /\ x.record = o.record /\ x.offset = m
          /\ x.tries = o.tries /\ x.handle = o.handle
          /\ x.servers = o.servers /\ x.todo = o.todo
      BY <1>2, <2>3 DEF Op
    <3>3. m < ChunkSize
      BY <2>3, ClientAssumption DEF Fits
    <3> HIDE DEF x
    <3>4. Sound(o.index, o.handle, o.servers) /\ o.todo = o.servers
          /\ o.kind = "append"
      BY <1>2, <3>1 DEF OpOK, Held
    <3>5. OpOK(x)
      BY <1>2, <3>1, <3>2, <3>3, <3>4 DEF OpOK, Held, Sound
    <3>6. CacheOK'
      BY <1>1, <2>3, Same, CacheShrinks DEF TInv
    <3> QED BY <3>1, <3>5, <3>6
  <2>4. CASE CheckHandle(c)
    BY <1>2, <2>1, <2>2, <2>4 DEF CheckHandle
  <2>5. CASE PlanAppend(c)
    <3> DEFINE places == {i \in DOMAIN chunks : chunks[i] = o.handle}
               first == CHOOSE i \in places : \A j \in places : i <= j
               base == (first - 1) * ChunkSize
               m == IF size < base THEN 0 ELSE size - base
    <3>1. CASE places = {} \/ ~Fits(m)
      BY <1>2, <2>1, <2>5, <3>1 DEF PlanAppend
    <3>2. CASE places # {} /\ Fits(m)
      <4>1. /\ DOMAIN chunks = 1..Len(chunks) /\ Len(chunks) \in Nat
            /\ size \in Nat /\ ChunkSize \in Nat
        BY ClientAssumption, LenProperties DEF TInv, MasterOK
      <4>2. PICK k \in places : TRUE
        BY <3>2
      <4>3. places = {k} /\ k \in Nat /\ k >= 1
        BY <4>1, <4>2 DEF TInv, MasterOK, IsInjective
      <4>4. first = k
        BY <4>3
      <4>5. base \in Nat
        BY <4>1, <4>3, <4>4, Product
      <4> HIDE DEF base
      <4>6. m \in Nat
        BY <4>1, <4>5
      <4>7. o.at = "plan" /\ UNCHANGED cache
            /\ op' = [op EXCEPT ![c].at = "write", ![c].offset = m]
        BY <2>5, <3>2 DEF PlanAppend, base
      <4> HIDE DEF m
      <4> QED BY <2>3, <3>2, <4>6, <4>7
    <3> QED BY <3>1, <3>2
  <2> QED BY <2>4, <2>5
<1> QED BY <1>1, <1>3, <1>4, LocalStep

\* WriteChunk on one replica.
LEMMA WrittenOK ==
  ASSUME TInv, NEW s, NEW h, NEW offset \in Nat, NEW data \in Seq(Unit),
         Written(s, h, offset, data) \/ UNCHANGED disk, UNCHANGED location
  PROVE  DiskOK'
<1>0. Made' = Made
  BY DEF Made
<1>1. CASE UNCHANGED disk
  BY <1>0, <1>1 DEF TInv, DiskOK
<1>2. CASE Written(s, h, offset, data) /\ s \in Server
  <2> DEFINE new == Overwritten(disk[s][h], offset, data)
  <2>1. /\ disk[s] \in [DOMAIN disk[s] -> Seq(Unit)] /\ h \in DOMAIN disk[s]
        /\ disk' = [disk EXCEPT ![s][h] = new]
    BY <1>2 DEF Written, TInv, DiskOK
  <2>2. disk[s][h] \in Seq(Unit)
    BY <2>1
  <2>3. new \in Seq(Unit)
    BY <2>2, OverwrittenSound
  <2> HIDE DEF new
  <2>4. \A t \in Server : disk'[t] = IF t = s THEN [disk[s] EXCEPT ![h] = new]
                                     ELSE disk[t]
    BY <2>1 DEF TInv, DiskOK
  <2>5. [disk[s] EXCEPT ![h] = new] \in [DOMAIN disk[s] -> Seq(Unit)]
    BY <2>1, <2>3
  <2>6. DOMAIN disk' = Server /\ disk' = [t \in Server |-> disk'[t]]
    BY <2>1 DEF TInv, DiskOK
  <2>7. \A t \in Server : /\ DOMAIN disk'[t] \subseteq 1..Made
                          /\ disk'[t] \in [DOMAIN disk'[t] -> Seq(Unit)]
    BY <1>2, <2>4, <2>5 DEF TInv, DiskOK
  <2> QED BY <1>0, <2>6, <2>7 DEF DiskOK
<1>3. CASE Written(s, h, offset, data) /\ s \notin Server
  <2>1. disk' = disk
    BY <1>3 DEF Written, TInv, DiskOK
  <2> QED BY <1>1, <2>1
<1> QED BY <1>1, <1>2, <1>3

\* The replicas that are left, after the first one was called.
LEMMA TodoOK ==
  ASSUME NEW todo \in Seq(Server), todo # <<>>
  PROVE  /\ Head(todo) \in Server /\ Tail(todo) \in Seq(Server)
         /\ Len(todo) # 1 => Tail(todo) # <<>>
         /\ Range(todo) \ {Head(todo)} \subseteq Range(Tail(todo))
         /\ Len(todo) = 1 => Range(todo) = {Head(todo)}
<1>1. /\ todo \in [1..Len(todo) -> Server] /\ Len(todo) \in Nat \ {0}
      /\ DOMAIN todo = 1..Len(todo)
  BY LenProperties, EmptySeq
<1>2. /\ Head(todo) = todo[1] /\ Tail(todo) \in Seq(Server)
      /\ Len(Tail(todo)) = Len(todo) - 1
      /\ \A i \in 1..Len(todo) - 1 : Tail(todo)[i] = todo[i + 1]
      /\ DOMAIN Tail(todo) = 1..Len(todo) - 1
  BY <1>1, HeadTailProperties, LenProperties
<1>3. Range(todo) \ {Head(todo)} \subseteq Range(Tail(todo))
  <2> SUFFICES ASSUME NEW s \in Range(todo), s # Head(todo)
               PROVE  s \in Range(Tail(todo))
    OBVIOUS
  <2>1. PICK i \in 1..Len(todo) : s = todo[i]
    BY <1>1 DEF Range
  <2>2. i - 1 \in 1..Len(todo) - 1 /\ (i - 1) + 1 = i
    BY <1>1, <1>2, <2>1
  <2>3. Tail(todo)[i - 1] = s
    BY <1>2, <2>1, <2>2
  <2> QED BY <1>2, <2>2, <2>3 DEF Range
<1>4. Len(todo) = 1 => Range(todo) = {Head(todo)}
  BY <1>1, <1>2 DEF Range
<1>5. Len(todo) # 1 => Tail(todo) # <<>>
  BY <1>1, <1>2
<1> QED BY <1>1, <1>2, <1>3, <1>4, <1>5

LEMMA AppendToReplicaOK ==
  ASSUME TInv, NEW c \in Client, AppendToReplica(c)
  PROVE  TInv'
<1> DEFINE o == op[c]
<1>1. /\ UNCHANGED <<master, acked, count, disturbed>>
      /\ UNCHANGED <<location, whole>> /\ o.at = "write" /\ o.kind = "append"
  BY DEF AppendToReplica, master, history
<1>2. OpOK(o) /\ o \in Op /\ o.index \in Nat /\ o.record \in Record
      /\ o.todo \in Seq(Server) /\ o.todo # <<>> /\ o.offset \in Nat
  BY <1>1 DEF TInv, OpsOK, OpOK, Op
<1>3. faults' \in 0..MaxFaults /\ count' \in 0..MaxOps
      /\ disturbed' \in BOOLEAN
  BY <1>1, FaultsOK DEF AppendToReplica, TInv, CountsOK
<1>4. DiskOK'
  <2>1. <<o.record>> \in Seq(Unit)
    BY <1>2 DEF Unit
  <2>2. Written(Head(o.todo), o.handle, o.offset, <<o.record>>)
          \/ UNCHANGED disk
    BY DEF AppendToReplica
  <2> QED BY <1>1, <1>2, <2>1, <2>2, WrittenOK
<1>5. (\E x : OpOK(x) /\ op' = [op EXCEPT ![c] = x]) /\ CacheOK'
  <2>1. CASE Retry(c, o.index)
    BY <1>1, <1>2, <2>1, RetryStep, Same
  <2>2. CASE /\ op' = [op EXCEPT ![c].todo = Tail(@),
                         ![c].at = IF Len(o.todo) = 1 THEN "size" ELSE @]
             /\ UNCHANGED cache
    <3> DEFINE at == IF Len(o.todo) = 1 THEN "size" ELSE "write"
               x == [o EXCEPT !.todo = Tail(o.todo), !.at = at]
    <3>1. op' = [op EXCEPT ![c] = x]
      BY <1>1, <2>2 DEF TInv, OpsOK
    <3>2. Tail(o.todo) \in Seq(Server)
          /\ (Len(o.todo) # 1 => Tail(o.todo) # <<>>)
      BY <1>2, TodoOK
    <3>3. at \in {"size", "write"} /\ (at = "write" => Len(o.todo) # 1)
      OBVIOUS
    <3> HIDE DEF at
    <3>4. /\ x \in Op /\ x.at = at /\ x.kind = o.kind
          /\ x.index = o.index /\ x.record = o.record /\ x.offset = o.offset
          /\ x.tries = o.tries /\ x.handle = o.handle
          /\ x.servers = o.servers /\ x.todo = Tail(o.todo)
      BY <1>2, <3>2, <3>3 DEF Op
    <3> HIDE DEF x
    <3>5. Sound(o.index, o.handle, o.servers)
      BY <1>1, <1>2 DEF OpOK, Held
    <3>6. OpOK(x)
      BY <1>1, <1>2, <3>2, <3>3, <3>4, <3>5 DEF OpOK, Held
    <3>7. CacheOK'
      BY <1>1, <2>2, Same, CacheShrinks DEF TInv
    <3> QED BY <3>1, <3>6, <3>7
  <2> QED BY <2>1, <2>2 DEF AppendToReplica
<1> QED BY <1>1, <1>3, <1>4, <1>5, LocalStep

\* What an append that succeeds says.
LEMMA AppendSizeOK ==
  ASSUME TInv, NEW c \in Client, AppendSize(c)
  PROVE  TInv'
<1> DEFINE o == op[c]
           end == o.index * ChunkSize + o.offset + 1
           a == [record |-> o.record, index |-> o.index, offset |-> o.offset,
                 handle |-> o.handle, servers |-> Range(o.servers)]
<1>1. /\ UNCHANGED <<chunks, files, location, whole, disk, cache, count,
                     disturbed>>
      /\ o.at = "size" /\ o.kind = "append"
      /\ op' = [op EXCEPT ![c] = Idle]
      /\ size' \in {size, Most(o.size, end)}
      /\ acked' \in {acked, acked \cup {a}}
      /\ Works \/ Fails
  BY DEF AppendSize
<1>2. OpOK(o) /\ o \in Op /\ o.record \in Record
      /\ o.offset \in Nat /\ o.size \in Nat /\ o.index \in Nat
      /\ Sound(o.index, o.handle, o.servers)
  BY <1>1 DEF TInv, OpsOK, OpOK, Op, Held
<1>3. size' \in Nat
  <2>1. o.index * ChunkSize \in Nat
    BY <1>2, ClientAssumption, Product
  <2>2. end \in Nat
    BY <1>2, <2>1
  <2> HIDE DEF end
  <2>3. o.size \in Nat /\ Most(o.size, end) \in Nat
    BY <1>2, <2>2, LeastMost
  <2>4. size' = size \/ size' = Most(o.size, end)
    BY <1>1
  <2> QED BY <2>3, <2>4 DEF TInv, MasterOK
<1>4. a \in Ack /\ a.handle \in 1..Made
      /\ (a.handle \in whole => a.servers = Server)
  <2>1. o.handle \in Handle /\ Range(o.servers) \subseteq Server
    <3>1. Made \in 0..MaxHandle
      BY DEF TInv, MasterOK
    <3>2. o.servers \in [1..Len(o.servers) -> Server]
      BY <1>2, LenProperties DEF Sound
    <3> QED BY <1>2, <3>1, <3>2, ClientAssumption DEF Sound, Handle, Range
  <2> QED BY <1>2, <2>1 DEF Ack, Sound
<1>5. Made' = Made
  BY <1>1 DEF Made
<1>6. MasterOK' /\ DiskOK'
  BY <1>1, <1>3, <1>5 DEF TInv, MasterOK, DiskOK
<1>7. CountsOK'
  <2>1. faults' \in 0..MaxFaults
    BY <1>1, FaultsOK
  <2>2. acked' \subseteq Ack /\ \A b \in acked' : b = a \/ b \in acked
    BY <1>1, <1>4 DEF TInv, CountsOK
  <2> HIDE DEF a
  <2> QED BY <1>1, <1>4, <1>5, <2>1, <2>2 DEF TInv, CountsOK
<1>8. OpsOK' /\ CacheOK'
  <2>1. OpOK(Idle)
    BY IdleOK
  <2>2. \E x : OpOK(x)' /\ op' = [op EXCEPT ![c] = x]
    <3>1. PICK x : x = Idle
      OBVIOUS
    <3> QED BY <1>1, <2>1, <3>1, Same
  <2>3. OpsOK'
    BY <1>1, <2>2, Same, OpsStep DEF TInv
  <2>4. CacheOK'
    BY <1>1, Same, CacheShrinks DEF TInv
  <2> QED BY <2>3, <2>4
<1> QED BY <1>6, <1>7, <1>8 DEF TInv

\* After a chunk was written or read.
LEMMA NextChunkOK ==
  ASSUME NEW o, OpOK(o), o.at \in {"write", "took"}, o.kind # "append"
  PROVE  OpOK(NextChunk(o))
<1> DEFINE x == NextChunk(o)
<1>1. /\ o \in Op /\ o.index \in Nat /\ o.kind \in {"append", "write", "read"}
      /\ o.offset < ChunkSize /\ o.tries = MaxTries
  BY DEF OpOK, Op
<1>2. Stop(o) \in Nat
  BY <1>1, PartSound
<1>3. /\ x \in Op /\ x.kind = o.kind /\ x.offset = o.offset
      /\ x.tries = o.tries
      /\ x.at \in {"resolve", "size", "idle"}
      /\ x.at = "size" => o.kind = "write"
  <2>1. <<>> \in Seq(Unit) /\ o.index + 1 \in Nat
    BY <1>1
  <2> QED BY <1>1, <1>2, <2>1 DEF Op, NextChunk
<1> HIDE DEF x
<1>4. OpOK(x)
  BY <1>1, <1>3 DEF OpOK, Held
<1> QED BY <1>4 DEF x

\* The next replica of the chunk.
LEMMA TryNextOK ==
  ASSUME NEW o, OpOK(o), o.at = "write", o.kind # "append"
  PROVE  OpOK(IF Len(o.todo) = 1 THEN Idle
              ELSE [o EXCEPT !.todo = Tail(o.todo)])
<1> DEFINE x == [o EXCEPT !.todo = Tail(o.todo)]
<1>1. o \in Op /\ o.todo \in Seq(Server) /\ o.todo # <<>>
  BY DEF OpOK, Op
<1>2. Tail(o.todo) \in Seq(Server)
      /\ (Len(o.todo) # 1 => Tail(o.todo) # <<>>)
  BY <1>1, TodoOK
<1>3. /\ x \in Op /\ x.at = "write" /\ x.kind = o.kind /\ x.tries = o.tries
      /\ x.offset = o.offset /\ x.index = o.index /\ x.handle = o.handle
      /\ x.servers = o.servers /\ x.todo = Tail(o.todo)
  BY <1>1, <1>2 DEF Op
<1> HIDE DEF x
<1>4. Len(o.todo) # 1 => OpOK(x)
  BY <1>2, <1>3 DEF OpOK, Held
<1> QED BY <1>4, IdleOK DEF x

LEMMA WriteToReplicaOK ==
  ASSUME TInv, NEW c \in Client, WriteToReplica(c)
  PROVE  TInv'
<1> DEFINE o == op[c]
           data == [i \in 1..Stop(o) - o.from |-> o.record]
<1>1. /\ UNCHANGED <<master, acked, count, disturbed, cache>>
      /\ UNCHANGED <<location, whole>> /\ o.at = "write" /\ o.kind = "write"
  BY DEF WriteToReplica, master, history
<1>2. OpOK(o) /\ o \in Op /\ o.record \in Unit
  BY <1>1 DEF TInv, OpsOK, OpOK, Op
<1>3. faults' \in 0..MaxFaults /\ count' \in 0..MaxOps
      /\ disturbed' \in BOOLEAN
  BY <1>1, FaultsOK DEF WriteToReplica, TInv, CountsOK
<1>4. DiskOK'
  <2>1. Start(o) \in Nat /\ Stop(o) - o.from \in Int
    BY <1>2, PartSound DEF Op
  <2>2. data \in Seq(Unit)
    <3>1. CASE Stop(o) - o.from \in Nat
      BY <1>2, <3>1, SeqDef
    <3>2. CASE Stop(o) - o.from \notin Nat
      <4>1. 1..Stop(o) - o.from = 1..0
        BY <2>1, <3>2
      <4>2. data \in [1..0 -> Unit]
        BY <1>2, <4>1
      <4> HIDE DEF data
      <4>3. 0 \in Nat
        OBVIOUS
      <4> QED BY <4>2, <4>3, SeqDef
    <3> QED BY <3>1, <3>2
  <2>3. Written(Head(o.todo), o.handle, Start(o), data) \/ UNCHANGED disk
    BY DEF WriteToReplica
  <2> HIDE DEF data
  <2> QED BY <1>1, <2>1, <2>2, <2>3, WrittenOK
<1>5. \E x : OpOK(x) /\ op' = [op EXCEPT ![c] = x]
  BY <1>1, <1>2, NextChunkOK, TryNextOK DEF WriteToReplica
<1>6. CacheOK'
  BY <1>1, Same, CacheShrinks DEF TInv
<1> QED BY <1>1, <1>3, <1>4, <1>5, <1>6, LocalStep

LEMMA ReadsOK ==
  ASSUME TInv, NEW c \in Client, ReadReplica(c) \/ ReadOn(c)
  PROVE  TInv'
<1> DEFINE o == op[c]
<1>1. /\ UNCHANGED <<master, disk, acked, count, disturbed, cache>>
      /\ UNCHANGED <<location, whole>>
      /\ UNCHANGED faults \/ Works \/ Fails
  BY DEF ReadReplica, ReadOn, master, history
<1>2. OpOK(o) /\ o \in Op
  BY DEF TInv, OpsOK, OpOK
<1>3. faults' \in 0..MaxFaults /\ count' \in 0..MaxOps
      /\ disturbed' \in BOOLEAN
  BY <1>1, FaultsOK DEF TInv, CountsOK, Works
<1>4. \E x : OpOK(x) /\ op' = [op EXCEPT ![c] = x]
  <2>1. CASE ReadOn(c)
    <3>1. o.at = "took" /\ o.kind # "append"
      BY <1>2, <2>1 DEF ReadOn, OpOK
    <3> QED BY <1>2, <2>1, <3>1, NextChunkOK, IdleOK DEF ReadOn
  <2>2. CASE ReadReplica(c)
    <3> DEFINE s == Head(o.todo)
               end == Start(o) + (Stop(o) - o.from)
               got == SubSeq(disk[s][o.handle], Start(o) + 1, end)
    <3>1. o.at = "write" /\ o.kind = "read"
      BY <2>2 DEF ReadReplica
    <3>2. CASE /\ op' = [op EXCEPT ![c].at = "took", ![c].got = got]
               /\ Answers(s, o.handle, end)
      <4> DEFINE x == [o EXCEPT !.at = "took", !.got = got]
      <4>1. op' = [op EXCEPT ![c] = x]
        BY <3>2 DEF TInv, OpsOK
      <4>2. o.todo \in Seq(Server) /\ o.todo # <<>>
        BY <1>2, <3>1 DEF OpOK, Op
      <4>3. s \in Server
        BY <4>2, TodoOK
      <4>4. disk[s][o.handle] \in Seq(Unit)
            /\ Len(disk[s][o.handle]) \in Nat /\ end \in Int
            /\ Start(o) \in Nat /\ end <= Len(disk[s][o.handle])
        <5>1. disk[s][o.handle] \in Seq(Unit)
          BY <3>2, <4>3 DEF Answers, TInv, DiskOK
        <5>2. Start(o) \in Nat /\ Stop(o) \in Nat /\ o.from \in Nat
          BY <1>2, PartSound DEF Op
        <5>3. Len(disk[s][o.handle]) \in Nat
          BY <5>1, LenProperties
        <5> QED BY <3>2, <5>1, <5>2, <5>3 DEF Answers
      <4>5. got \in Seq(Unit)
        <5> HIDE DEF end
        <5>1. \A i \in Start(o) + 1..end : disk[s][o.handle][i] \in Unit
          BY <4>4, LenProperties
        <5> QED BY <4>4, <5>1, SubSeqProperties
      <4> HIDE DEF got
      <4>6. /\ x \in Op /\ x.at = "took" /\ x.kind = "read"
            /\ x.tries = o.tries /\ x.offset = o.offset /\ x.index = o.index
            /\ x.handle = o.handle /\ x.servers = o.servers
        BY <1>2, <3>1, <4>5 DEF Op
      <4> HIDE DEF x
      <4>7. OpOK(x)
        BY <1>2, <3>1, <4>6 DEF OpOK, Held
      <4> QED BY <4>1, <4>7
    <3>3. CASE op' = [op EXCEPT ![c] =
                        IF Len(o.todo) = 1 THEN Idle
                        ELSE [o EXCEPT !.todo = Tail(o.todo)]]
      BY <1>2, <3>1, <3>3, TryNextOK
    <3> QED BY <2>2, <3>2, <3>3 DEF ReadReplica
  <2> QED BY <2>1, <2>2
<1>5. CacheOK'
  BY <1>1, Same, CacheShrinks DEF TInv
<1> QED BY <1>1, <1>3, <1>4, <1>5, LocalStep

\* Operations of others that are marked.
LEMMA MarkedOK ==
  ASSUME NEW o, OpOK(o), NEW b \in BOOLEAN
  PROVE  OpOK([o EXCEPT !.stale = b])
<1> DEFINE x == [o EXCEPT !.stale = b]
<1>1. o \in Op
  BY DEF OpOK
<1>2. /\ x \in Op /\ x.at = o.at /\ x.kind = o.kind /\ x.tries = o.tries
      /\ x.offset = o.offset /\ x.index = o.index /\ x.handle = o.handle
      /\ x.servers = o.servers /\ x.todo = o.todo /\ x.record = o.record
  BY <1>1 DEF Op
<1> HIDE DEF x
<1>3. OpOK(x)
  BY <1>2 DEF OpOK, Held
<1> QED BY <1>3 DEF x

LEMMA WriteSizeOK ==
  ASSUME TInv, NEW c \in Client, WriteSize(c)
  PROVE  TInv'
<1>1. /\ UNCHANGED <<chunks, files, location, whole, disk, cache, count,
                     acked, disturbed>>
      /\ size' \in {size, op[c].to}
      /\ Works \/ Fails
      /\ op' = [d \in Client |->
           IF d = c THEN Idle
           ELSE [op[d] EXCEPT !.stale =
                   op[d].stale \/ (~Busy(d) /\ size' < op[d].to)]]
  BY DEF WriteSize, history
<1>2. \A d \in Client : OpOK(op[d]) /\ op[d] \in Op /\ op[d].to \in Nat
  BY DEF TInv, OpsOK, OpOK, Op
<1>3. Made' = Made
  BY <1>1 DEF Made
<1>4. MasterOK' /\ DiskOK'
  BY <1>1, <1>2, <1>3 DEF TInv, MasterOK, DiskOK
<1>5. CountsOK'
  BY <1>1, <1>3, FaultsOK DEF TInv, CountsOK
<1>6. CacheOK'
  BY <1>1, Same, CacheShrinks DEF TInv
<1>7. OpsOK'
  <2>1. DOMAIN op' = Client /\ op' = [d \in Client |-> op'[d]]
    BY <1>1
  <2>2. ASSUME NEW d \in Client, NEW x, x = op'[d]
        PROVE  OpOK(x)'
    <3>1. CASE d = c
      <4>1. x = Idle
        BY <1>1, <2>2, <3>1
      <4> QED BY <1>1, <4>1, IdleOK, Same
    <3>2. CASE d # c
      <4> DEFINE b == op[d].stale \/ (~Busy(d) /\ size' < op[d].to)
      <4>1. x = [op[d] EXCEPT !.stale = b]
        BY <1>1, <2>2, <3>2
      <4>2. b \in BOOLEAN
        BY <1>2 DEF Op
      <4> HIDE DEF b
      <4>3. OpOK(x)
        BY <1>2, <4>1, <4>2, MarkedOK
      <4> QED BY <1>1, <4>3, Same
    <3> QED BY <3>1, <3>2
  <2> QED BY <2>1, <2>2 DEF OpsOK
<1> QED BY <1>4, <1>5, <1>6, <1>7 DEF TInv

\* The file is deleted and created again.
LEMMA RecreateOK ==
  ASSUME TInv, Recreate
  PROVE  TInv'
<1>1. /\ UNCHANGED <<location, whole, disk, cache, count, faults>>
      /\ chunks' = <<>> /\ size' = 0 /\ files < MaxFiles /\ files' = files + 1
      /\ acked' = {} /\ disturbed' \in BOOLEAN
      /\ op' = [c \in Client |-> IF op[c].at = "idle" THEN op[c]
                                 ELSE [op[c] EXCEPT !.stale = TRUE]]
  BY DEF Recreate, TInv, CountsOK
<1>2. Made' = Made
  BY <1>1 DEF Made
<1>3. MasterOK'
  <2>1. /\ <<>> \in Seq(Handle) /\ IsInjective(<<>>) /\ Len(<<>>) = 0
        /\ Range(<<>>) = {}
    BY DEF IsInjective, Range
  <2>2. files' \in 1..MaxFiles
    BY <1>1, ClientAssumption DEF TInv, MasterOK
  <2> QED BY <1>1, <1>2, <2>1, <2>2 DEF TInv, MasterOK
<1>4. DiskOK' /\ CountsOK'
  BY <1>1, <1>2 DEF TInv, DiskOK, CountsOK
<1>5. CacheOK'
  BY <1>1, Same, CacheShrinks DEF TInv
<1>6. OpsOK'
  <2>1. DOMAIN op' = Client /\ op' = [d \in Client |-> op'[d]]
    BY <1>1
  <2>2. ASSUME NEW d \in Client, NEW x, x = op'[d]
        PROVE  OpOK(x)'
    <3>1. OpOK(op[d])
      BY DEF TInv, OpsOK
    <3>2. OpOK(x)
      BY <1>1, <2>2, <3>1, MarkedOK
    <3> QED BY <1>1, <3>2, Same
  <2> QED BY <2>1, <2>2 DEF OpsOK
<1> QED BY <1>3, <1>4, <1>5, <1>6 DEF TInv

\* A server is listed for the chunks it has.
LEMMA HeartbeatOK ==
  ASSUME TInv, NEW s \in Server, Heartbeat(s)
  PROVE  TInv'
<1>1. /\ UNCHANGED <<chunks, size, files, whole, disk, cache, op, count,
                     faults, acked, disturbed>>
      /\ location' = [h \in DOMAIN location |->
           IF h \in DOMAIN disk[s] /\ s \notin Range(location[h])
           THEN Append(location[h], s) ELSE location[h]]
  BY DEF Heartbeat, history
<1>2. /\ DOMAIN location = 1..Made /\ DOMAIN location' = 1..Made
      /\ Made' = Made /\ Made \in Nat
  BY <1>1, ClientAssumption DEF TInv, MasterOK, Made
<1>3. ASSUME NEW h \in 1..Made
      PROVE  /\ location'[h] \in Seq(Server)
             /\ Range(location[h]) = Server => Range(location'[h]) = Server
  <2>1. location[h] \in Seq(Server)
    BY DEF TInv, MasterOK
  <2>2. CASE location'[h] = location[h]
    BY <2>1, <2>2
  <2>3. CASE location'[h] = Append(location[h], s) /\ s \notin Range(location[h])
    <3>1. Append(location[h], s) \in Seq(Server)
      BY <2>1, AppendProperties
    <3> QED BY <2>3, <3>1
  <2> QED BY <1>1, <1>2, <2>2, <2>3
<1>4. MasterOK'
  <2>1. location' \in [1..Made -> Seq(Server)]
    BY <1>1, <1>2, <1>3
  <2>2. \A h \in whole' : Range(location'[h]) = Server
    BY <1>1, <1>3 DEF TInv, MasterOK
  <2> QED BY <1>1, <1>2, <2>1, <2>2 DEF TInv, MasterOK
<1>5. DiskOK' /\ CountsOK'
  BY <1>1, <1>2 DEF TInv, DiskOK, CountsOK
<1>6. /\ \A i, h, ss : Sound(i, h, ss) => Sound(i, h, ss)'
      /\ \A o : OpOK(o) => OpOK(o)'
  BY <1>1, <1>2, Grown
<1>7. CacheOK'
  BY <1>1, <1>6, CacheShrinks DEF TInv
<1>8. OpsOK'
  BY <1>1, <1>6 DEF TInv, OpsOK
<1> QED BY <1>4, <1>5, <1>7, <1>8 DEF TInv

\* AllocateChunk gives every server a replica.
LEMMA AllServers ==
  ASSUME NEW servers \in SetToSeqs(Server)
  PROVE  /\ servers \in Seq(Server) /\ servers # <<>>
         /\ Range(servers) = Server
<1> DEFINE n == Cardinality(Server)
<1>1. n \in Nat /\ n # 0 /\ IsFiniteSet(Server)
  BY ClientAssumption, FS_CardinalityType, FS_EmptySet
<1>2. /\ servers \in [1..n -> Server]
      /\ \A i, j \in 1..n : i # j => servers[i] # servers[j]
  BY DEF SetToSeqs
<1> HIDE DEF n
<1>3. servers \in Injection(1..n, Server)
  BY <1>2 DEF Injection, IsInjective
<1>4. IsFiniteSet(1..n) /\ Cardinality(1..n) = n
  BY <1>1, FS_Interval
<1>5. servers \in Surjection(1..n, Server)
  BY <1>1, <1>3, <1>4, FS_Injection DEF n
<1>6. Range(servers) = Server
  BY <1>2, <1>5 DEF Surjection, Range
<1>7. servers \in Seq(Server) /\ Len(servers) = n
  BY <1>1, <1>2, SeqDef, LenProperties
<1>8. servers # <<>>
  BY <1>1, <1>7
<1> QED BY <1>6, <1>7, <1>8

\* What the master and the disks have after an allocation.
LEMMA Added ==
  ASSUME TInv, NEW h, h = Made + 1, h <= MaxHandle, NEW L \in Seq(Server),
         NEW S \in SUBSET Server,
         AddChunk(h, S, L),
         \/ UNCHANGED whole
         \/ whole' = whole \cup {h} /\ Range(L) = Server,
         UNCHANGED <<size, files>>
  PROVE  /\ MasterOK' /\ DiskOK' /\ Made' = h
         /\ \A i, g, ss : Sound(i, g, ss) => Sound(i, g, ss)'
         /\ \A o : OpOK(o) => OpOK(o)'
<1>1. /\ Made \in Nat /\ MaxHandle \in Nat /\ h \in Nat \ {0}
      /\ h \in Handle /\ h \notin 1..Made /\ 1..h = 1..Made \cup {h}
  BY ClientAssumption DEF TInv, MasterOK, Handle
<1>2. /\ DOMAIN location = 1..Made /\ DOMAIN location' = 1..h
      /\ location \in [1..Made -> Seq(Server)]
  BY <1>1 DEF TInv, MasterOK, AddChunk
<1>3. Made' = h
  BY <1>1, <1>2, FS_Interval DEF Made
<1>4. location' \in [1..h -> Seq(Server)]
  BY <1>1, <1>2 DEF AddChunk
<1>5. \A g \in 1..Made : location'[g] = location[g]
  BY <1>1, <1>2 DEF AddChunk
<1>6. location'[h] = L
  BY <1>2 DEF AddChunk
<1>7. /\ whole' \subseteq 1..h
      /\ \A g \in whole' : Range(location'[g]) = Server
      /\ \A g \in 1..Made : g \in whole' => g \in whole
  BY <1>1, <1>5, <1>6 DEF TInv, MasterOK
<1>8. /\ chunks' \in Seq(Handle) /\ IsInjective(chunks')
      /\ Len(chunks') <= h /\ Range(chunks') \subseteq 1..h
  <2>1. /\ chunks \in Seq(Handle) /\ Len(chunks) \in Nat
        /\ DOMAIN chunks = 1..Len(chunks) /\ IsInjective(chunks)
        /\ Len(chunks) <= Made /\ Range(chunks) \subseteq 1..Made
    BY LenProperties DEF TInv, MasterOK
  <2>2. /\ chunks' \in Seq(Handle) /\ Len(chunks') = Len(chunks) + 1
        /\ DOMAIN chunks' = 1..Len(chunks) + 1
        /\ \A i \in 1..Len(chunks) : chunks'[i] = chunks[i]
        /\ chunks'[Len(chunks) + 1] = h
    BY <1>1, <2>1, AppendProperties, LenProperties DEF AddChunk
  <2>3. \A i \in 1..Len(chunks) : chunks[i] \in 1..Made
    BY <2>1 DEF Range
  <2>4. \A i \in 1..Len(chunks) + 1 : i = Len(chunks) + 1 \/ i \in 1..Len(chunks)
    BY <2>1
  <2>5. IsInjective(chunks')
    BY <1>1, <2>1, <2>2, <2>3, <2>4 DEF IsInjective
  <2>6. Range(chunks') \subseteq 1..h
    BY <1>1, <2>1, <2>2, <2>3, <2>4 DEF Range
  <2> QED BY <1>1, <2>1, <2>2, <2>5, <2>6
<1>9. MasterOK'
  BY <1>1, <1>3, <1>4, <1>7, <1>8 DEF TInv, MasterOK
<1>10. DiskOK'
  <2>1. DOMAIN disk' = Server /\ disk' = [s \in Server |-> disk'[s]]
    BY DEF AddChunk
  <2>2. ASSUME NEW s \in Server
        PROVE  /\ DOMAIN disk'[s] \subseteq 1..h
               /\ disk'[s] \in [DOMAIN disk'[s] -> Seq(Unit)]
    <3>1. /\ DOMAIN disk[s] \subseteq 1..Made
          /\ disk[s] \in [DOMAIN disk[s] -> Seq(Unit)]
      BY DEF TInv, DiskOK
    <3>2. <<>> \in Seq(Unit)
      OBVIOUS
    <3> DEFINE D == DOMAIN disk[s] \cup (IF s \in S THEN {h} ELSE {})
    <3>3. disk'[s] = [g \in D |-> IF g = h THEN <<>> ELSE disk[s][g]]
      BY DEF AddChunk
    <3>4. D \subseteq 1..h /\ \A g \in D : g # h => g \in DOMAIN disk[s]
      BY <1>1, <3>1
    <3> HIDE DEF D
    <3> QED BY <3>1, <3>2, <3>3, <3>4
  <2> QED BY <1>3, <2>1, <2>2 DEF DiskOK
<1>11. Made <= Made' /\ Made' \in Nat
  BY <1>1, <1>3
<1>12. /\ \A i, g, ss : Sound(i, g, ss) => Sound(i, g, ss)'
       /\ \A o : OpOK(o) => OpOK(o)'
  BY <1>1, <1>7, <1>11, Grown
<1> QED BY <1>3, <1>9, <1>10, <1>12

LEMMA AllocateOK ==
  ASSUME TInv, NEW c \in Client, Allocate(c)
  PROVE  TInv'
<1> DEFINE o == op[c]
<1>1. PICK h : h = Made + 1
  OBVIOUS
<1>2. /\ o.at = "allocate" /\ h <= MaxHandle
      /\ UNCHANGED <<size, files, count, acked, disturbed>>
      /\ Works \/ Fails
  BY <1>1 DEF Allocate, history, Made
<1>3. OpOK(o) /\ o \in Op /\ o.index \in Nat /\ o.index <= Made
  BY <1>2 DEF TInv, OpsOK, OpOK, Op
<1>4. /\ count' \in 0..MaxOps /\ faults' \in 0..MaxFaults
      /\ acked' \subseteq Ack /\ disturbed' \in BOOLEAN
  BY <1>2, FaultsOK DEF TInv, CountsOK
<1>5. Made \in Nat /\ h \in 1..h /\ h \in Handle /\ h \notin 1..Made
  BY <1>1, <1>2, ClientAssumption DEF TInv, MasterOK, Handle
<1>6. ASSUME NEW servers \in SetToSeqs(Server), NEW e,
             e = [handle |-> h, servers |-> servers],
             AddChunk(h, Server, servers), whole' = whole \cup {h},
             \/ /\ Keep(c, o.index, e)
                /\ op' = [op EXCEPT ![c] = Resolved(o, e)]
             \/ Retry(c, o.index)
      PROVE  TInv'
  <2>1. /\ servers \in Seq(Server) /\ servers # <<>>
        /\ Range(servers) = Server
    BY <1>6, AllServers
  <2>2. /\ MasterOK' /\ DiskOK' /\ Made' = h
        /\ \A i, g, ss : Sound(i, g, ss) => Sound(i, g, ss)'
        /\ \A x : OpOK(x) => OpOK(x)'
    <3>1. Server \in SUBSET Server
      OBVIOUS
    <3> QED BY <1>1, <1>2, <1>6, <2>1, <3>1, Added
  <2>3. CountsOK'
    <3>1. ASSUME NEW a \in acked
          PROVE  /\ a.handle \in 1..h
                 /\ a.handle \in whole' => a.servers = Server
      <4>1. /\ a.handle \in 1..Made
            /\ a.handle \in whole => a.servers = Server
        BY DEF TInv, CountsOK
      <4> QED BY <1>1, <1>5, <1>6, <4>1
    <3> QED BY <1>2, <1>4, <2>2, <3>1 DEF CountsOK
  <2>4. OpsOK' /\ CacheOK'
    <3>1. CASE Retry(c, o.index)
      <4>1. PICK x : OpOK(x) /\ op' = [op EXCEPT ![c] = x]
        BY <1>2, <1>3, <3>1, RetryStep
      <4>2. OpOK(x)'
        BY <2>2, <4>1
      <4>3. OpsOK'
        BY <2>2, <4>1, <4>2, OpsStep DEF TInv
      <4> QED BY <1>2, <1>3, <2>2, <3>1, <4>3, RetryStep
    <3>2. CASE /\ Keep(c, o.index, e)
               /\ op' = [op EXCEPT ![c] = Resolved(o, e)]
      <4>1. e \in Entry /\ e.handle = h /\ e.servers = servers
        BY <1>5, <1>6, <2>1 DEF Entry
      <4>2. PICK p, j : p = o /\ j = o.index
        OBVIOUS
      <4>3. OpOK(p) /\ p.at = "allocate" /\ p.index = j
        BY <1>2, <1>3, <4>2
      <4>4. Sound(j, e.handle, e.servers)'
        <5>1. j \in 0..MaxHandle
          BY <1>1, <1>2, <1>3, <1>5, <4>2, ClientAssumption
        <5> QED BY <1>5, <2>1, <2>2, <4>1, <5>1 DEF Sound
      <4>5. OpOK(Resolved(p, e))'
        BY <4>1, <4>3, <4>4, ResolvedOK
      <4>6. op' = [op EXCEPT ![c] = Resolved(p, e)]
        BY <3>2, <4>2
      <4>7. OpsOK'
        BY <2>2, <4>5, <4>6, OpsStep DEF TInv
      <4>8. Keep(c, j, e)
        BY <3>2, <4>2
      <4>9. CacheOK'
        BY <2>2, <4>1, <4>4, <4>8, CacheGrows DEF TInv
      <4> QED BY <4>7, <4>9
    <3> QED BY <1>6, <3>1, <3>2
  <2> QED BY <2>2, <2>3, <2>4 DEF TInv
<1>7. ASSUME NEW S \in SUBSET Server, AddChunk(h, S, <<>>),
             Retry(c, o.index), UNCHANGED whole
      PROVE  TInv'
  <2>1. <<>> \in Seq(Server)
    OBVIOUS
  <2>2. /\ MasterOK' /\ DiskOK' /\ Made' = h
        /\ \A i, g, ss : Sound(i, g, ss) => Sound(i, g, ss)'
        /\ \A x : OpOK(x) => OpOK(x)'
    BY <1>1, <1>2, <1>7, <2>1, Added
  <2>3. PICK x : OpOK(x) /\ op' = [op EXCEPT ![c] = x]
    BY <1>2, <1>3, <1>7, RetryStep
  <2>4. OpOK(x)'
    BY <2>2, <2>3
  <2>5. OpsOK'
    BY <2>2, <2>3, <2>4, OpsStep DEF TInv
  <2>6. CacheOK'
    BY <1>2, <1>3, <1>7, <2>2, RetryStep
  <2>7. CountsOK'
    BY <1>1, <1>2, <1>4, <1>5, <1>7, <2>2 DEF TInv, CountsOK
  <2> QED BY <2>2, <2>5, <2>6, <2>7 DEF TInv
<1>8. \/ \E servers \in SetToSeqs(Server) :
           /\ AddChunk(h, Server, servers)
           /\ whole' = whole \cup {h}
           /\ \/ /\ Keep(c, o.index, [handle |-> h, servers |-> servers])
                 /\ op' = [op EXCEPT ![c] =
                      Resolved(o, [handle |-> h, servers |-> servers])]
              \/ Retry(c, o.index)
      \/ \E S \in SUBSET Server :
           /\ AddChunk(h, S, <<>>)
           /\ Retry(c, o.index)
           /\ UNCHANGED whole
  BY <1>1 DEF Allocate, Made
<1> QED BY <1>6, <1>7, <1>8

LEMMA InitOK == Init => TInv
<1> SUFFICES ASSUME Init PROVE TInv
  OBVIOUS
<1>1. /\ chunks = <<>> /\ size = 0 /\ files = 1 /\ location = <<>>
      /\ whole = {} /\ disk = [s \in Server |-> <<>>]
      /\ cache = [c \in Client |-> <<>>] /\ op = [c \in Client |-> Idle]
      /\ count = 0 /\ faults = 0 /\ acked = {} /\ disturbed = FALSE
  BY DEF Init
<1>2. DOMAIN <<>> = {} /\ Range(<<>>) = {} /\ IsInjective(<<>>)
      /\ \A T : <<>> \in [{} -> T]
  BY DEF Range, IsInjective
<1>3. Made = 0
  BY <1>1, <1>2, FS_EmptySet DEF Made
<1>4. 1..0 = {} /\ Len(<<>>) = 0 /\ \A T : <<>> \in Seq(T)
  OBVIOUS
<1>5. MasterOK
  BY <1>1, <1>2, <1>3, <1>4, ClientAssumption DEF MasterOK
<1>6. DiskOK /\ CacheOK
  BY <1>1, <1>2, <1>3, <1>4 DEF DiskOK, CacheOK
<1>7. OpsOK
  BY <1>1, IdleOK DEF OpsOK
<1>8. CountsOK
  <2>1. 0 \in 0..MaxOps /\ 0 \in 0..MaxFaults
    BY ClientAssumption
  <2>2. \A a \in acked : FALSE
    BY <1>1
  <2> QED BY <1>1, <2>1, <2>2 DEF CountsOK
<1> QED BY <1>5, <1>6, <1>7, <1>8 DEF TInv

LEMMA NextOK == TInv /\ [Next]_vars => TInv'
<1> SUFFICES ASSUME TInv, [Next]_vars PROVE TInv'
  OBVIOUS
<1>1. CASE UNCHANGED vars
  <2>1. UNCHANGED <<chunks, size, files, location, whole, disk, cache, op,
                    count, faults, acked, disturbed>> /\ Made' = Made
    BY <1>1 DEF vars, master, history, Made
  <2>2. MasterOK' /\ DiskOK' /\ CountsOK'
    BY <2>1 DEF TInv, MasterOK, DiskOK, CountsOK
  <2>3. CacheOK'
    BY <2>1, Same, CacheShrinks DEF TInv
  <2>4. OpsOK'
    BY <2>1, Same DEF TInv, OpsOK
  <2> QED BY <2>2, <2>3, <2>4 DEF TInv
<1>2. ASSUME NEW c \in Client, Step(c)
      PROVE  TInv'
  BY <1>2, BeginsOK, ResolveOK, AllocateOK, PlanOK, AppendToReplicaOK,
     AppendSizeOK, WriteToReplicaOK, WriteSizeOK, ReadsOK DEF Step
<1> QED BY <1>1, <1>2, HeartbeatOK, RecreateOK DEF Next

LEMMA TypesAlways == Spec => []TInv
<1> QED BY InitOK, NextOK, PTL DEF Spec

\* The types, for any number of clients, servers and operations: what an
\* append has planned to write begins within its chunk, whatever size the
\* file got meanwhile (PlanAppend), and every location in a cache or in hand
\* is of a chunk there is, with at least one server.
THEOREM ClientTypes == Spec => []TypeOK
<1>1. TInv => TypeOK
  <2> SUFFICES ASSUME TInv PROVE TypeOK
    OBVIOUS
  <2>1. Made \in 0..MaxHandle /\ MaxHandle \in Nat
    BY ClientAssumption DEF TInv, MasterOK
  <2>2. 1..Made \subseteq Handle
    BY <2>1 DEF Handle
  <2>3. \E H \in SUBSET Handle : location \in [H -> Seq(Server)]
    BY <2>2 DEF TInv, MasterOK
  <2>4. \A s \in Server :
          \E H \in SUBSET Handle : disk[s] \in [H -> Seq(Unit)]
    <3> SUFFICES ASSUME NEW s \in Server
                 PROVE  \E H \in SUBSET Handle : disk[s] \in [H -> Seq(Unit)]
      OBVIOUS
    <3>1. DOMAIN disk[s] \in SUBSET Handle
          /\ disk[s] \in [DOMAIN disk[s] -> Seq(Unit)]
      BY <2>2 DEF TInv, DiskOK
    <3> QED BY <3>1
  <2>5. \A c \in Client :
          /\ DOMAIN cache[c] \subseteq 0..MaxHandle
          /\ \A i \in DOMAIN cache[c] : cache[c][i] \in Entry
          /\ op[c] \in Op /\ op[c].offset < ChunkSize
    BY DEF TInv, CacheOK, OpsOK, OpOK, Sound
  <2>6. /\ chunks \in Seq(Handle) /\ size \in Nat /\ files \in 1..MaxFiles
        /\ whole \subseteq DOMAIN location
        /\ count \in 0..MaxOps /\ faults \in 0..MaxFaults
        /\ acked \subseteq Ack /\ disturbed \in BOOLEAN
    BY DEF TInv, MasterOK, CountsOK
  <2> QED BY <2>3, <2>4, <2>5, <2>6 DEF TypeOK
<1> QED BY <1>1, TypesAlways, PTL

-----------------------------------------------------------------------------
(* What was appended.                                                      *)

\* An append has made sure that its chunk is where it wants it.
Aimed(o) ==
  o.kind = "append" /\ ~o.stale /\ o.at \in {"plan", "write", "size"} =>
    o.index < Len(chunks) /\ chunks[o.index + 1] = o.handle

\* A chunk of the file is where it is thought to be.
At(i, h) ==
  h \in Range(chunks) => i < Len(chunks) /\ chunks[i + 1] = h

Stored(s, h, offset, record) ==
  /\ h \in DOMAIN disk[s] /\ offset < Len(disk[s][h])
  /\ disk[s][h][offset + 1] = record

\* An append goes behind what there is, and has called the replicas that are
\* not left; a write finds nothing appended.
Writing(o) ==
  o.at # "idle" /\ o.kind # "read" =>
    /\ ~o.stale
    /\ o.at = "allocate" => o.index = Len(chunks)
    /\ o.kind = "write" => acked = {}
    /\ o.kind = "append" =>
         /\ o.size = size
         /\ o.at \in {"write", "size"} =>
              o.index * ChunkSize + o.offset >= size
         /\ o.at = "write" =>
              \A s \in Range(o.servers) :
                s \in Range(o.todo) \/ Stored(s, o.handle, o.offset, o.record)
         /\ o.at = "size" =>
              \A s \in Range(o.servers) :
                Stored(s, o.handle, o.offset, o.record)

Returned(o) ==
  o.at = "took" /\ ~o.stale /\ o.handle \in whole \cap Range(chunks) =>
    \A a \in acked :
      LET i == a.offset - Start(o) + 1
      IN  o.index = a.index /\ i \in DOMAIN o.got => o.got[i] = a.record

\* A read ends within the file, and has what was appended.
Reading(o) ==
  /\ Held(o) => At(o.index, o.handle)
  /\ o.at # "idle" /\ o.kind = "read" =>
       /\ o.from = o.index * ChunkSize + Start(o)
       /\ ~o.stale => o.to <= size
  /\ o.at = "took" => \A i \in DOMAIN o.got : o.from + i <= o.to
  /\ Returned(o)

CacheAt ==
  \A c \in Client : \A i \in DOMAIN cache[c] : At(i, cache[c][i].handle)

Kept ==
  \A a \in acked :
    /\ a.index * ChunkSize + a.offset < size
    /\ \A s \in a.servers : Stored(s, a.handle, a.offset, a.record)

Single == \A c, d \in Client : Busy(c) /\ Busy(d) => c = d

Quiet ==
  /\ Single /\ CacheAt /\ Kept
  /\ \A c \in Client : Writing(op[c]) /\ Reading(op[c])

HInv ==
  /\ AppendsWhereSaid
  /\ \A c \in Client : Aimed(op[c])
  /\ ~disturbed => Quiet

-----------------------------------------------------------------------------
(* How a step of one client keeps it.                                      *)

LEMMA ReadingKept ==
  ASSUME NEW o, OpOK(o), Reading(o), size \in Nat, size' \in Nat,
         size <= size',
         \A a \in acked' :
           /\ a \in Ack
           /\ a \in acked \/ a.index * ChunkSize + a.offset >= size,
         \A i \in Nat : o.handle \in 1..Made /\ At(i, o.handle) =>
                        At(i, o.handle)',
         o.handle \in 1..Made /\ o.handle \in whole' \cap Range(chunks') =>
           o.handle \in whole \cap Range(chunks)
  PROVE  Reading(o)'
<1>1. /\ o \in Op /\ o.from \in Nat /\ o.to \in Nat /\ o.index \in Nat
      /\ Start(o) \in Nat /\ o.index * ChunkSize \in Nat
  BY ClientAssumption, PartSound, Product DEF OpOK, Op
<1>2. Held(o) => o.handle \in 1..Made
  BY DEF OpOK, Sound
<1>3. Held(o) => At(o.index, o.handle)'
  BY <1>1, <1>2 DEF Reading
<1>4. o.at # "idle" /\ o.kind = "read" =>
        /\ o.from = o.index * ChunkSize + Start(o)
        /\ ~o.stale => o.to <= size'
  BY <1>1 DEF Reading
<1>5. ASSUME o.at = "took", ~o.stale,
             o.handle \in whole' \cap Range(chunks'), NEW a \in acked',
             o.index = a.index, a.offset - Start(o) + 1 \in DOMAIN o.got
      PROVE  o.got[a.offset - Start(o) + 1] = a.record
  <2>1. o.kind = "read"
    BY <1>5 DEF OpOK
  <2>2. o.handle \in whole \cap Range(chunks)
    BY <1>2, <1>5 DEF Held
  <2>3. CASE a \in acked
    BY <1>5, <2>2, <2>3 DEF Reading, Returned
  <2>4. CASE a.index * ChunkSize + a.offset >= size
    <3>1. /\ o.from + (a.offset - Start(o) + 1) <= o.to /\ o.to <= size
          /\ o.from = o.index * ChunkSize + Start(o)
      BY <1>5, <2>1 DEF Reading
    <3>2. a.offset \in Nat
      BY DEF Ack
    <3> DEFINE m == o.index * ChunkSize
    <3>3. m \in Nat /\ m + a.offset >= size /\ o.from = m + Start(o)
      BY <1>1, <1>5, <2>4, <3>1
    <3> HIDE DEF m
    <3> QED BY <1>1, <3>1, <3>2, <3>3
  <2> QED BY <2>3, <2>4
<1>6. Returned(o)'
  BY <1>5 DEF Returned
<1> QED BY <1>3, <1>4, <1>6 DEF Reading, Held

LEMMA OneStep ==
  ASSUME TInv, TInv', HInv, NEW c \in Client, NEW x,
         op' = [op EXCEPT ![c] = x], UNCHANGED <<chunks, whole>>,
         AppendsWhereSaid', Aimed(x)',
         ~disturbed' =>
           /\ ~disturbed /\ size <= size' /\ CacheAt' /\ Kept'
           /\ \A a \in acked' :
                a \in acked \/ a.index * ChunkSize + a.offset >= size
           /\ Writing(x)' /\ Reading(x)'
           /\ x.at # "idle" /\ x.kind # "read" =>
                \A d \in Client : Busy(d) => d = c
           /\ Busy(c) \/ UNCHANGED <<size, disk, acked>>
  PROVE  HInv'
<1>1. \A d \in Client : op'[d] = IF d = c THEN x ELSE op[d]
  BY DEF TInv, OpsOK
<1>2. \A d \in Client : Aimed(op[d])'
  <2> SUFFICES ASSUME NEW d \in Client, NEW y, y = op'[d] PROVE Aimed(y)'
    OBVIOUS
  <2>1. CASE d = c
    BY <1>1, <2>1
  <2>2. CASE d # c
    BY <1>1, <2>2 DEF HInv, Aimed
  <2> QED BY <2>1, <2>2
<1>3. ASSUME ~disturbed' PROVE Quiet'
  <2>1. Quiet
    BY <1>3 DEF HInv
  <2>2. Single'
    BY <1>1, <1>3, <2>1 DEF Quiet, Single, Busy
  <2>3. ASSUME NEW d \in Client, NEW y, y = op'[d]
        PROVE  Writing(y)' /\ Reading(y)'
    <3>1. CASE d = c
      BY <1>1, <1>3, <2>3, <3>1
    <3>2. CASE d # c
      <4>1. y = op[d] /\ OpOK(y) /\ Writing(y) /\ Reading(y)
        BY <1>1, <2>1, <2>3, <3>2 DEF TInv, OpsOK, Quiet
      <4>2. Writing(y)'
        <5>1. CASE UNCHANGED <<size, disk, acked>>
          BY <4>1, <5>1 DEF Writing, Stored
        <5>2. CASE Busy(c)
          <6>1. ~Busy(d)
            BY <2>1, <3>2, <5>2 DEF Quiet, Single
          <6> QED BY <4>1, <6>1 DEF Writing, Busy
        <5> QED BY <1>3, <5>1, <5>2
      <4>3. Reading(y)'
        <5>1. /\ size \in Nat /\ size' \in Nat /\ acked' \subseteq Ack
          BY DEF TInv, MasterOK, CountsOK
        <5>2. \A i : At(i, y.handle) => At(i, y.handle)'
          BY DEF At
        <5> QED BY <1>3, <4>1, <5>1, <5>2, ReadingKept
      <4> QED BY <4>2, <4>3
    <3> QED BY <3>1, <3>2
  <2> QED BY <1>3, <2>2, <2>3 DEF Quiet
<1> QED BY <1>2, <1>3 DEF HInv

\* A step in which nothing is written.
LEMMA SilentStep ==
  ASSUME TInv, TInv', HInv, NEW c \in Client,
         UNCHANGED <<master, disk, acked>>,
         \E x : /\ op' = [op EXCEPT ![c] = x]
                /\ Aimed(x)
                /\ ~disturbed' =>
                     /\ ~disturbed /\ Writing(x) /\ Reading(x)
                     /\ x.at # "idle" /\ x.kind # "read" =>
                          \A d \in Client : Busy(d) => d = c,
         ~disturbed' => CacheAt'
  PROVE  HInv'
<1>1. PICK x : /\ op' = [op EXCEPT ![c] = x]
               /\ Aimed(x)
               /\ ~disturbed' =>
                    /\ ~disturbed /\ Writing(x) /\ Reading(x)
                    /\ x.at # "idle" /\ x.kind # "read" =>
                         \A d \in Client : Busy(d) => d = c
  OBVIOUS
<1>2. UNCHANGED <<chunks, whole, size, disk, acked>> /\ size \in Nat
  BY DEF master, TInv, MasterOK
<1>3. AppendsWhereSaid' /\ Aimed(x)'
  BY <1>1, <1>2 DEF HInv, AppendsWhereSaid, Aimed
<1>4. ~disturbed' => Kept' /\ Writing(x)' /\ Reading(x)'
  BY <1>1, <1>2 DEF HInv, Quiet, Kept, Writing, Reading, Returned, Stored, At,
                    Held
<1>5. UNCHANGED <<chunks, whole>> /\ UNCHANGED <<size, disk, acked>>
      /\ size <= size' /\ \A a \in acked' : a \in acked
  BY <1>2
<1>6. ~disturbed' =>
        /\ ~disturbed /\ size <= size' /\ CacheAt' /\ Kept'
        /\ \A a \in acked' :
             a \in acked \/ a.index * ChunkSize + a.offset >= size
        /\ Writing(x)' /\ Reading(x)'
        /\ x.at # "idle" /\ x.kind # "read" =>
             \A d \in Client : Busy(d) => d = c
        /\ Busy(c) \/ UNCHANGED <<size, disk, acked>>
  BY <1>1, <1>4, <1>5
<1> QED BY <1>1, <1>3, <1>5, <1>6, OneStep

\* An operation that has given up, or that looks for its chunk again.
LEMMA RetryRests ==
  ASSUME TInv, NEW c \in Client, op[c].at # "idle", NEW i \in Nat, Retry(c, i)
  PROVE  \E x : /\ op' = [op EXCEPT ![c] = x]
                /\ \/ x.at = "idle"
                   \/ /\ x.at = "resolve" /\ x.kind = "append"
                      /\ op[c].kind = "append" /\ x.size = op[c].size
                      /\ x.stale = op[c].stale
<1> DEFINE o == op[c]
           next == [o EXCEPT !.at = "resolve", !.tries = o.tries + 1,
                             !.index = i]
<1>1. op' = [op EXCEPT ![c] = IF o.tries = MaxTries THEN Idle ELSE next]
  BY DEF Retry
<1>2. o \in Op /\ (o.tries # MaxTries => o.kind = "append")
  BY DEF TInv, OpsOK, OpOK, Op
<1>3. /\ next.at = "resolve" /\ next.kind = o.kind /\ next.size = o.size
      /\ next.stale = o.stale
  BY <1>2 DEF Op
<1> HIDE DEF o, next
<1> QED BY <1>1, <1>2, <1>3, IdleOK DEF o

LEMMA RestsCalm ==
  ASSUME NEW x,
         \/ x.at = "idle"
         \/ /\ x.at = "resolve" /\ x.kind = "append"
            /\ ~disturbed => x.size = size /\ ~x.stale
  PROVE  Aimed(x) /\ (~disturbed => Writing(x) /\ Reading(x))
BY DEF Aimed, Writing, Reading, Returned, Held

LEMMA CacheAtShrinks ==
  ASSUME TInv, CacheAt,
         \A i \in Nat, h \in 1..Made : At(i, h) => At(i, h)',
         \/ UNCHANGED cache
         \/ \E c \in Client : \E S :
              cache' = [cache EXCEPT ![c] = Restrict(@, DOMAIN @ \ S)]
  PROVE  CacheAt'
<1>1. \A c \in Client : \A i \in DOMAIN cache[c] :
        i \in Nat /\ cache[c][i].handle \in 1..Made
  BY DEF TInv, CacheOK, Sound
<1>2. ASSUME NEW c \in Client, NEW i \in DOMAIN cache'[c]
      PROVE  i \in DOMAIN cache[c] /\ cache'[c][i] = cache[c][i]
  <2>1. CASE UNCHANGED cache
    BY <1>2, <2>1
  <2>2. ASSUME NEW b \in Client, NEW S,
               cache' = [cache EXCEPT ![b] = Restrict(@, DOMAIN @ \ S)]
        PROVE  i \in DOMAIN cache[c] /\ cache'[c][i] = cache[c][i]
    <3> DEFINE f == Restrict(cache[b], DOMAIN cache[b] \ S)
    <3>1. \A k \in DOMAIN f : k \in DOMAIN cache[b] /\ f[k] = cache[b][k]
      BY DEF Restrict
    <3>2. cache'[c] = IF c = b THEN f ELSE cache[c]
      BY <2>2 DEF TInv, CacheOK
    <3> HIDE DEF f
    <3> QED BY <1>2, <3>1, <3>2
  <2> QED BY <2>1, <2>2
<1>3. ASSUME NEW c \in Client, NEW i \in DOMAIN cache'[c],
             NEW h, h = cache'[c][i].handle
      PROVE  At(i, h)'
  BY <1>1, <1>2, <1>3 DEF CacheAt
<1> QED BY <1>3 DEF CacheAt

LEMMA CacheAtGrows ==
  ASSUME TInv, CacheAt,
         \A i \in Nat, h \in 1..Made : At(i, h) => At(i, h)',
         NEW c \in Client, NEW j, NEW e, At(j, e.handle)', Keep(c, j, e)
  PROVE  CacheAt'
<1>1. \A d \in Client : \A i \in DOMAIN cache[d] :
        i \in Nat /\ cache[d][i].handle \in 1..Made
  BY DEF TInv, CacheOK, Sound
<1>2. ASSUME NEW d \in Client, NEW i \in DOMAIN cache'[d]
      PROVE  \/ i = j /\ cache'[d][i] = e
             \/ i \in DOMAIN cache[d] /\ cache'[d][i] = cache[d][i]
  BY <1>2 DEF Keep, TInv, CacheOK
<1>3. ASSUME NEW d \in Client, NEW i \in DOMAIN cache'[d],
             NEW h, h = cache'[d][i].handle
      PROVE  At(i, h)'
  BY <1>1, <1>2, <1>3 DEF CacheAt
<1> QED BY <1>3 DEF CacheAt

-----------------------------------------------------------------------------
(* Every step keeps it.                                                    *)

LEMMA CacheAtSame ==
  ASSUME TInv, CacheAt, UNCHANGED chunks,
         \/ UNCHANGED cache
         \/ \E c \in Client : \E S :
              cache' = [cache EXCEPT ![c] = Restrict(@, DOMAIN @ \ S)]
  PROVE  CacheAt'
<1>1. \A i, h : h \in 1..Made /\ At(i, h) => At(i, h)'
  BY DEF At
<1> QED BY <1>1, CacheAtShrinks

LEMMA BeginsCalm ==
  ASSUME TInv, TInv', HInv, NEW c \in Client,
         \/ BeginAppend(c)
         \/ \E r \in Ranges : BeginWrite(c, r) \/ BeginRead(c, r)
  PROVE  HInv'
<1>1. /\ UNCHANGED <<master, disk, acked>> /\ UNCHANGED cache
      /\ UNCHANGED chunks
  BY DEF BeginAppend, BeginWrite, BeginRead, history, master
<1>2. ~disturbed' => CacheAt' /\ ~disturbed
  <2>1. ~disturbed' => ~disturbed
    BY DEF BeginAppend, BeginWrite, BeginRead, history
  <2> QED BY <1>1, <2>1, CacheAtSame DEF HInv, Quiet
<1>3. \E x : /\ op' = [op EXCEPT ![c] = x]
             /\ Aimed(x)
             /\ ~disturbed' =>
                  /\ ~disturbed /\ Writing(x) /\ Reading(x)
                  /\ x.at # "idle" /\ x.kind # "read" =>
                       \A d \in Client : Busy(d) => d = c
  <2>1. CASE BeginAppend(c)
    <3> DEFINE i == Most(Len(chunks), 1) - 1
               x == [Idle EXCEPT !.at = "resolve", !.kind = "append",
                       !.tries = 1, !.record = count + 1, !.size = size,
                       !.index = i]
    <3>1. op' = [op EXCEPT ![c] = x]
      BY <2>1 DEF BeginAppend
    <3>2. /\ x.at = "resolve" /\ x.kind = "append" /\ x.size = size
          /\ ~x.stale
      BY DEF Idle
    <3>3. ~disturbed' => \A d \in Client : ~Busy(d)
      BY <2>1 DEF BeginAppend
    <3> HIDE DEF x
    <3>4. Aimed(x) /\ Writing(x) /\ Reading(x)
      BY <3>2 DEF Aimed, Writing, Reading, Returned, Held
    <3> QED BY <1>2, <3>1, <3>3, <3>4
  <2>2. ASSUME NEW r \in Ranges, BeginWrite(c, r)
        PROVE  \E x : /\ op' = [op EXCEPT ![c] = x]
                      /\ Aimed(x)
                      /\ ~disturbed' =>
                           /\ ~disturbed /\ Writing(x) /\ Reading(x)
                           /\ x.at # "idle" /\ x.kind # "read" =>
                                \A d \in Client : Busy(d) => d = c
    <3> DEFINE x == [Idle EXCEPT !.at = "resolve", !.kind = "write",
                       !.tries = MaxTries, !.record = count + 1,
                       !.from = r[1], !.to = r[2],
                       !.index = r[1] \div ChunkSize]
    <3>1. op' = [op EXCEPT ![c] = x]
      BY <2>2 DEF BeginWrite
    <3>2. /\ x.at = "resolve" /\ x.kind = "write" /\ ~x.stale
      BY DEF Idle
    <3>3. ~disturbed' => acked = {} /\ \A d \in Client : ~Busy(d)
      BY <2>2 DEF BeginWrite
    <3> HIDE DEF x
    <3>4. Aimed(x) /\ Reading(x) /\ (acked = {} => Writing(x))
      BY <3>2 DEF Aimed, Writing, Reading, Returned, Held
    <3> QED BY <1>2, <3>1, <3>3, <3>4
  <2>3. ASSUME NEW r \in Ranges, BeginRead(c, r)
        PROVE  \E x : /\ op' = [op EXCEPT ![c] = x]
                      /\ Aimed(x)
                      /\ ~disturbed' =>
                           /\ ~disturbed /\ Writing(x) /\ Reading(x)
                           /\ x.at # "idle" /\ x.kind # "read" =>
                                \A d \in Client : Busy(d) => d = c
    <3> DEFINE x == [Idle EXCEPT !.at = "resolve", !.tries = MaxTries,
                       !.from = r[1], !.to = Least(r[2], size),
                       !.index = r[1] \div ChunkSize]
    <3>1. op' = [op EXCEPT ![c] = x]
      BY <2>3 DEF BeginRead
    <3>2. /\ x.at = "resolve" /\ x.kind = "read" /\ x.from = r[1]
          /\ x.to = Least(r[2], size) /\ x.index = r[1] \div ChunkSize
      BY DEF Idle
    <3>3. /\ r[1] \in Nat /\ r[2] \in Nat /\ size \in Nat
          /\ ChunkSize \in Nat \ {0}
      BY ClientAssumption DEF TInv, MasterOK
    <3> HIDE DEF x
    <3>4. x.from = x.index * ChunkSize + Start(x)
      BY <3>2, <3>3, Division DEF Start
    <3>5. x.to <= size
      BY <3>2, <3>3, LeastMost
    <3>6. Aimed(x) /\ Writing(x) /\ Reading(x)
      BY <3>2, <3>4, <3>5 DEF Aimed, Writing, Reading, Returned, Held
    <3> QED BY <1>2, <3>1, <3>2, <3>6
  <2> QED BY <2>1, <2>2, <2>3
<1> QED BY <1>1, <1>2, <1>3, SilentStep

\* The location of a chunk that is where the operation wants it.
LEMMA ResolvedCalm ==
  ASSUME NEW o, OpOK(o), o.at \in {"resolve", "allocate"}, NEW e
  PROVE  /\ Aimed(Resolved(o, e))
         /\ Writing(o) => Writing(Resolved(o, e))
         /\ At(o.index, e.handle) /\ Reading(o) => Reading(Resolved(o, e))
         /\ Resolved(o, e).kind = o.kind
<1> DEFINE x == Resolved(o, e)
<1>1. o \in Op
  BY DEF OpOK
<1>2. /\ x.at = IF o.kind = "append" THEN "check" ELSE "write"
      /\ x.kind = o.kind /\ x.stale = o.stale /\ x.size = o.size
      /\ x.from = o.from /\ x.to = o.to /\ x.index = o.index
      /\ x.handle = e.handle
  BY <1>1 DEF Op, Resolved
<1> HIDE DEF x
<1>3. Start(x) = Start(o)
  BY <1>2 DEF Start
<1>4. Aimed(x) /\ (Writing(o) => Writing(x))
  BY <1>2 DEF Aimed, Writing
<1>5. At(o.index, e.handle) /\ Reading(o) => Reading(x)
  BY <1>2, <1>3 DEF Reading, Returned
<1> QED BY <1>2, <1>4, <1>5 DEF x

LEMMA ResolveCalm ==
  ASSUME TInv, TInv', HInv, NEW c \in Client,
         UseCached(c) \/ Lookup(c) \/ LookupNone(c) \/ LookupFails(c)
  PROVE  HInv'
<1> DEFINE o == op[c]
<1>1. /\ UNCHANGED <<master, disk, acked>> /\ UNCHANGED disturbed
      /\ UNCHANGED chunks
  BY DEF UseCached, Lookup, LookupNone, LookupFails, master, history
<1>2. OpOK(o) /\ o \in Op /\ o.index \in Nat
  BY DEF TInv, OpsOK, OpOK, Op
<1>3. ~disturbed => /\ Writing(o) /\ Reading(o) /\ CacheAt
                    /\ o.at # "idle" /\ o.kind # "read" =>
                         \A d \in Client : Busy(d) => d = c
  BY DEF HInv, Quiet, Single, Busy
<1>4. /\ \E x : /\ op' = [op EXCEPT ![c] = x]
                /\ Aimed(x)
                /\ ~disturbed' =>
                     /\ ~disturbed /\ Writing(x) /\ Reading(x)
                     /\ x.at # "idle" /\ x.kind # "read" =>
                          \A d \in Client : Busy(d) => d = c
      /\ ~disturbed' => CacheAt'
  <2>1. CASE Retry(c, o.index) /\ o.at # "idle"
    <3>1. PICK x : /\ op' = [op EXCEPT ![c] = x]
                   /\ \/ x.at = "idle"
                      \/ /\ x.at = "resolve" /\ x.kind = "append"
                         /\ o.kind = "append" /\ x.size = o.size
                         /\ x.stale = o.stale
      BY <1>2, <2>1, RetryRests
    <3>2. ~disturbed /\ o.at # "idle" /\ o.kind = "append" =>
            o.size = size /\ ~o.stale
      BY <1>3 DEF Writing
    <3>3. Aimed(x) /\ (~disturbed => Writing(x) /\ Reading(x))
      BY <2>1, <3>1, <3>2, RestsCalm
    <3>4. ~disturbed => CacheAt'
      BY <1>1, <1>3, <2>1, CacheAtSame DEF Retry
    <3> QED BY <1>1, <1>3, <2>1, <3>1, <3>3, <3>4
  <2>2. CASE UseCached(c)
    <3> DEFINE e == cache[c][o.index]
    <3>1. /\ op' = [op EXCEPT ![c] = Resolved(o, e)]
          /\ o.at = "resolve" /\ o.index \in DOMAIN cache[c]
          /\ UNCHANGED cache
      BY <2>2 DEF UseCached
    <3>2. ~disturbed => At(o.index, e.handle)
      BY <1>3, <3>1 DEF CacheAt
    <3> HIDE DEF e
    <3>3. Aimed(Resolved(o, e)) /\ Resolved(o, e).kind = o.kind
          /\ (~disturbed => Writing(Resolved(o, e)) /\ Reading(Resolved(o, e)))
      BY <1>2, <1>3, <3>1, <3>2, ResolvedCalm
    <3>4. ~disturbed => CacheAt'
      BY <1>1, <1>3, <3>1, CacheAtSame
    <3> QED BY <1>1, <1>3, <3>1, <3>3, <3>4
  <2>3. CASE Lookup(c) /\ location[chunks[o.index + 1]] # <<>>
    <3> DEFINE h == chunks[o.index + 1]
               e == [handle |-> h, servers |-> location[h]]
    <3>1. /\ o.at = "resolve" /\ o.index < Len(chunks)
          /\ Keep(c, o.index, e)
          /\ op' = [op EXCEPT ![c] = Resolved(o, e)]
      BY <2>3 DEF Lookup
    <3>2. At(o.index, e.handle)
      BY <3>1 DEF At
    <3> HIDE DEF e
    <3>3. Aimed(Resolved(o, e)) /\ Resolved(o, e).kind = o.kind
          /\ (~disturbed => Writing(Resolved(o, e)) /\ Reading(Resolved(o, e)))
      BY <1>2, <1>3, <3>1, <3>2, ResolvedCalm
    <3>4. ~disturbed => CacheAt'
      <4>1. \A i, k : At(i, k) => At(i, k)'
        BY <1>1 DEF At
      <4>2. PICK j, g : j = o.index /\ g = e
        OBVIOUS
      <4>3. At(j, g.handle)' /\ Keep(c, j, g)
        BY <3>1, <3>2, <4>1, <4>2
      <4> QED BY <1>3, <4>1, <4>3, CacheAtGrows
    <3> QED BY <1>1, <1>3, <3>1, <3>3, <3>4
  <2>4. CASE LookupNone(c) /\ o.kind # "read" /\ o.index = Len(chunks)
    <3> DEFINE x == [o EXCEPT !.at = "allocate"]
    <3>1. /\ op' = [op EXCEPT ![c] = x]
          /\ UNCHANGED cache /\ o.at = "resolve"
      BY <2>4 DEF LookupNone, TInv, OpsOK
    <3>2. x.at = "allocate" /\ x.kind = o.kind /\ x.index = o.index
          /\ x.size = o.size /\ x.stale = o.stale
      BY <1>2 DEF Op
    <3> HIDE DEF x
    <3>3. Aimed(x) /\ (~disturbed => Writing(x) /\ Reading(x))
      BY <1>3, <2>4, <3>1, <3>2 DEF Aimed, Writing, Reading, Returned, Held
    <3>4. ~disturbed => CacheAt'
      BY <1>1, <1>3, <3>1, CacheAtSame
    <3> QED BY <1>1, <1>3, <3>1, <3>2, <3>3, <3>4
  <2>5. \/ UseCached(c)
        \/ Lookup(c) /\ location[chunks[o.index + 1]] # <<>>
        \/ LookupNone(c) /\ o.kind # "read" /\ o.index = Len(chunks)
        \/ Retry(c, o.index) /\ o.at # "idle"
    BY DEF UseCached, Lookup, LookupNone, LookupFails
  <2> QED BY <2>1, <2>2, <2>3, <2>4, <2>5
<1> QED BY <1>1, <1>4, SilentStep

\* The plan: the chunk is checked, and the record goes behind what there is.
LEMMA PlanCalm ==
  ASSUME TInv, TInv', HInv, NEW c \in Client, CheckHandle(c) \/ PlanAppend(c)
  PROVE  HInv'
<1> DEFINE o == op[c]
<1>1. /\ UNCHANGED <<master, disk, acked>> /\ UNCHANGED disturbed
      /\ UNCHANGED chunks
  BY DEF CheckHandle, PlanAppend, master, history
<1>2. OpOK(o) /\ o \in Op /\ o.index \in Nat
  BY DEF TInv, OpsOK, OpOK, Op
<1>3. ~disturbed => /\ Writing(o) /\ Reading(o) /\ CacheAt
                    /\ o.at # "idle" /\ o.kind # "read" =>
                         \A d \in Client : Busy(d) => d = c
  BY DEF HInv, Quiet, Single, Busy
<1>4. /\ \E x : /\ op' = [op EXCEPT ![c] = x]
                /\ Aimed(x)
                /\ ~disturbed' =>
                     /\ ~disturbed /\ Writing(x) /\ Reading(x)
                     /\ x.at # "idle" /\ x.kind # "read" =>
                          \A d \in Client : Busy(d) => d = c
      /\ ~disturbed' => CacheAt'
  <2>1. CASE o.at # "idle" /\ \E i \in Nat : Retry(c, i)
    <3>1. PICK x : /\ op' = [op EXCEPT ![c] = x]
                   /\ \/ x.at = "idle"
                      \/ /\ x.at = "resolve" /\ x.kind = "append"
                         /\ o.kind = "append" /\ x.size = o.size
                         /\ x.stale = o.stale
      BY <1>2, <2>1, RetryRests
    <3>2. ~disturbed /\ o.at # "idle" /\ o.kind = "append" =>
            o.size = size /\ ~o.stale
      BY <1>3 DEF Writing
    <3>3. Aimed(x) /\ (~disturbed => Writing(x) /\ Reading(x))
      BY <2>1, <3>1, <3>2, RestsCalm
    <3>4. ~disturbed => CacheAt'
      BY <1>1, <1>3, <2>1, CacheAtSame DEF Retry
    <3> QED BY <1>1, <1>3, <2>1, <3>1, <3>3, <3>4
  <2>2. CASE /\ CheckHandle(c) /\ UNCHANGED cache
             /\ op' = [op EXCEPT ![c].at = "plan"]
             /\ o.index < Len(chunks) /\ chunks[o.index + 1] = o.handle
    <3> DEFINE x == [o EXCEPT !.at = "plan"]
    <3>1. op' = [op EXCEPT ![c] = x] /\ o.at = "check"
      BY <2>2 DEF TInv, OpsOK, CheckHandle
    <3>2. /\ x.at = "plan" /\ x.kind = o.kind /\ x.index = o.index
          /\ x.handle = o.handle /\ x.size = o.size /\ x.stale = o.stale
          /\ o.kind = "append"
      BY <1>2, <3>1 DEF Op, OpOK
    <3> HIDE DEF x
    <3>3. Aimed(x) /\ (~disturbed => Writing(x) /\ Reading(x))
      BY <1>3, <2>2, <3>1, <3>2 DEF Aimed, Writing, Reading, Returned, Held
    <3>4. ~disturbed => CacheAt'
      BY <1>1, <1>3, <2>2, CacheAtSame
    <3> QED BY <1>1, <1>3, <3>1, <3>2, <3>3, <3>4
  <2>3. CASE CheckHandle(c)
    BY <1>2, <2>1, <2>2, <2>3 DEF CheckHandle
  <2>4. CASE PlanAppend(c)
    <3> DEFINE places == {i \in DOMAIN chunks : chunks[i] = o.handle}
               first == CHOOSE i \in places : \A j \in places : i <= j
               base == (first - 1) * ChunkSize
               m == IF size < base THEN 0 ELSE size - base
               x == [o EXCEPT !.at = "write", !.offset = m]
    <3>1. CASE places = {} \/ ~Fits(m)
      BY <1>2, <2>1, <2>4, <3>1 DEF PlanAppend
    <3>2. CASE places # {} /\ Fits(m)
      <4>1. /\ o.at = "plan" /\ o.kind = "append" /\ o.todo = o.servers
            /\ UNCHANGED cache
            /\ op' = [op EXCEPT ![c].at = "write", ![c].offset = m]
        BY <1>2, <2>4, <3>2 DEF PlanAppend, OpOK
      <4> HIDE DEF m
      <4>2. op' = [op EXCEPT ![c] = x]
        BY <4>1 DEF TInv, OpsOK
      <4>3. /\ x.at = "write" /\ x.kind = "append" /\ x.index = o.index
            /\ x.handle = o.handle /\ x.size = o.size /\ x.stale = o.stale
            /\ x.offset = m /\ x.todo = x.servers
        BY <1>2, <4>1 DEF Op
      <4>4. /\ DOMAIN chunks = 1..Len(chunks) /\ Len(chunks) \in Nat
            /\ size \in Nat /\ ChunkSize \in Nat /\ IsInjective(chunks)
        BY ClientAssumption, LenProperties DEF TInv, MasterOK
      <4>5. ~o.stale => o.index < Len(chunks)
                        /\ chunks[o.index + 1] = o.handle
        BY <4>1 DEF HInv, Aimed
      <4>6. ~o.stale => o.index * ChunkSize + m >= size
        <5> SUFFICES ASSUME ~o.stale PROVE o.index * ChunkSize + m >= size
          OBVIOUS
        <5>1. places = {o.index + 1}
          BY <1>2, <4>4, <4>5 DEF IsInjective
        <5>2. first = o.index + 1
          BY <1>2, <5>1
        <5> HIDE DEF first
        <5>3. first - 1 = o.index
          BY <1>2, <5>2
        <5>4. base = o.index * ChunkSize
          BY <5>3
        <5>5. base \in Nat
          BY <1>2, <4>4, <5>4, Product
        <5> HIDE DEF base
        <5>6. base + m >= size
          BY <4>4, <5>5 DEF m
        <5> QED BY <5>4, <5>6
      <4> HIDE DEF x
      <4>7. Aimed(x)
        BY <4>3, <4>5 DEF Aimed
      <4>8. ASSUME ~disturbed
            PROVE  Writing(x) /\ Reading(x) /\ CacheAt'
        <5>1. Writing(o) /\ Reading(o)
          BY <1>3, <4>8
        <5>2. Writing(x)
          BY <4>1, <4>3, <4>6, <5>1 DEF Writing
        <5>3. Reading(x)
          BY <4>1, <4>3, <5>1 DEF Reading, Returned, Held
        <5> QED BY <1>1, <1>3, <4>1, <4>8, <5>2, <5>3, CacheAtSame
      <4> QED BY <1>1, <1>3, <4>1, <4>2, <4>3, <4>7, <4>8
    <3> QED BY <3>1, <3>2
  <2> QED BY <2>3, <2>4
<1> QED BY <1>1, <1>4, SilentStep

LEMMA NextChunkCalm ==
  ASSUME NEW o, OpOK(o), o.at \in {"write", "took"}, o.kind # "append",
         o.kind = "read" => Stop(o) < o.to
  PROVE  LET x == NextChunk(o)
         IN  /\ Aimed(x) /\ x.kind = o.kind
             /\ Writing(o) => Writing(x)
             /\ Reading(o) => Reading(x)
<1> DEFINE x == NextChunk(o)
<1>1. /\ o \in Op /\ o.index \in Nat /\ o.to \in Nat
      /\ o.kind \in {"write", "read"} /\ ChunkSize \in Nat \ {0}
  BY ClientAssumption DEF OpOK, Op
<1>2. /\ x.at = IF Stop(o) < o.to THEN "resolve"
                ELSE IF o.kind = "write" THEN "size" ELSE "idle"
      /\ x.from = Stop(o) /\ x.index = o.index + 1
      /\ x.kind = o.kind /\ x.stale = o.stale /\ x.to = o.to
  BY <1>1 DEF Op, NextChunk
<1> HIDE DEF x
<1>3. o.kind = "read" => x.from = x.index * ChunkSize + Start(x)
  <2>1. o.index + 1 \in Nat /\ (o.index + 1) * ChunkSize \in Nat
    BY <1>1, Product
  <2>2. o.kind = "read" => Stop(o) = (o.index + 1) * ChunkSize
    BY <1>1, <2>1 DEF Stop, Least
  <2>3. ((o.index + 1) * ChunkSize) % ChunkSize = 0
    BY <1>1, <2>1, Division
  <2> QED BY <1>2, <2>1, <2>2, <2>3 DEF Start
<1>4. Aimed(x) /\ (Writing(o) => Writing(x))
  BY <1>1, <1>2 DEF Aimed, Writing
<1>5. Reading(o) => Reading(x)
  BY <1>1, <1>2, <1>3 DEF Reading, Returned, Held
<1> QED BY <1>2, <1>4, <1>5 DEF x

LEMMA TryNextCalm ==
  ASSUME NEW o, OpOK(o), o.at = "write", o.kind # "append", NEW x,
         x = IF Len(o.todo) = 1 THEN Idle ELSE [o EXCEPT !.todo = Tail(o.todo)]
  PROVE  /\ Aimed(x)
         /\ x.at # "idle" => x.kind = o.kind
         /\ Writing(o) => Writing(x)
         /\ Reading(o) => Reading(x)
<1> DEFINE next == [o EXCEPT !.todo = Tail(o.todo)]
<1>1. o \in Op /\ o.kind \in {"write", "read"}
  BY DEF OpOK, Op
<1>2. /\ next.at = o.at /\ next.kind = o.kind /\ next.stale = o.stale
      /\ next.from = o.from /\ next.to = o.to /\ next.index = o.index
      /\ next.handle = o.handle
  BY <1>1 DEF Op
<1>3. x = Idle \/ x = next
  OBVIOUS
<1> HIDE DEF next
<1>4. Start(next) = Start(o)
  BY <1>2 DEF Start
<1>5. CASE x = Idle
  BY <1>5, IdleOK DEF Aimed, Writing, Reading, Returned, Held
<1>6. CASE x = next
  <2>1. Aimed(x) /\ (Writing(o) => Writing(x))
    BY <1>1, <1>2, <1>6 DEF Aimed, Writing
  <2>2. Reading(o) => Reading(x)
    BY <1>1, <1>2, <1>4, <1>6 DEF Reading, Returned, Held
  <2> QED BY <1>2, <1>6, <2>1, <2>2
<1> QED BY <1>3, <1>5, <1>6

LEMMA ReadsCalm ==
  ASSUME TInv, TInv', HInv, NEW c \in Client, ReadReplica(c) \/ ReadOn(c)
  PROVE  HInv'
<1> DEFINE o == op[c]
<1>1. /\ UNCHANGED <<master, disk, acked>> /\ UNCHANGED disturbed
      /\ UNCHANGED chunks /\ UNCHANGED cache
  BY DEF ReadReplica, ReadOn, master, history
<1>2. OpOK(o) /\ o \in Op /\ o.kind = "read"
  <2>1. OpOK(o) /\ o \in Op
    BY DEF TInv, OpsOK, OpOK
  <2> QED BY <2>1 DEF ReadReplica, ReadOn, OpOK
<1>3. ~disturbed => Writing(o) /\ Reading(o) /\ CacheAt
  BY DEF HInv, Quiet
<1>4. ~disturbed' => CacheAt'
  BY <1>1, <1>3, CacheAtSame
<1>5. \E x : /\ op' = [op EXCEPT ![c] = x]
             /\ Aimed(x)
             /\ ~disturbed => Writing(x) /\ Reading(x)
             /\ x.at # "idle" => x.kind = "read"
  <2>1. CASE ReadOn(c)
    <3>1. o.at = "took" /\ op' = [op EXCEPT ![c] =
            IF Stop(o) < o.to THEN NextChunk(o) ELSE Idle]
      BY <2>1 DEF ReadOn
    <3>2. CASE Stop(o) < o.to
      BY <1>2, <1>3, <3>1, <3>2, NextChunkCalm
    <3>3. CASE ~(Stop(o) < o.to)
      <4>1. Aimed(Idle) /\ (~disturbed => Writing(Idle) /\ Reading(Idle))
        BY IdleOK DEF Aimed, Writing, Reading, Returned, Held
      <4> QED BY <3>1, <3>3, <4>1, IdleOK
    <3> QED BY <3>2, <3>3
  <2>2. CASE ReadReplica(c)
    <3> DEFINE s == Head(o.todo)
               end == Start(o) + (Stop(o) - o.from)
               got == SubSeq(disk[s][o.handle], Start(o) + 1, end)
    <3>1. o.at = "write" /\ o.kind = "read"
      BY <2>2 DEF ReadReplica
    <3>2. CASE /\ op' = [op EXCEPT ![c].at = "took", ![c].got = got]
               /\ Answers(s, o.handle, end)
      <4> DEFINE x == [o EXCEPT !.at = "took", !.got = got]
      <4>1. op' = [op EXCEPT ![c] = x]
        BY <3>2 DEF TInv, OpsOK
      <4>2. o.todo \in Seq(Server) /\ o.todo # <<>>
        BY <1>2, <3>1 DEF OpOK, Op
      <4>3. s \in Server
        BY <4>2, TodoOK
      <4>4. /\ Start(o) \in Nat /\ Stop(o) \in Nat /\ o.from \in Nat
            /\ o.to \in Nat /\ Stop(o) <= o.to
        BY <1>2, PartSound DEF Op
      <4>5. disk[s][o.handle] \in Seq(Unit) /\ Len(disk[s][o.handle]) \in Nat
        <5>1. o.handle \in DOMAIN disk[s]
          BY <3>2 DEF Answers
        <5>2. disk[s] \in [DOMAIN disk[s] -> Seq(Unit)]
          BY <4>3 DEF TInv, DiskOK
        <5>3. disk[s][o.handle] \in Seq(Unit)
          BY <5>1, <5>2
        <5> QED BY <5>3, LenProperties
      <4>6. /\ DOMAIN got = 1..Len(got)
            /\ Len(got) = IF Start(o) + 1 <= end THEN end - Start(o) ELSE 0
            /\ \A i \in 1..end - Start(o) :
                 got[i] = disk[s][o.handle][Start(o) + i]
        <5> DEFINE file == disk[s][o.handle]
        <5>1. end \in Int /\ end <= Len(file)
          BY <3>2, <4>4 DEF Answers
        <5> HIDE DEF end
        <5>2. \A i \in Start(o) + 1..end : file[i] \in Unit
          BY <4>4, <4>5, <5>1, LenProperties
        <5> HIDE DEF file
        <5>3. /\ got = SubSeq(file, Start(o) + 1, end)
              /\ Start(o) + 1 \in Int
          BY <4>4 DEF file
        <5> HIDE DEF got
        <5>4. /\ got \in Seq(Unit)
              /\ Len(got) = IF Start(o) + 1 <= end
                            THEN end - (Start(o) + 1) + 1 ELSE 0
              /\ \A i \in 1..end - (Start(o) + 1) + 1 :
                   got[i] = file[Start(o) + 1 + i - 1]
          BY <5>1, <5>2, <5>3, SubSeqProperties
        <5>5. DOMAIN got = 1..Len(got)
          BY <5>4, LenProperties
        <5>6. end - (Start(o) + 1) + 1 = end - Start(o)
          BY <4>4, <5>1
        <5>7. \A i \in 1..end - Start(o) : Start(o) + 1 + i - 1 = Start(o) + i
          BY <4>4, <5>1
        <5> QED BY <5>4, <5>5, <5>6, <5>7 DEF file
      <4>7. \A i \in DOMAIN got : /\ i \in 1..end - Start(o)
                                  /\ o.from + i <= o.to
        BY <4>4, <4>6
      <4> HIDE DEF got, end
      <4>8. /\ x.at = "took" /\ x.kind = "read" /\ x.index = o.index
            /\ x.handle = o.handle /\ x.from = o.from /\ x.to = o.to
            /\ x.stale = o.stale /\ x.got = got
        BY <1>2, <3>1 DEF Op
      <4> HIDE DEF x
      <4>9. Start(x) = Start(o)
        BY <4>8 DEF Start
      <4>10. Aimed(x) /\ Writing(x)
        BY <4>8 DEF Aimed, Writing
      <4>11. ASSUME ~disturbed, o.handle \in whole \cap Range(chunks),
                    NEW a \in acked, o.index = a.index,
                    a.offset - Start(o) + 1 \in DOMAIN got
             PROVE  got[a.offset - Start(o) + 1] = a.record
        <5>1. At(o.index, o.handle)
          BY <1>3, <3>1, <4>11 DEF Reading, Held
        <5>2. a.handle = o.handle
          BY <4>11, <5>1 DEF HInv, AppendsWhereSaid, At
        <5>3. a.servers = Server /\ a \in Ack
          BY <4>11, <5>2 DEF TInv, CountsOK
        <5>4. Stored(s, a.handle, a.offset, a.record)
          BY <4>3, <4>11, <5>3 DEF HInv, Quiet, Kept
        <5>5. disk[s][o.handle][a.offset + 1] = a.record
          BY <5>2, <5>4 DEF Stored
        <5>6. got[a.offset - Start(o) + 1]
                = disk[s][o.handle][Start(o) + (a.offset - Start(o) + 1)]
          BY <4>6, <4>7, <4>11
        <5>7. Start(o) + (a.offset - Start(o) + 1) = a.offset + 1
          BY <4>4, <5>3 DEF Ack
        <5> QED BY <5>5, <5>6, <5>7
      <4>12. ~disturbed => Returned(x)
        BY <4>8, <4>9, <4>11 DEF Returned
      <4>13. ~disturbed => Reading(x)
        BY <1>3, <3>1, <4>7, <4>8, <4>9, <4>12 DEF Reading, Held
      <4> QED BY <4>1, <4>8, <4>10, <4>13
    <3>3. CASE op' = [op EXCEPT ![c] =
                        IF Len(o.todo) = 1 THEN Idle
                        ELSE [o EXCEPT !.todo = Tail(o.todo)]]
      <4>1. PICK x : x = IF Len(o.todo) = 1 THEN Idle
                         ELSE [o EXCEPT !.todo = Tail(o.todo)]
        OBVIOUS
      <4>2. /\ Aimed(x) /\ (x.at # "idle" => x.kind = o.kind)
            /\ Writing(o) => Writing(x)
            /\ Reading(o) => Reading(x)
        BY <1>2, <3>1, <4>1, TryNextCalm
      <4>3. op' = [op EXCEPT ![c] = x]
        BY <3>3, <4>1
      <4> QED BY <1>2, <1>3, <4>2, <4>3
    <3> QED BY <2>2, <3>2, <3>3 DEF ReadReplica
  <2> QED BY <2>1, <2>2
<1> QED BY <1>1, <1>4, <1>5, SilentStep

LEMMA WriteToReplicaCalm ==
  ASSUME TInv, TInv', HInv, NEW c \in Client, WriteToReplica(c)
  PROVE  HInv'
<1> DEFINE o == op[c]
<1>1. /\ UNCHANGED <<chunks, whole>> /\ UNCHANGED size /\ UNCHANGED acked
      /\ UNCHANGED disturbed /\ UNCHANGED chunks /\ UNCHANGED cache
      /\ o.at = "write" /\ o.kind = "write"
  BY DEF WriteToReplica, master, history
<1>2. OpOK(o) /\ o \in Op /\ size \in Nat
  BY DEF TInv, OpsOK, OpOK, MasterOK
<1>3. ~disturbed => /\ Writing(o) /\ Reading(o) /\ CacheAt /\ acked = {}
                    /\ Busy(c) /\ \A d \in Client : Busy(d) => d = c
  BY <1>1 DEF HInv, Quiet, Writing, Single, Busy
<1>4. PICK x : /\ op' = [op EXCEPT ![c] = x]
               /\ \/ x = NextChunk(o)
                  \/ x = IF Len(o.todo) = 1 THEN Idle
                         ELSE [o EXCEPT !.todo = Tail(o.todo)]
  BY <1>1 DEF WriteToReplica
<1>5. /\ Aimed(x) /\ (x.at # "idle" => x.kind = "write")
      /\ Writing(o) => Writing(x)
      /\ Reading(o) => Reading(x)
  BY <1>1, <1>2, <1>4, NextChunkCalm, TryNextCalm
<1>6. AppendsWhereSaid' /\ Aimed(x)'
  BY <1>1, <1>5 DEF HInv, AppendsWhereSaid, Aimed
<1>7. ASSUME ~disturbed'
      PROVE  /\ ~disturbed /\ size <= size' /\ CacheAt' /\ Kept'
             /\ \A a \in acked' :
                  a \in acked \/ a.index * ChunkSize + a.offset >= size
             /\ Writing(x)' /\ Reading(x)'
             /\ x.at # "idle" /\ x.kind # "read" =>
                  \A d \in Client : Busy(d) => d = c
             /\ Busy(c) \/ UNCHANGED <<size, disk, acked>>
  <2>1. ~disturbed /\ acked' = {} /\ size <= size'
    BY <1>1, <1>2, <1>3, <1>7
  <2>2. CacheAt' /\ Kept'
    BY <1>1, <1>3, <2>1, CacheAtSame DEF Kept
  <2>3. Writing(x)'
    BY <1>1, <1>3, <1>5, <2>1 DEF Writing
  <2>4. Reading(x)'
    BY <1>1, <1>3, <1>5, <2>1 DEF Reading, Returned, At, Held
  <2> QED BY <1>3, <2>1, <2>2, <2>3, <2>4
<1> QED BY <1>1, <1>4, <1>6, <1>7, OneStep

\* What a record written to a replica leaves as it was.
LEMMA WrittenStored ==
  ASSUME TInv, NEW s \in Server, NEW h, NEW offset \in Nat, NEW r \in Unit,
         Written(s, h, offset, <<r>>)
  PROVE  /\ Stored(s, h, offset, r)'
         /\ \A t \in Server, m \in Nat : \A g, q :
              /\ Stored(t, g, m, q)
              /\ t = s /\ g = h /\ m = offset => q = r
              => Stored(t, g, m, q)'
<1>0. PICK data : data = <<r>>
  OBVIOUS
<1> DEFINE file == disk[s][h]
<1>00. PICK new : new = Overwritten(file, offset, data)
  OBVIOUS
<1>1. /\ disk[s] \in [DOMAIN disk[s] -> Seq(Unit)] /\ h \in DOMAIN disk[s]
      /\ disk' = [disk EXCEPT ![s][h] = new]
  BY <1>0, <1>00 DEF Written, TInv, DiskOK
<1>2. file \in Seq(Unit) /\ data \in Seq(Unit) /\ Len(data) = 1
      /\ data[1] = r /\ Len(file) \in Nat
  BY <1>0, <1>1, LenProperties
<1>3. /\ Len(new) = Most(Len(file), offset + 1)
      /\ \A i \in 1..Len(new) :
           new[i] = IF i \in offset + 1..offset + 1 THEN data[i - offset]
                    ELSE IF i <= Len(file) THEN file[i] ELSE 0
  <2>1. /\ Len(new) = Most(Len(file), offset + Len(data))
        /\ \A i \in 1..Len(new) :
             new[i] = IF i \in offset + 1..offset + Len(data)
                      THEN data[i - offset]
                      ELSE IF i <= Len(file) THEN file[i] ELSE 0
    <3>1. file \in Seq(Unit) /\ data \in Seq(Unit) /\ offset \in Nat
          /\ new = Overwritten(file, offset, data)
      BY <1>2, <1>00
    <3> HIDE DEF file
    <3>2. Len(new) = Most(Len(file), offset + Len(data))
      BY <3>1, OverwrittenSound
    <3>3. ASSUME NEW i \in 1..Len(new)
          PROVE  new[i] = IF i \in offset + 1..offset + Len(data)
                          THEN data[i - offset]
                          ELSE IF i <= Len(file) THEN file[i] ELSE 0
      BY <3>1, <3>3, OverwrittenSound
    <3> QED BY <3>2, <3>3
  <2> QED BY <1>2, <2>1
<1>4. \A t \in Server :
        disk'[t] = IF t = s THEN [disk[s] EXCEPT ![h] = new] ELSE disk[t]
  BY <1>1 DEF TInv, DiskOK
<1>5. DOMAIN disk'[s] = DOMAIN disk[s] /\ disk'[s][h] = new
      /\ \A g \in DOMAIN disk[s] : g # h => disk'[s][g] = disk[s][g]
  BY <1>1, <1>4
<1>6. /\ Len(new) \in Nat /\ Len(new) >= Len(file) /\ Len(new) >= offset + 1
  BY <1>2, <1>3 DEF Most
<1>7. new[offset + 1] = r
  <2>1. offset + 1 \in 1..Len(new)
        /\ offset + 1 \in offset + 1..offset + 1
        /\ (offset + 1) - offset = 1
    BY <1>2, <1>6
  <2> QED BY <1>2, <1>3, <2>1
<1>8. ASSUME NEW m \in Nat, m < Len(file), m # offset
      PROVE  new[m + 1] = file[m + 1]
  <2>1. /\ m + 1 \in 1..Len(new) /\ m + 1 <= Len(file)
        /\ m + 1 \notin offset + 1..offset + 1
    BY <1>2, <1>6, <1>8
  <2> QED BY <1>3, <2>1
<1>9. Stored(s, h, offset, r)'
  <2>1. h \in DOMAIN disk'[s] /\ offset < Len(disk'[s][h])
        /\ disk'[s][h][offset + 1] = r
    BY <1>1, <1>5, <1>6, <1>7
  <2> QED BY <2>1 DEF Stored
<1>10. ASSUME NEW t \in Server, NEW g, NEW q, NEW m \in Nat,
              Stored(t, g, m, q), t = s /\ g = h /\ m = offset => q = r
       PROVE  Stored(t, g, m, q)'
  <2>1. CASE t # s
    BY <1>4, <1>10, <2>1 DEF Stored
  <2>2. CASE t = s /\ g # h
    BY <1>5, <1>10, <2>2 DEF Stored
  <2>3. CASE t = s /\ g = h /\ m = offset
    BY <1>9, <1>10, <2>3
  <2>4. CASE t = s /\ g = h /\ m # offset
    <3>1. m < Len(file) /\ file[m + 1] = q
      BY <1>10, <2>4 DEF Stored
    <3>2. new[m + 1] = q /\ m < Len(new)
      BY <1>2, <1>6, <1>8, <2>4, <3>1
    <3> QED BY <1>1, <1>5, <2>4, <3>2 DEF Stored
  <2> QED BY <2>1, <2>2, <2>3, <2>4
<1> QED BY <1>9, <1>10

LEMMA AppendToReplicaCalm ==
  ASSUME TInv, TInv', HInv, NEW c \in Client, AppendToReplica(c)
  PROVE  HInv'
<1> DEFINE o == op[c]
           put == Written(Head(o.todo), o.handle, o.offset, <<o.record>>)
<1>0. PICK s, h, m, r :
        s = Head(o.todo) /\ h = o.handle /\ m = o.offset /\ r = o.record
  OBVIOUS
<1>1. /\ UNCHANGED <<chunks, whole>> /\ UNCHANGED size /\ UNCHANGED acked
      /\ UNCHANGED disturbed /\ UNCHANGED chunks
      /\ o.at = "write" /\ o.kind = "append"
      /\ put \/ UNCHANGED disk
  BY DEF AppendToReplica, master, history
<1>2. /\ OpOK(o) /\ o \in Op /\ size \in Nat /\ o.index \in Nat
      /\ o.todo \in Seq(Server) /\ o.todo # <<>> /\ o.servers \in Seq(Server)
      /\ o.offset \in Nat /\ o.record \in Unit
      /\ Range(o.servers) \subseteq Server
  <2>1. OpOK(o) /\ o \in Op /\ size \in Nat
    BY DEF TInv, OpsOK, OpOK, MasterOK
  <2>2. /\ o.todo \in Seq(Server) /\ o.todo # <<>> /\ o.index \in Nat
        /\ o.servers \in Seq(Server) /\ o.offset \in Nat /\ o.record \in Unit
    BY <1>1, <2>1 DEF Op, OpOK
  <2>3. o.servers \in [1..Len(o.servers) -> Server]
    BY <2>2, LenProperties
  <2> QED BY <2>1, <2>2, <2>3 DEF Range
<1>3. /\ s \in Server
      /\ Range(o.todo) \ {s} \subseteq Range(Tail(o.todo))
      /\ Len(o.todo) = 1 => Range(o.todo) = {s}
  BY <1>0, <1>2, TodoOK
<1>4. ~disturbed => /\ Writing(o) /\ Reading(o) /\ CacheAt /\ Kept
                    /\ ~o.stale /\ o.size = size
                    /\ o.index * ChunkSize + o.offset >= size
                    /\ Busy(c) /\ \A d \in Client : Busy(d) => d = c
  BY <1>1 DEF HInv, Quiet, Writing, Single, Busy
<1>5. AppendsWhereSaid'
  BY <1>1 DEF HInv, AppendsWhereSaid
<1>6. ASSUME NEW t \in Server, NEW g, NEW q, NEW n \in Nat,
             Stored(t, g, n, q), t = s /\ g = h /\ n = m => q = r
      PROVE  Stored(t, g, n, q)'
  <2>1. CASE UNCHANGED disk
    BY <1>6, <2>1 DEF Stored
  <2>2. CASE put
    <3>1. Written(s, h, m, <<r>>) /\ m \in Nat /\ r \in Unit
      BY <1>0, <1>2, <2>2
    <3> QED BY <1>3, <1>6, <3>1, WrittenStored
  <2> QED BY <1>1, <2>1, <2>2
<1>7. ASSUME ~disturbed PROVE Kept'
  <2>1. ASSUME NEW a \in acked, a.handle = o.handle
        PROVE  a.offset # o.offset
    <3>1. o.index < Len(chunks) /\ chunks[o.index + 1] = o.handle
      BY <1>1, <1>4, <1>7 DEF HInv, Aimed
    <3>2. a.index < Len(chunks) /\ chunks[a.index + 1] = a.handle
          /\ a.index \in Nat /\ a.offset \in Nat
      BY DEF HInv, AppendsWhereSaid, TInv, CountsOK, Ack
    <3>3. /\ IsInjective(chunks) /\ DOMAIN chunks = 1..Len(chunks)
          /\ Len(chunks) \in Nat
      BY LenProperties DEF TInv, MasterOK
    <3>4. a.index = o.index
      BY <1>2, <2>1, <3>1, <3>2, <3>3 DEF IsInjective
    <3>5. a.index * ChunkSize + a.offset < size
      BY <1>4, <1>7 DEF Kept
    <3>6. ~(o.index * ChunkSize + o.offset < size)
      <4>1. o.index * ChunkSize \in Nat
        BY <1>2, ClientAssumption, Product
      <4> QED BY <1>2, <1>4, <1>7, <4>1
    <3> QED BY <3>4, <3>5, <3>6
  <2>2. ASSUME NEW a \in acked, NEW t \in a.servers
        PROVE  Stored(t, a.handle, a.offset, a.record)'
    <3>1. a.servers \subseteq Server /\ a.offset \in Nat
      BY DEF TInv, CountsOK, Ack
    <3>2. Stored(t, a.handle, a.offset, a.record)
      BY <1>4, <1>7 DEF Kept
    <3>3. PICK g, n, q : g = a.handle /\ n = a.offset /\ q = a.record
      OBVIOUS
    <3>4. Stored(t, g, n, q)'
      BY <1>0, <1>6, <2>1, <3>1, <3>2, <3>3
    <3> QED BY <1>1, <3>3, <3>4
  <2> QED BY <1>1, <1>4, <1>7, <2>2 DEF Kept
<1>8. CASE Retry(c, o.index)
  <2>1. PICK x : /\ op' = [op EXCEPT ![c] = x]
                 /\ \/ x.at = "idle"
                    \/ /\ x.at = "resolve" /\ x.kind = "append"
                       /\ o.kind = "append" /\ x.size = o.size
                       /\ x.stale = o.stale
    BY <1>1, <1>2, <1>8, RetryRests
  <2>2. Aimed(x) /\ (~disturbed => Writing(x) /\ Reading(x))
    BY <1>4, <2>1, RestsCalm
  <2>3. Aimed(x)' /\ (~disturbed => Writing(x)' /\ Reading(x)')
    BY <1>1, <2>1, <2>2
       DEF Aimed, Writing, Reading, Returned, Held
  <2>4. ~disturbed => CacheAt'
    BY <1>1, <1>4, <1>8, CacheAtSame DEF Retry
  <2>5. size <= size'
    BY <1>1, <1>2
  <2> QED BY <1>1, <1>4, <1>5, <1>7, <2>1, <2>3, <2>4, <2>5, OneStep
<1>9. CASE /\ put /\ UNCHANGED cache
           /\ op' = [op EXCEPT ![c].todo = Tail(@),
                       ![c].at = IF Len(o.todo) = 1 THEN "size" ELSE @]
  <2> DEFINE at == IF Len(o.todo) = 1 THEN "size" ELSE "write"
  <2>0. PICK x : x = [o EXCEPT !.todo = Tail(o.todo), !.at = at]
    OBVIOUS
  <2>1. op' = [op EXCEPT ![c] = x]
    BY <1>1, <1>9, <2>0 DEF TInv, OpsOK
  <2>2. /\ x.at = at /\ x.kind = "append" /\ x.size = o.size
        /\ x.stale = o.stale /\ x.index = o.index /\ x.handle = o.handle
        /\ x.servers = o.servers /\ x.offset = o.offset
        /\ x.record = o.record /\ x.todo = Tail(o.todo)
    BY <1>1, <1>2, <2>0 DEF Op
  <2>3. at \in {"size", "write"} /\ (at = "size" <=> Len(o.todo) = 1)
    OBVIOUS
  <2> HIDE DEF at
  <2>4. Aimed(x)'
    BY <1>1, <2>2, <2>3 DEF HInv, Aimed
  <2>5. Stored(s, h, m, r)'
    <3>1. Written(s, h, m, <<r>>) /\ m \in Nat /\ r \in Unit
      BY <1>0, <1>2, <1>9
    <3> QED BY <1>3, <3>1, WrittenStored
  <2>7. ASSUME ~disturbed, NEW t \in Range(o.servers)
        PROVE  (at = "write" /\ t \in Range(Tail(o.todo)))
                 \/ Stored(t, h, m, r)'
    <3>1. t \in Range(o.todo) \/ Stored(t, h, m, r)
      BY <1>0, <1>1, <1>4, <2>7 DEF Writing
    <3>2. CASE Stored(t, h, m, r)
      <4>1. t \in Server /\ m \in Nat
        BY <1>0, <1>2
      <4> QED BY <1>6, <3>2, <4>1
    <3>3. CASE t = s
      BY <2>5, <3>3
    <3>4. CASE t \in Range(o.todo) /\ t # s
      BY <1>3, <2>3, <3>4
    <3> QED BY <3>1, <3>2, <3>3, <3>4
  <2>8. ASSUME ~disturbed PROVE Writing(x)'
    <3>1. ~x.stale /\ x.size = size' /\ x.kind = "append"
          /\ x.index * ChunkSize + x.offset >= size'
      BY <1>1, <1>4, <2>2, <2>8
    <3>2. /\ x.handle = h /\ x.offset = m /\ x.record = r
      BY <1>0, <2>2
    <3>3. \A t \in Range(x.servers) :
            (x.at = "write" /\ t \in Range(x.todo))
              \/ Stored(t, x.handle, x.offset, x.record)'
      BY <2>2, <2>7, <2>8, <3>2
    <3>4. x.at \in {"size", "write"}
      BY <2>2, <2>3
    <3> QED BY <3>1, <3>3, <3>4 DEF Writing
  <2>9. ~disturbed => Reading(x)'
    BY <1>1, <1>4, <2>2, <2>3 DEF Reading, Returned, Held, At
  <2>10. ~disturbed => CacheAt'
    BY <1>1, <1>4, <1>9, CacheAtSame
  <2>11. size <= size'
    BY <1>1, <1>2
  <2> QED BY <1>1, <1>4, <1>5, <1>7, <2>1, <2>4, <2>8, <2>9, <2>10, <2>11,
             OneStep
<1> QED BY <1>8, <1>9 DEF AppendToReplica

\* An append that succeeded is where it says, behind all others.
LEMMA AppendSizeCalm ==
  ASSUME TInv, TInv', HInv, NEW c \in Client, AppendSize(c)
  PROVE  HInv'
<1> DEFINE o == op[c]
           end == o.index * ChunkSize + o.offset + 1
<1>0. PICK x, b : /\ x = Idle
                  /\ b = [record |-> o.record, index |-> o.index,
                          offset |-> o.offset, handle |-> o.handle,
                          servers |-> Range(o.servers)]
  OBVIOUS
<1>1. /\ UNCHANGED <<chunks, whole>> /\ UNCHANGED chunks /\ UNCHANGED disk
      /\ UNCHANGED disturbed /\ UNCHANGED cache
      /\ o.at = "size" /\ o.kind = "append"
      /\ op' = [op EXCEPT ![c] = x]
      /\ size' \in {size, Most(o.size, end)}
      /\ \/ acked' = acked
         \/ /\ ~o.stale /\ acked' = acked \cup {b}
            /\ size' = Most(o.size, end)
  BY <1>0 DEF AppendSize
<1>2. /\ OpOK(o) /\ o \in Op /\ size \in Nat /\ o.index \in Nat
      /\ o.offset \in Nat /\ o.index * ChunkSize \in Nat /\ end \in Nat
  <2>1. OpOK(o) /\ o \in Op /\ size \in Nat
    BY DEF TInv, OpsOK, OpOK, MasterOK
  <2>2. o.index \in Nat /\ o.offset \in Nat
    BY <2>1 DEF Op
  <2>3. o.index * ChunkSize \in Nat
    BY <2>2, ClientAssumption, Product
  <2> QED BY <2>1, <2>2, <2>3
<1>3. ~disturbed => /\ Writing(o) /\ CacheAt /\ Kept
                    /\ ~o.stale /\ o.size = size
                    /\ o.index * ChunkSize + o.offset >= size
                    /\ \A s \in Range(o.servers) :
                         Stored(s, o.handle, o.offset, o.record)
                    /\ Busy(c) /\ \A d \in Client : Busy(d) => d = c
  BY <1>1 DEF HInv, Quiet, Writing, Single, Busy
<1>4. AppendsWhereSaid'
  <2>1. ~o.stale => o.index < Len(chunks) /\ chunks[o.index + 1] = o.handle
    BY <1>1 DEF HInv, Aimed
  <2>2. \A a \in acked' : a \in acked \/ (~o.stale /\ a = b)
    BY <1>1
  <2> QED BY <1>0, <1>1, <2>1, <2>2 DEF HInv, AppendsWhereSaid
<1>5. Aimed(x)' /\ Writing(x)' /\ Reading(x)' /\ x.at = "idle"
  BY <1>0, IdleOK DEF Aimed, Writing, Reading, Returned, Held
<1>6. ASSUME ~disturbed'
      PROVE  /\ ~disturbed /\ size <= size' /\ CacheAt' /\ Kept'
             /\ \A a \in acked' :
                  a \in acked \/ a.index * ChunkSize + a.offset >= size
             /\ Busy(c)
  <2>1. ~disturbed
    BY <1>1, <1>6
  <2>2. /\ size' \in {size, end} /\ size <= size'
        /\ \A a \in acked' : a \in acked \/ (a = b /\ size' = end)
    <3>1. o.size = size /\ end > size
      BY <1>2, <1>3, <2>1
    <3>2. Most(o.size, end) = end
      BY <1>2, <3>1 DEF Most
    <3> HIDE DEF end
    <3> QED BY <1>1, <1>2, <3>1, <3>2
  <2>3. CacheAt'
    BY <1>1, <1>3, <2>1, CacheAtSame
  <2>4. \A a \in acked' :
          a \in acked \/ a.index * ChunkSize + a.offset >= size
    BY <1>0, <1>3, <2>1, <2>2
  <2>5. ASSUME NEW a \in acked'
        PROVE  a.index * ChunkSize + a.offset < size'
    <3>1. CASE a \in acked
      <4>1. a.index * ChunkSize + a.offset < size
        BY <1>3, <2>1, <3>1 DEF Kept
      <4>2. a.index \in Nat /\ a.offset \in Nat
        BY <3>1 DEF TInv, CountsOK, Ack
      <4>3. a.index * ChunkSize \in Nat
        BY <4>2, ClientAssumption, Product
      <4>4. size' \in Nat
        BY DEF TInv, MasterOK
      <4> QED BY <1>2, <2>2, <4>1, <4>2, <4>3, <4>4
    <3>2. CASE a = b /\ size' = end
      <4>1. a.index = o.index /\ a.offset = o.offset
        BY <1>0, <3>2
      <4> QED BY <1>2, <3>2, <4>1
    <3> QED BY <2>2, <3>1, <3>2
  <2>6. ASSUME NEW a \in acked', NEW s \in a.servers
        PROVE  Stored(s, a.handle, a.offset, a.record)
    <3>1. CASE a \in acked
      BY <1>3, <2>1, <2>6, <3>1 DEF Kept
    <3>2. CASE a = b
      BY <1>0, <1>3, <2>1, <2>6, <3>2
    <3> QED BY <2>2, <3>1, <3>2
  <2>7. ASSUME NEW a \in acked', NEW s \in a.servers
        PROVE  Stored(s, a.handle, a.offset, a.record)'
    BY <1>1, <2>6, <2>7 DEF Stored
  <2>8. Kept'
    BY <2>5, <2>7 DEF Kept
  <2> QED BY <1>3, <2>1, <2>2, <2>3, <2>4, <2>8
<1> QED BY <1>1, <1>4, <1>5, <1>6, OneStep

\* A write may shorten the file: nothing was appended, and the reads it
\* concerns are marked.
LEMMA WriteSizeCalm ==
  ASSUME TInv, TInv', HInv, NEW c \in Client, WriteSize(c)
  PROVE  HInv'
<1> DEFINE o == op[c]
<1>1. /\ UNCHANGED <<chunks, whole, disk, cache, acked, disturbed>>
      /\ o.at = "size" /\ o.kind = "write"
      /\ op' = [d \in Client |->
           IF d = c THEN Idle
           ELSE [op[d] EXCEPT !.stale =
                   op[d].stale \/ (~Busy(d) /\ size' < op[d].to)]]
  BY DEF WriteSize, history
<1>2. size \in Nat /\ size' \in Nat
  BY DEF TInv, MasterOK
<1>3. AppendsWhereSaid'
  BY <1>1 DEF HInv, AppendsWhereSaid
<1>4. ASSUME NEW d \in Client, d # c, NEW y, y = op'[d]
      PROVE  /\ y.at = op[d].at /\ y.kind = op[d].kind
             /\ y.from = op[d].from /\ y.to = op[d].to
             /\ y.index = op[d].index /\ y.handle = op[d].handle
             /\ y.got = op[d].got
             /\ ~y.stale => /\ ~op[d].stale
                            /\ ~Busy(d) => y.to <= size'
  <2>1. op[d] \in Op /\ op[d].to \in Nat
    BY DEF TInv, OpsOK, OpOK, Op
  <2> DEFINE b == op[d].stale \/ (~Busy(d) /\ size' < op[d].to)
  <2>2. y = [op[d] EXCEPT !.stale = b]
    BY <1>1, <1>4
  <2>3. ~b => ~op[d].stale /\ (~Busy(d) => op[d].to <= size')
    BY <1>2, <2>1
  <2> HIDE DEF b
  <2>4. y.stale = b
    BY <2>1, <2>2 DEF Op
  <2> QED BY <2>1, <2>2, <2>3, <2>4 DEF Op
<1>5. ASSUME NEW d \in Client, NEW y, y = op'[d]
      PROVE  Aimed(y)'
  <2>1. CASE d = c
    BY <1>1, <1>5, <2>1, IdleOK DEF Aimed
  <2>2. CASE d # c
    BY <1>1, <1>4, <1>5, <2>2 DEF HInv, Aimed
  <2> QED BY <2>1, <2>2
<1>6. ASSUME ~disturbed'
      PROVE  Quiet'
  <2>1. Quiet /\ acked = {} /\ Busy(c)
    BY <1>1, <1>6 DEF HInv, Quiet, Writing, Busy
  <2>2. \A d \in Client : d # c => ~Busy(d)
    BY <2>1 DEF Quiet, Single
  <2>3. ASSUME NEW d \in Client, NEW y, y = op'[d]
        PROVE  (y.at = "idle" \/ y.kind = "read") /\ Reading(y)'
    <3>1. CASE d = c
      BY <1>1, <2>3, <3>1, IdleOK DEF Reading, Returned, Held
    <3>2. CASE d # c
      <4>1. Reading(op[d]) /\ ~Busy(d)
        BY <2>1, <2>2, <3>2 DEF Quiet
      <4>2. y.at = "idle" \/ y.kind = "read"
        BY <1>4, <2>3, <3>2, <4>1 DEF Busy
      <4>3. Start(y) = Start(op[d])
        BY <1>4, <2>3, <3>2 DEF Start
      <4>4. Returned(y)'
        BY <1>1, <2>1 DEF Returned
      <4>5. Reading(y)'
        BY <1>1, <1>4, <2>3, <3>2, <4>1, <4>3, <4>4 DEF Reading, Held, At
      <4> QED BY <4>2, <4>5
    <3> QED BY <3>1, <3>2
  <2>4. \A d \in Client : ~Busy(d)'
    BY <2>3 DEF Busy
  <2>5. \A d \in Client : Writing(op[d])' /\ Reading(op[d])'
    <3> SUFFICES ASSUME NEW d \in Client, NEW y, y = op'[d]
                 PROVE  Writing(y)' /\ Reading(y)'
      OBVIOUS
    <3> QED BY <2>3 DEF Writing
  <2>6. Kept' /\ Single'
    BY <1>1, <2>1, <2>4 DEF Kept, Single
  <2>7. CacheAt'
    BY <1>1, <2>1, CacheAtSame DEF Quiet
  <2> QED BY <2>5, <2>6, <2>7 DEF Quiet
<1> QED BY <1>3, <1>5, <1>6 DEF HInv

LEMMA HeartbeatCalm ==
  ASSUME TInv, TInv', HInv, NEW s \in Server, Heartbeat(s)
  PROVE  HInv'
<1>1. UNCHANGED <<chunks, size, whole, disk, cache, op, acked, disturbed>>
  BY DEF Heartbeat, history
<1>2. AppendsWhereSaid' /\ \A c \in Client : Aimed(op[c])'
  BY <1>1 DEF HInv, AppendsWhereSaid, Aimed
<1>3. ASSUME ~disturbed PROVE Quiet'
  <2>1. Quiet
    BY <1>3 DEF HInv
  <2>2. Single' /\ Kept'
    BY <1>1, <2>1 DEF Quiet, Single, Busy, Kept, Stored
  <2>3. CacheAt'
    BY <1>1, <2>1, CacheAtSame DEF Quiet
  <2>4. ASSUME NEW c \in Client
        PROVE  Writing(op[c])' /\ Reading(op[c])'
    <3>1. Writing(op[c]) /\ Reading(op[c])
      BY <2>1 DEF Quiet
    <3>2. Writing(op[c])'
      BY <1>1, <3>1 DEF Writing, Stored
    <3>3. Reading(op[c])'
      BY <1>1, <3>1 DEF Reading, Returned, Held, At, Start
    <3> QED BY <3>2, <3>3
  <2> QED BY <2>2, <2>3, <2>4 DEF Quiet
<1> QED BY <1>1, <1>2, <1>3 DEF HInv

\* A file that is created again has nothing, and nobody changes it.
LEMMA RecreateCalm ==
  ASSUME TInv, TInv', HInv, Recreate
  PROVE  HInv'
<1>1. /\ chunks' = <<>> /\ acked' = {} /\ UNCHANGED cache
      /\ op' = [c \in Client |-> IF op[c].at = "idle" THEN op[c]
                                 ELSE [op[c] EXCEPT !.stale = TRUE]]
      /\ ~disturbed' => ~disturbed /\ \A c \in Client : ~Busy(c)
  BY DEF Recreate
<1>2. ASSUME NEW c \in Client, NEW y, y = op'[c]
      PROVE  /\ y.at = op[c].at /\ y.kind = op[c].kind
             /\ y.from = op[c].from /\ y.to = op[c].to
             /\ y.index = op[c].index /\ y.got = op[c].got
             /\ y.at # "idle" => y.stale
  <2>1. op[c] \in Op
    BY DEF TInv, OpsOK, OpOK
  <2> QED BY <1>1, <1>2, <2>1 DEF Op
<1>3. \A i, h : At(i, h)'
  BY <1>1 DEF At, Range
<1>4. AppendsWhereSaid'
  BY <1>1 DEF AppendsWhereSaid
<1>5. ASSUME NEW c \in Client, NEW y, y = op'[c]
      PROVE  Aimed(y)'
  BY <1>2, <1>5 DEF Aimed
<1>6. ASSUME ~disturbed'
      PROVE  Quiet'
  <2>1. Quiet /\ \A c \in Client : ~Busy(c)
    BY <1>1, <1>6 DEF HInv
  <2>2. ASSUME NEW c \in Client, NEW y, y = op'[c]
        PROVE  (y.at = "idle" \/ y.kind = "read") /\ Reading(y)'
    <3>1. Reading(op[c]) /\ ~Busy(c)
      BY <2>1 DEF Quiet
    <3>2. Start(y) = Start(op[c])
      BY <1>2, <2>2 DEF Start
    <3>3. y.at = "idle" \/ y.kind = "read"
      BY <1>2, <2>2, <3>1 DEF Busy
    <3>4. Reading(y)'
      BY <1>1, <1>2, <1>3, <2>2, <3>1, <3>2 DEF Reading, Returned
    <3> QED BY <3>3, <3>4
  <2>3. \A c \in Client : ~Busy(c)'
    BY <2>2 DEF Busy
  <2>4. \A c \in Client : Writing(op[c])' /\ Reading(op[c])'
    <3> SUFFICES ASSUME NEW c \in Client, NEW y, y = op'[c]
                 PROVE  Writing(y)' /\ Reading(y)'
      OBVIOUS
    <3> QED BY <2>2 DEF Writing
  <2>5. Single' /\ Kept' /\ CacheAt'
    BY <1>1, <1>3, <2>3 DEF Single, Kept, CacheAt
  <2> QED BY <2>4, <2>5 DEF Quiet
<1> QED BY <1>4, <1>5, <1>6 DEF HInv

\* What an added chunk leaves as it was.
LEMMA AddedKeeps ==
  ASSUME TInv, NEW h, h = Made + 1, NEW S, NEW L, AddChunk(h, S, L),
         whole' \subseteq whole \cup {h}
  PROVE  /\ Len(chunks) \in Nat /\ Len(chunks') = Len(chunks) + 1
         /\ chunks'[Len(chunks) + 1] = h
         /\ \A i \in Nat : i < Len(chunks) => chunks'[i + 1] = chunks[i + 1]
         /\ \A i \in Nat, k \in 1..Made : At(i, k) => At(i, k)'
         /\ \A k \in 1..Made : k \in whole' \cap Range(chunks') =>
                                 k \in whole \cap Range(chunks)
         /\ \A s \in Server : \A g, m, q :
              Stored(s, g, m, q) => Stored(s, g, m, q)'
<1>1. /\ Made \in Nat /\ h \notin 1..Made
      /\ chunks \in Seq(Handle) /\ Len(chunks) \in Nat
      /\ DOMAIN chunks = 1..Len(chunks)
  BY LenProperties, ClientAssumption DEF TInv, MasterOK
<1>2. /\ Len(chunks') = Len(chunks) + 1
      /\ DOMAIN chunks' = 1..Len(chunks) + 1
      /\ \A i \in 1..Len(chunks) : chunks'[i] = chunks[i]
      /\ chunks'[Len(chunks) + 1] = h
  <2>1. PICK T : T = Handle \cup {h}
    OBVIOUS
  <2>2. chunks \in Seq(T) /\ h \in T
    BY <1>1, <2>1
  <2>3. chunks' = Append(chunks, h)
    BY DEF AddChunk
  <2> QED BY <1>1, <2>2, <2>3, AppendProperties, LenProperties
<1>3. \A i \in Nat : i < Len(chunks) => chunks'[i + 1] = chunks[i + 1]
  BY <1>1, <1>2
<1>4. \A k \in 1..Made : k \in Range(chunks') => k \in Range(chunks)
  <2> SUFFICES ASSUME NEW k \in 1..Made, k \in Range(chunks')
               PROVE  k \in Range(chunks)
    OBVIOUS
  <2>1. PICK i \in 1..Len(chunks) + 1 : k = chunks'[i]
    BY <1>2 DEF Range
  <2>2. i \in 1..Len(chunks)
    BY <1>1, <1>2, <2>1
  <2> QED BY <1>1, <1>2, <2>1, <2>2 DEF Range
<1>5. ASSUME NEW i \in Nat, NEW k \in 1..Made, At(i, k)
      PROVE  At(i, k)'
  BY <1>1, <1>2, <1>3, <1>4, <1>5 DEF At
<1>6. ASSUME NEW s \in Server, NEW g, NEW m, NEW q, Stored(s, g, m, q)
      PROVE  Stored(s, g, m, q)'
  <2>1. g \in DOMAIN disk[s] /\ g # h
    BY <1>1, <1>6 DEF Stored, TInv, DiskOK
  <2>2. g \in DOMAIN disk'[s] /\ disk'[s][g] = disk[s][g]
    BY <2>1 DEF AddChunk
  <2> QED BY <1>6, <2>2 DEF Stored
<1> QED BY <1>1, <1>2, <1>3, <1>4, <1>5, <1>6

LEMMA AllocateCalm ==
  ASSUME TInv, TInv', HInv, NEW c \in Client, Allocate(c)
  PROVE  HInv'
<1> DEFINE o == op[c]
<1>1. PICK h : h = Made + 1
  OBVIOUS
<1>2. /\ o.at = "allocate" /\ h <= MaxHandle
      /\ UNCHANGED size /\ UNCHANGED acked /\ UNCHANGED disturbed
  BY <1>1 DEF Allocate, history, Made
<1>3. /\ OpOK(o) /\ o \in Op /\ o.index \in Nat /\ o.kind # "read"
      /\ Busy(c)
  BY <1>2 DEF TInv, OpsOK, OpOK, Op, Busy
<1>4. /\ \E S, L : AddChunk(h, S, L)
      /\ whole' \subseteq whole \cup {h}
      /\ \/ \E e : /\ e.handle = h /\ Keep(c, o.index, e)
                   /\ op' = [op EXCEPT ![c] = Resolved(o, e)]
         \/ Retry(c, o.index)
  <2>1. \A e, servers : e = [handle |-> h, servers |-> servers] =>
                          e.handle = h
    OBVIOUS
  <2> QED BY <1>1, <2>1 DEF Allocate, Made
<1>5. /\ Len(chunks) \in Nat /\ Len(chunks') = Len(chunks) + 1
      /\ chunks'[Len(chunks) + 1] = h
      /\ \A i \in Nat : i < Len(chunks) => chunks'[i + 1] = chunks[i + 1]
      /\ \A i \in Nat, k \in 1..Made : At(i, k) => At(i, k)'
      /\ \A k \in 1..Made : k \in whole' \cap Range(chunks') =>
                              k \in whole \cap Range(chunks)
      /\ \A s \in Server : \A g, m, q :
              Stored(s, g, m, q) => Stored(s, g, m, q)'
  BY <1>1, <1>4, AddedKeeps
<1>6. ~disturbed => /\ Writing(o) /\ Reading(o) /\ CacheAt /\ Kept
                    /\ ~o.stale /\ o.index = Len(chunks)
                    /\ o.kind = "append" => o.size = size
                    /\ o.kind = "write" => acked = {}
                    /\ \A d \in Client : Busy(d) => d = c
  BY <1>2, <1>3 DEF HInv, Quiet, Writing, Single
<1>7. AppendsWhereSaid'
  <2>1. \A a \in acked : a.index \in Nat /\ a.index < Len(chunks)
                         /\ chunks[a.index + 1] = a.handle
    BY DEF HInv, AppendsWhereSaid, TInv, CountsOK, Ack
  <2> QED BY <1>2, <1>5, <2>1 DEF AppendsWhereSaid
<1>8. ~disturbed => Kept'
  <2> SUFFICES ASSUME ~disturbed PROVE Kept'
    OBVIOUS
  <2>1. ASSUME NEW a \in acked, NEW s \in a.servers
        PROVE  Stored(s, a.handle, a.offset, a.record)'
    <3>1. s \in Server
      BY <2>1 DEF TInv, CountsOK, Ack
    <3>2. Stored(s, a.handle, a.offset, a.record)
      BY <1>6, <2>1 DEF Kept
    <3> QED BY <1>5, <3>1, <3>2
  <2> QED BY <1>2, <1>6, <2>1 DEF Kept
<1>9. \E x : /\ op' = [op EXCEPT ![c] = x]
             /\ Aimed(x)' /\ (~disturbed => Writing(x)' /\ Reading(x)')
             /\ ~disturbed => CacheAt'
  <2>1. \A i, k : k \in 1..Made /\ At(i, k) /\ i \in Nat => At(i, k)'
    BY <1>5
  <2>2. CASE Retry(c, o.index)
    <3>1. PICK x : /\ op' = [op EXCEPT ![c] = x]
                   /\ \/ x.at = "idle"
                      \/ /\ x.at = "resolve" /\ x.kind = "append"
                         /\ o.kind = "append" /\ x.size = o.size
                         /\ x.stale = o.stale
      BY <1>2, <1>3, <2>2, RetryRests
    <3>2. Aimed(x)' /\ (~disturbed => Writing(x)' /\ Reading(x)')
      BY <1>2, <1>6, <3>1 DEF Aimed, Writing, Reading, Returned, Held
    <3>3. ~disturbed => CacheAt'
      BY <1>6, <2>1, <2>2, CacheAtShrinks DEF Retry
    <3> QED BY <3>1, <3>2, <3>3
  <2>3. ASSUME NEW e, e.handle = h, Keep(c, o.index, e),
               op' = [op EXCEPT ![c] = Resolved(o, e)]
        PROVE  \E x : /\ op' = [op EXCEPT ![c] = x]
                      /\ Aimed(x)' /\ (~disturbed => Writing(x)' /\ Reading(x)')
                      /\ ~disturbed => CacheAt'
    <3>1. PICK x, j : x = Resolved(o, e) /\ j = o.index
      OBVIOUS
    <3>2. /\ x.at = IF o.kind = "append" THEN "check" ELSE "write"
          /\ x.kind = o.kind /\ x.stale = o.stale /\ x.size = o.size
          /\ x.index = j /\ x.handle = h /\ x.kind \in {"append", "write"}
      BY <1>3, <2>3, <3>1 DEF Op, Resolved
    <3>3. ~disturbed => At(j, e.handle)'
      BY <1>5, <1>6, <2>3, <3>1 DEF At
    <3>4. Aimed(x)'
      BY <3>2 DEF Aimed
    <3>5. ~disturbed => Writing(x)'
      BY <1>2, <1>6, <3>2 DEF Writing
    <3>6. ~disturbed => Reading(x)'
      BY <2>3, <3>2, <3>3 DEF Reading, Returned
    <3>7. ~disturbed => CacheAt'
      BY <1>6, <2>1, <2>3, <3>1, <3>3, CacheAtGrows
    <3> QED BY <2>3, <3>1, <3>4, <3>5, <3>6, <3>7
  <2> QED BY <1>4, <2>2, <2>3
<1>10. PICK x : /\ op' = [op EXCEPT ![c] = x]
                /\ Aimed(x)' /\ (~disturbed => Writing(x)' /\ Reading(x)')
                /\ ~disturbed => CacheAt'
  BY <1>9
<1>11. \A d \in Client : op'[d] = IF d = c THEN x ELSE op[d]
  BY <1>10 DEF TInv, OpsOK
<1>12. ASSUME NEW d \in Client, NEW y, y = op'[d] PROVE Aimed(y)'
  <2>1. CASE d = c
    BY <1>10, <1>11, <1>12, <2>1
  <2>2. CASE d # c
    <3>1. y = op[d] /\ Aimed(y) /\ y.index \in Nat
      BY <1>11, <1>12, <2>2 DEF HInv, TInv, OpsOK, OpOK, Op
    <3> QED BY <1>5, <3>1 DEF Aimed
  <2> QED BY <2>1, <2>2
<1>13. ASSUME ~disturbed' PROVE Quiet'
  <2>1. ~disturbed /\ Quiet
    BY <1>2, <1>13 DEF HInv
  <2>2. Single'
    BY <1>6, <1>11, <2>1 DEF Single, Busy
  <2>3. ASSUME NEW d \in Client, NEW y, y = op'[d]
        PROVE  Writing(y)' /\ Reading(y)'
    <3>1. CASE d = c
      BY <1>10, <1>11, <2>1, <2>3, <3>1
    <3>2. CASE d # c
      <4>1. y = op[d] /\ OpOK(y) /\ Reading(y) /\ ~Busy(d)
        BY <1>6, <1>11, <2>1, <2>3, <3>2 DEF TInv, OpsOK, Quiet
      <4>2. Writing(y)'
        BY <4>1 DEF Writing, Busy
      <4>3. Reading(y)'
        <5>1. /\ size \in Nat /\ size' \in Nat /\ size <= size'
              /\ \A a \in acked' : a \in Ack /\ a \in acked
          BY <1>2 DEF TInv, MasterOK, CountsOK
        <5>2. Held(y) => y.index \in Nat
          BY <4>1 DEF OpOK, Op
        <5> QED BY <1>5, <4>1, <5>1, <5>2, ReadingKept
      <4> QED BY <4>2, <4>3
    <3> QED BY <3>1, <3>2
  <2> QED BY <1>8, <1>10, <2>1, <2>2, <2>3 DEF Quiet
<1> QED BY <1>7, <1>12, <1>13 DEF HInv

LEMMA InitCalm == Init => HInv
<1> SUFFICES ASSUME Init PROVE HInv
  OBVIOUS
<1>1. /\ op = [c \in Client |-> Idle] /\ cache = [c \in Client |-> <<>>]
      /\ acked = {}
  BY DEF Init
<1>2. \A c \in Client : op[c] = Idle /\ op[c].at = "idle"
  BY <1>1, IdleOK
<1>3. AppendsWhereSaid /\ Kept /\ CacheAt
  BY <1>1 DEF AppendsWhereSaid, Kept, CacheAt
<1>4. Single
  BY <1>2 DEF Single, Busy
<1>5. \A c \in Client : Aimed(op[c]) /\ Writing(op[c]) /\ Reading(op[c])
  BY <1>2 DEF Aimed, Writing, Reading, Returned, Held
<1> QED BY <1>3, <1>4, <1>5 DEF HInv, Quiet

LEMMA NextCalm == TInv /\ TInv' /\ HInv /\ [Next]_vars => HInv'
<1> SUFFICES ASSUME TInv, TInv', HInv, [Next]_vars PROVE HInv'
  OBVIOUS
<1>1. CASE UNCHANGED vars
  BY <1>1 DEF vars, master, history, HInv, AppendsWhereSaid, Aimed, Quiet,
              Single, Busy, CacheAt, Kept, Writing, Reading, Returned, Held,
              At, Stored, Start
<1>2. ASSUME NEW c \in Client, Step(c)
      PROVE  HInv'
  BY <1>2, BeginsCalm, ResolveCalm, AllocateCalm, PlanCalm,
     AppendToReplicaCalm, AppendSizeCalm, WriteToReplicaCalm, WriteSizeCalm,
     ReadsCalm DEF Step
<1> QED BY <1>1, <1>2, HeartbeatCalm, RecreateCalm DEF Next

LEMMA AppendedAlways == Spec => [](TInv /\ HInv)
<1>1. Init => TInv /\ HInv
  BY InitOK, InitCalm
<1>2. TInv /\ HInv /\ [Next]_vars => TInv' /\ HInv'
  BY NextOK, NextCalm
<1> QED BY <1>1, <1>2, PTL DEF Spec

\* Where an append says its record is, there is the chunk it was written to:
\* for any number of clients that append, allocate and use stale locations at
\* the same time (CheckHandle and PlanAppend after a resolution from the
\* cache), and whatever calls fail.
THEOREM AppendsAreWhereTheySay == Spec => []AppendsWhereSaid
<1>1. TInv /\ HInv => AppendsWhereSaid
  BY DEF HInv
<1> QED BY <1>1, AppendedAlways, PTL

\* What an append acknowledged is kept by all the replicas it was written to,
\* as long as changes do not overlap and nothing is written over it: however
\* often a call failed after it had its effect, and its retry wrote the same
\* record or another elsewhere.
THEOREM AcknowledgedIsKept == Spec => []AcknowledgedKept
<1>1. TInv /\ HInv => AcknowledgedKept
  BY DEF HInv, Quiet, Kept, Stored, AcknowledgedKept
<1> QED BY <1>1, AppendedAlways, PTL

\* A read returns what was acknowledged before and during it, from whichever
\* replica answers, under the conditions that ReadsAcknowledged names.
THEOREM ReadsReturnAcknowledged == Spec => []ReadsAcknowledged
<1>1. TInv /\ HInv => ReadsAcknowledged
  <2> SUFFICES ASSUME HInv, NEW c \in Client, NEW a \in acked,
                      ~disturbed, op[c].at = "took", ~op[c].stale,
                      op[c].handle \in whole \cap Range(chunks),
                      op[c].index = a.index,
                      a.offset - Start(op[c]) + 1 \in DOMAIN op[c].got
               PROVE  op[c].got[a.offset - Start(op[c]) + 1] = a.record
    BY DEF ReadsAcknowledged
  <2>1. Returned(op[c])
    BY DEF HInv, Quiet, Reading
  <2> QED BY <2>1 DEF Returned
<1> QED BY <1>1, AppendedAlways, PTL

=============================================================================
