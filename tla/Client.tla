------------------------------- MODULE Client -------------------------------
(***************************************************************************)
(* Clients that append to one file, write to it and read from it: the      *)
(* location cache, Reader, Writer and RecordAppender (client/), with the   *)
(* functions that gfs_client_main.cpp gives them.  The master and the      *)
(* chunkservers appear as far as a client sees them.                       *)
(*                                                                         *)
(* Every call of the master or of a chunkserver is a step of its own, and  *)
(* can fail before or after it had its effect.  The name of the file is    *)
(* left out: it may be deleted and created again at any time.              *)
(***************************************************************************)
EXTENDS Naturals, Sequences, FiniteSets, Functions, SequencesExt

CONSTANTS
  Client,       \* the client processes
  Server,       \* the chunkservers, which all hold a replica
  ChunkSize,    \* kChunkSize
  MaxTries,     \* max_attempts_ of RetryPolicy
  MaxOps,       \* bound on the operations of all clients
  MaxHandle,    \* bound on chunk handles
  MaxFiles,     \* bound on how often the file is created
  MaxFaults,    \* bound on the calls that fail
  Ranges        \* bound on what is written and read: from where, up to where

ASSUME ClientAssumption ==
  /\ IsFiniteSet(Server) /\ Server # {}
  /\ ChunkSize \in Nat \ {0} /\ MaxTries \in Nat \ {0}
  /\ MaxOps \in Nat /\ MaxHandle \in Nat /\ MaxFiles \in Nat \ {0}
  /\ MaxFaults \in Nat
  /\ Ranges \subseteq {r \in Nat \X Nat : r[1] < r[2]}

Handle == 1..MaxHandle

VARIABLES
  chunks,    \* the chunks of the file
  size,      \* the size of the file
  files,     \* how often the file has been created
  location,  \* the replicas the master lists for each chunk
  whole,     \* the chunks all whose replicas AllocateChunk created
  disk,      \* the chunk files of each server
  cache,     \* the location cache of each client
  op,        \* what each client is doing
  count,     \* how many operations have begun
  faults,    \* how many calls have failed
  acked,     \* the appends that returned true, history of this file
  disturbed  \* whether changes of the file overlapped in time, or a write
             \* may have changed what had been appended

master == <<chunks, size, files, location, whole>>
history == <<acked, disturbed>>
vars == <<master, disk, cache, op, count, faults, history>>

\* An append writes one record, named by the number of the operation, and a
\* write as many as fit; zero is the byte nobody wrote.
Record == 1..MaxOps
Unit == {0} \cup Record

Entry == [handle : Handle, servers : Seq(Server)]
Idle ==
  [at |-> "idle", kind |-> "read", record |-> 0, tries |-> 0, size |-> 0,
   from |-> 0, to |-> 0, index |-> 0, handle |-> 0, servers |-> <<>>,
   todo |-> <<>>, offset |-> 0, got |-> <<>>, stale |-> FALSE]
Op ==
  [at : {"idle", "resolve", "allocate", "check", "plan", "write", "size",
         "took"},
   kind : {"append", "write", "read"},
   record : Unit,           \* what is appended or written
   tries : 0..MaxTries,
   size : Nat,              \* what LookupFile returned at the beginning
   from : Nat, to : Nat,    \* what is left to write or to read
   index : Nat,             \* the chunk at hand
   handle : Handle \cup {0}, servers : Seq(Server),
   todo : Seq(Server),      \* the replicas not yet called
   offset : Nat,            \* where in the chunk a record goes
   got : Seq(Unit),         \* what was read from one chunk
   stale : BOOLEAN]         \* the file was deleted meanwhile or, for a
                            \* read, made shorter than what is read
Ack == [record : Record, index : Nat, offset : Nat, handle : Handle,
        servers : SUBSET Server]

\* Types; what an append plans to write begins within its chunk, whatever size
\* the file has got from others in the meantime.
TypeOK ==
  /\ chunks \in Seq(Handle) /\ size \in Nat /\ files \in 1..MaxFiles
  /\ \E H \in SUBSET Handle : location \in [H -> Seq(Server)]
  /\ whole \subseteq DOMAIN location
  /\ \A s \in Server : \E H \in SUBSET Handle : disk[s] \in [H -> Seq(Unit)]
  /\ \A c \in Client :
       /\ DOMAIN cache[c] \subseteq 0..MaxHandle
       /\ \A i \in DOMAIN cache[c] : cache[c][i] \in Entry
       /\ op[c] \in Op /\ op[c].offset < ChunkSize
  /\ count \in 0..MaxOps
  /\ faults \in 0..MaxFaults
  /\ acked \subseteq Ack /\ disturbed \in BOOLEAN

Init ==
  /\ chunks = <<>> /\ size = 0 /\ files = 1
  /\ location = <<>> /\ whole = {}
  /\ disk = [s \in Server |-> <<>>]
  /\ cache = [c \in Client |-> <<>>]
  /\ op = [c \in Client |-> Idle] /\ count = 0
  /\ faults = 0 /\ acked = {} /\ disturbed = FALSE

-----------------------------------------------------------------------------

Least(m, n) == IF m < n THEN m ELSE n
Most(m, n) == IF m < n THEN n ELSE m

\* The bytes of a chunk after a write, zeros where nothing was written.
Overwritten(file, offset, data) ==
  [i \in 1..Most(Len(file), offset + Len(data)) |->
     IF i \in offset + 1..offset + Len(data) THEN data[i - offset]
     ELSE IF i <= Len(file) THEN file[i] ELSE 0]

\* The part of what is left that lies in the chunk at hand.
Start(o) == o.from % ChunkSize
Stop(o) == Least(o.to, (o.index + 1) * ChunkSize)

Busy(c) == op[c].at # "idle" /\ op[c].kind # "read"

\* The next attempt, with the entry removed from the cache.
Retry(c, index) ==
  LET o == op[c]
  IN  /\ op' = [op EXCEPT ![c] =
           IF o.tries = MaxTries THEN Idle
           ELSE [o EXCEPT !.at = "resolve", !.tries = o.tries + 1,
                          !.index = index]]
      /\ cache' = [cache EXCEPT ![c] = Restrict(@, DOMAIN @ \ {o.index})]

\* The entry is kept in the cache.
Keep(c, index, entry) ==
  cache' = [cache EXCEPT ![c] =
    [i \in DOMAIN @ \cup {index} |-> IF i = index THEN entry ELSE @[i]]]

Works == UNCHANGED faults
Fails == faults < MaxFaults /\ faults' = faults + 1

-----------------------------------------------------------------------------
(* An operation begins.                                                    *)

\* Append begins with the last chunk there is.
BeginAppend(c) ==
  /\ op[c].at = "idle" /\ count < MaxOps
  /\ op' = [op EXCEPT ![c] =
       [Idle EXCEPT !.at = "resolve", !.kind = "append", !.tries = 1,
                    !.record = count + 1, !.size = size, !.index = Most(Len(chunks), 1) - 1]]
  /\ count' = count + 1
  /\ disturbed' = (disturbed \/ \E d \in Client : Busy(d))
  /\ UNCHANGED <<master, disk, cache, faults, acked>>

\* A write does not look the file up.
BeginWrite(c, r) ==
  /\ op[c].at = "idle" /\ count < MaxOps
  /\ op' = [op EXCEPT ![c] =
       [Idle EXCEPT !.at = "resolve", !.kind = "write", !.tries = MaxTries,
                    !.record = count + 1, !.from = r[1], !.to = r[2],
                    !.index = r[1] \div ChunkSize]]
  /\ count' = count + 1
  /\ disturbed' = (disturbed \/ acked # {} \/ \E d \in Client : Busy(d))
  /\ UNCHANGED <<master, disk, cache, faults, acked>>

\* A read is cut to the size of the file.
BeginRead(c, r) ==
  /\ op[c].at = "idle" /\ count < MaxOps /\ r[1] < size
  /\ op' = [op EXCEPT ![c] =
       [Idle EXCEPT !.at = "resolve", !.tries = MaxTries,
                    !.from = r[1], !.to = Least(r[2], size),
                    !.index = r[1] \div ChunkSize]]
  /\ count' = count + 1
  /\ UNCHANGED <<master, disk, cache, faults, history>>

-----------------------------------------------------------------------------
(* ResolveOrAllocateChunk and ResolveChunk.                                *)

\* Variant with a fault: the location of the first chunk is kept.
ResolvedOnce(o, entry) ==
  [o EXCEPT !.at = IF o.kind = "append" THEN "check" ELSE "write",
            !.handle = IF @ = 0 THEN entry.handle ELSE @,
            !.servers = entry.servers, !.todo = entry.servers]

\* What comes after the chunk is known.
Resolved(o, entry) ==
  [o EXCEPT !.at = IF o.kind = "append" THEN "check" ELSE "write",
            !.handle = entry.handle, !.servers = entry.servers,
            !.todo = entry.servers]

UseCached(c) ==
  /\ op[c].at = "resolve" /\ op[c].index \in DOMAIN cache[c]
  /\ op' = [op EXCEPT ![c] = Resolved(op[c], cache[c][op[c].index])]
  /\ UNCHANGED <<master, disk, cache, count, faults, history>>

\* LookupChunk finds the chunk, though perhaps without replicas.
Lookup(c) ==
  LET o == op[c]
      h == chunks[o.index + 1]
      entry == [handle |-> h, servers |-> location[h]]
  IN  /\ o.at = "resolve" /\ o.index \notin DOMAIN cache[c]
      /\ o.index < Len(chunks)
      /\ IF location[h] = <<>> THEN Retry(c, o.index)
         ELSE /\ Keep(c, o.index, entry)
              /\ op' = [op EXCEPT ![c] = Resolved(o, entry)]
      /\ UNCHANGED <<master, disk, count, faults, history>>

\* LookupChunk finds none; MasterClient.AllocateChunk looks the file up, and
\* asks for a chunk if the one wanted is the next one.
LookupNone(c) ==
  LET o == op[c]
  IN  /\ o.at = "resolve" /\ o.index \notin DOMAIN cache[c]
      /\ o.index >= Len(chunks)
      /\ IF o.kind # "read" /\ o.index = Len(chunks)
         THEN /\ op' = [op EXCEPT ![c].at = "allocate"]
              /\ UNCHANGED cache
         ELSE Retry(c, o.index)
      /\ UNCHANGED <<master, disk, count, faults, history>>

\* Any call of the master fails, with no effect.
LookupFails(c) ==
  /\ op[c].at \in {"resolve", "allocate", "check", "plan"}
  /\ op[c].at = "resolve" => op[c].index \notin DOMAIN cache[c]
  /\ Fails /\ Retry(c, op[c].index)
  /\ UNCHANGED <<master, disk, count, history>>

\* A chunk at the end of the file, created on some servers.
AddChunk(h, created, servers) ==
  /\ chunks' = Append(chunks, h)
  /\ location' = [g \in DOMAIN location \cup {h} |->
       IF g = h THEN servers ELSE location[g]]
  /\ disk' = [s \in Server |->
       [g \in DOMAIN disk[s] \cup (IF s \in created THEN {h} ELSE {}) |->
          IF g = h THEN <<>> ELSE disk[s][g]]]

\* The master adds a chunk to the end of the file, whatever end the client
\* had in mind, and creates it on the servers.  When one of them fails, the
\* chunk is listed nowhere; the answer may be lost in any case.
Allocate(c) ==
  LET o == op[c]
      h == Cardinality(DOMAIN location) + 1
      entry(servers) == [handle |-> h, servers |-> servers]
  IN  /\ o.at = "allocate" /\ h <= MaxHandle
      /\ \/ \E servers \in SetToSeqs(Server) :
              /\ AddChunk(h, Server, servers)
              /\ whole' = whole \cup {h}
              /\ \/ /\ Works /\ Keep(c, o.index, entry(servers))
                    /\ op' = [op EXCEPT ![c] = Resolved(o, entry(servers))]
                 \/ Fails /\ Retry(c, o.index)
         \/ \E S \in SUBSET Server :
              /\ AddChunk(h, S, <<>>)
              /\ Fails /\ Retry(c, o.index)
              /\ UNCHANGED whole
      /\ UNCHANGED <<size, files, count, history>>

-----------------------------------------------------------------------------
(* RecordAppender.Append.                                                  *)

\* Variant with a fault: a cached location is trusted.
CheckNothing(c) ==
  /\ op[c].at = "check"
  /\ op' = [op EXCEPT ![c].at = "plan"]
  /\ UNCHANGED <<master, disk, cache, count, faults, history>>

\* The chunk must still be the one that was resolved.
CheckHandle(c) ==
  LET o == op[c]
  IN  /\ o.at = "check"
      /\ IF o.index < Len(chunks) /\ chunks[o.index + 1] = o.handle
         THEN /\ op' = [op EXCEPT ![c].at = "plan"]
              /\ UNCHANGED cache
         ELSE Retry(c, o.index)
      /\ UNCHANGED <<master, disk, count, faults, history>>

\* Variant with a fault: the end of the chunk counts as room.
AlmostFits(offset) == offset <= ChunkSize

Fits(offset) == offset + 1 <= ChunkSize

\* The append function looks the file up once more: the record goes to its
\* end, or to the next chunk if the end leaves no room in this one.
PlanAppend(c) ==
  LET o == op[c]
      places == {i \in DOMAIN chunks : chunks[i] = o.handle}
      base == ((CHOOSE i \in places : \A j \in places : i <= j) - 1)
              * ChunkSize
      offset == IF size < base THEN 0 ELSE size - base
  IN  /\ o.at = "plan"
      /\ IF places = {} THEN Retry(c, o.index)
         ELSE IF ~Fits(offset) THEN Retry(c, o.index + 1)
         ELSE /\ op' = [op EXCEPT ![c].at = "write", ![c].offset = offset]
              /\ UNCHANGED cache
      /\ UNCHANGED <<master, disk, count, faults, history>>

\* WriteChunk on the next replica.
Written(s, h, offset, data) ==
  /\ h \in DOMAIN disk[s] /\ offset + Len(data) <= ChunkSize
  /\ disk' = [disk EXCEPT ![s][h] = Overwritten(@, offset, data)]

\* Variant with a fault: a secondary that fails is left behind.
AppendToPrimary(c) ==
  LET o == op[c]
      put == Written(Head(o.todo), o.handle, o.offset, <<o.record>>)
  IN  /\ o.at = "write" /\ o.kind = "append"
      /\ \/ put /\ Works
         \/ o.todo # o.servers /\ Fails /\ UNCHANGED disk
      /\ op' = [op EXCEPT ![c].todo = Tail(@),
                  ![c].at = IF Len(o.todo) = 1 THEN "size" ELSE @]
      /\ UNCHANGED <<master, cache, count, history>>

\* An append needs every replica, the first one first.
AppendToReplica(c) ==
  LET o == op[c]
      put == Written(Head(o.todo), o.handle, o.offset, <<o.record>>)
  IN  /\ o.at = "write" /\ o.kind = "append"
      /\ \/ /\ put /\ Works
            /\ op' = [op EXCEPT ![c].todo = Tail(@),
                        ![c].at = IF Len(o.todo) = 1 THEN "size" ELSE @]
            /\ UNCHANGED cache
         \/ /\ put \/ UNCHANGED disk
            /\ Fails /\ Retry(c, o.index)
      /\ UNCHANGED <<master, count, history>>

\* The size becomes the end of the record, or stays what it was when the
\* append began.
AppendSize(c) ==
  LET o == op[c]
      end == o.index * ChunkSize + o.offset + 1
      ack == [record |-> o.record, index |-> o.index, offset |-> o.offset,
              handle |-> o.handle, servers |-> Range(o.servers)]
  IN  /\ o.at = "size" /\ o.kind = "append"
      /\ \/ /\ Works
            /\ size' = Most(o.size, end)
            /\ acked' = IF o.stale THEN acked ELSE acked \cup {ack}
         \/ /\ Fails
            /\ size' \in {size, Most(o.size, end)}
            /\ UNCHANGED acked
      /\ op' = [op EXCEPT ![c] = Idle]
      /\ UNCHANGED <<chunks, files, location, whole, disk, cache, count,
                     disturbed>>

-----------------------------------------------------------------------------
(* Writer and Reader.                                                      *)

\* What is left after the chunk at hand.
NextChunk(o) ==
  [o EXCEPT !.from = Stop(o), !.index = o.index + 1, !.got = <<>>,
            !.at = IF Stop(o) < o.to THEN "resolve"
                   ELSE IF o.kind = "write" THEN "size" ELSE "idle"]

\* One replica is enough for a write: the first one that answers.
WriteToReplica(c) ==
  LET o == op[c]
      data == [i \in 1..Stop(o) - o.from |-> o.record]
      put == Written(Head(o.todo), o.handle, Start(o), data)
  IN  /\ o.at = "write" /\ o.kind = "write"
      /\ \/ /\ put /\ Works
            /\ op' = [op EXCEPT ![c] = NextChunk(o)]
         \/ /\ Fails /\ (put \/ UNCHANGED disk)
            /\ op' = [op EXCEPT ![c] =
                 IF Len(o.todo) = 1 THEN Idle
                 ELSE [o EXCEPT !.todo = Tail(o.todo)]]
      /\ UNCHANGED <<master, cache, count, history>>

\* The size becomes the end of what was written, even if that is less than
\* what others are reading.
WriteSize(c) ==
  /\ op[c].at = "size" /\ op[c].kind = "write"
  /\ \/ Works /\ size' = op[c].to
     \/ Fails /\ size' \in {size, op[c].to}
  /\ op' = [d \in Client |->
       IF d = c THEN Idle
       ELSE [op[d] EXCEPT !.stale =
               op[d].stale \/ (~Busy(d) /\ size' < op[d].to)]]
  /\ UNCHANGED <<chunks, files, location, whole, disk, cache, count, history>>

\* A replica answers a read if its chunk is long enough.
Answers(s, h, end) == h \in DOMAIN disk[s] /\ end <= Len(disk[s][h])

ReadReplica(c) ==
  LET o == op[c]
      s == Head(o.todo)
      end == Start(o) + (Stop(o) - o.from)
  IN  /\ o.at = "write" /\ o.kind = "read"
      /\ \/ /\ Works
            /\ Answers(s, o.handle, end)
            /\ op' = [op EXCEPT ![c].at = "took",
                 ![c].got = SubSeq(disk[s][o.handle], Start(o) + 1, end)]
         \/ /\ \/ Fails
               \/ Works /\ ~Answers(s, o.handle, end)
            /\ op' = [op EXCEPT ![c] = IF Len(o.todo) = 1 THEN Idle
                                       ELSE [o EXCEPT !.todo = Tail(o.todo)]]
      /\ UNCHANGED <<master, disk, cache, count, history>>

ReadOn(c) ==
  LET o == op[c]
  IN  /\ o.at = "took"
      /\ op' = [op EXCEPT ![c] =
           IF Stop(o) < o.to THEN NextChunk(o) ELSE Idle]
      /\ UNCHANGED <<master, disk, cache, count, faults, history>>

-----------------------------------------------------------------------------
(* What happens around the clients.                                        *)

\* A heartbeat lists a server for every chunk it has a file of.
Heartbeat(s) ==
  /\ \E h \in DOMAIN disk[s] : s \notin Range(location[h])
  /\ location' = [h \in DOMAIN location |->
       IF h \in DOMAIN disk[s] /\ s \notin Range(location[h])
       THEN Append(location[h], s) ELSE location[h]]
  /\ UNCHANGED <<chunks, size, files, whole, disk, cache, op, count, faults, history>>

\* The file is deleted and created again.
Recreate ==
  /\ files < MaxFiles
  /\ files' = files + 1
  /\ chunks' = <<>> /\ size' = 0 /\ acked' = {}
  /\ op' = [c \in Client |->
       IF op[c].at = "idle" THEN op[c] ELSE [op[c] EXCEPT !.stale = TRUE]]
  /\ disturbed' = (disturbed \/ \E c \in Client : Busy(c))
  /\ UNCHANGED <<location, whole, disk, cache, count, faults>>

-----------------------------------------------------------------------------

Step(c) ==
  \/ BeginAppend(c)
  \/ \E r \in Ranges : BeginWrite(c, r) \/ BeginRead(c, r)
  \/ UseCached(c) \/ Lookup(c) \/ LookupNone(c) \/ LookupFails(c)
  \/ Allocate(c)
  \/ CheckHandle(c) \/ PlanAppend(c) \/ AppendToReplica(c) \/ AppendSize(c)
  \/ WriteToReplica(c) \/ WriteSize(c) \/ ReadReplica(c) \/ ReadOn(c)

Next ==
  \/ \E c \in Client : Step(c)
  \/ \E s \in Server : Heartbeat(s)
  \/ Recreate

Spec == Init /\ [][Next]_vars

-----------------------------------------------------------------------------
(* Properties.                                                             *)

\* Where an append says its record is, there is the chunk it was written to,
\* also when several clients append at the same time, allocate the same chunk
\* twice and use locations cached before the file was deleted; unless the file
\* was deleted during the append.
AppendsWhereSaid ==
  \A a \in acked : a.index < Len(chunks) /\ chunks[a.index + 1] = a.handle

\* As long as appends and writes do not overlap, and nothing is written over
\* what was appended, a record whose append returned true is kept by all the
\* replicas the client knew of, within the size of the file, whatever calls
\* failed before and after.
AcknowledgedKept ==
  ~disturbed =>
    \A a \in acked :
      /\ a.index * ChunkSize + a.offset < size
      /\ \A s \in a.servers :
           /\ a.offset < Len(disk[s][a.handle])
           /\ disk[s][a.handle][a.offset + 1] = a.record

\* Under the same condition, a read that covers the offset of such a record
\* returns that record, from whichever replica and with whatever cache; unless
\* the file was deleted or made shorter during the read, the client still has
\* the location of a file deleted since, or the chunk has replicas that were
\* left over by a failed allocation.
ReadsAcknowledged ==
  \A c \in Client : \A a \in acked :
    LET o == op[c]
        i == a.offset - Start(o) + 1
    IN  /\ ~disturbed /\ o.at = "took" /\ ~o.stale
        /\ o.handle \in whole \cap Range(chunks)
        /\ o.index = a.index /\ i \in DOMAIN o.got
        => o.got[i] = a.record

=============================================================================
