------------------------------ MODULE Mutation ------------------------------
(***************************************************************************)
(* Mutations of one chunk (chunkserver/mutation/mutation_manager.cpp): a   *)
(* MutationManager per replica, the calls that make a replica act as the   *)
(* primary, and the propagation of a mutation to the other replicas, which *)
(* the caller of the primary supplies as a function (the record append of  *)
(* benchmark/benchmark.cpp is the one modelled).                           *)
(*                                                                         *)
(* The mutex of a MutationManager is held while an identifier is assigned  *)
(* and the mutation is written to the chunk, while the pending slot is     *)
(* looked at, and while it is set; each of these is one action.  It is not *)
(* held while the size of the chunk is read and while a mutation is        *)
(* propagated.  A replica's chunk is what the mutations written to it, in  *)
(* the order of `written', leave of the Start bytes it had before.         *)
(***************************************************************************)
EXTENDS Naturals, Sequences, Functions

CONSTANTS
  Replicas,     \* the replicas of the chunk, in the order a caller visits them
  Leader,       \* the replicas that callers may take for the primary
  Caller,       \* calls in progress at the same time
  Data,         \* the records appended and written
  Length,       \* the length of each of them
  Padding,      \* the zeros that fill up a chunk
  Nothing,      \* no mutation
  ChunkSize,    \* kChunkSize
  Start,        \* size of every replica at the beginning
  Offset,       \* the offsets of the writes that are not appends
  Fault,        \* what can go wrong: "request", "reply", "disk"
  MaxFaults,    \* bound on how often each of them does
  MaxRestarts,  \* bound on the restarts of a chunkserver
  MaxId         \* bound on mutation identifiers

ASSUME ReplicaAssumption ==
  /\ Replicas \in Seq(Range(Replicas)) /\ IsInjective(Replicas)
  /\ Leader \subseteq Range(Replicas)

ASSUME MutationAssumption ==
  /\ ChunkSize \in Nat /\ Start \in 0..ChunkSize /\ Offset \subseteq Nat
  /\ Length \in [Data -> {n \in Nat \ {0} : 4 * n <= ChunkSize}]
  /\ Padding \notin Data
  /\ Fault \subseteq {"request", "reply", "disk"}
  /\ MaxFaults \in Nat /\ MaxRestarts \in Nat /\ MaxId \in Nat

Replica == Range(Replicas)

VARIABLES
  nextId,    \* next_mutation_ids_ of each replica
  lastId,    \* last_applied_mutation_ids_
  pending,   \* pending_propagations_
  written,   \* the mutations written to the chunk, the oldest first
  call,      \* the calls in progress
  acked,     \* the appends that were reported to have succeeded
  faults,    \* how often each kind of fault has happened
  restarts

managers == <<nextId, lastId, pending>>
vars == <<nextId, lastId, pending, written, call, acked, faults, restarts>>

Mutation ==
  [id : Nat, offset : 0..ChunkSize, end : 0..ChunkSize,
   data : Data \cup {Padding}]

\* An empty slot is told apart from any mutation.
ASSUME NothingAssumption == Nothing \notin Mutation

\* A call: where its thread is, what it does with the mutation it holds, the
\* replica acting as primary, the position in Replicas of the next replica to
\* propagate to, and what the last call of this caller returned.
Call ==
  [pc : {"idle", "measure", "apply", "propagate", "fail"},
   kind : {"pending", "record", "padding", "write"},
   primary : Replica \cup {Nothing},
   data : Data \cup {Nothing},
   mutation : Mutation \cup {Nothing},
   to : Nat,
   reply : {"Success", "RetryNextChunk", "Failed"}]

NoCall(reply) ==
  [pc |-> "idle", kind |-> "record", primary |-> Nothing, data |-> Nothing,
   mutation |-> Nothing, to |-> 0, reply |-> reply]

TypeOK ==
  /\ nextId \in [Replica -> Nat]
  /\ lastId \in [Replica -> Nat]
  /\ pending \in [Replica -> Mutation \cup {Nothing}]
  /\ written \in [Replica -> Seq(Mutation)]
  /\ call \in [Caller -> Call]
  /\ acked \subseteq Mutation
  /\ faults \in [Fault -> Nat]
  /\ restarts \in Nat

Init ==
  /\ nextId = [r \in Replica |-> 1]
  /\ lastId = [r \in Replica |-> 0]
  /\ pending = [r \in Replica |-> Nothing]
  /\ written = [r \in Replica |-> <<>>]
  /\ call = [c \in Caller |-> NoCall("Failed")]
  /\ acked = {}
  /\ faults = [f \in Fault |-> 0]
  /\ restarts = 0

-----------------------------------------------------------------------------

\* Variant with a fault: the size does not grow with what is written.
SizeAtOpen(r) == Start

\* The size of the chunk on replica r.
SizeOn(r) ==
  LET ends == {Start} \cup {m.end : m \in Range(written[r])}
  IN  CHOOSE n \in ends : \A e \in ends : e <= n

\* Variant with a fault: off by one.
AlmostFits(size, d) == size + Length[d] <= ChunkSize + 1

Fits(size, d) == size + Length[d] <= ChunkSize

\* Variant with a fault: the position is always moved on.
SkipOne(p, i) == i + 1

\* The position in Replicas to go on from, past the primary itself.
SkipPrimary(p, i) ==
  IF i \in DOMAIN Replicas /\ Replicas[i] = p THEN i + 1 ELSE i

\* Variant with a fault: a gap in the identifiers is accepted.
AcceptsAnyLater(r, m) == m.id > lastId[r]

Accepts(r, m) == m.id = lastId[r] + 1

\* What an accepted mutation leaves behind on replica r.
Write(r, m) ==
  /\ written' = [written EXCEPT ![r] = Append(@, m)]
  /\ lastId' = [lastId EXCEPT ![r] = m.id]

GoesWrong(fault) ==
  /\ fault \in Fault
  /\ faults[fault] < MaxFaults
  /\ faults' = [faults EXCEPT ![fault] = @ + 1]

Return(c, reply) == call' = [call EXCEPT ![c] = NoCall(reply)]

-----------------------------------------------------------------------------
(* The steps of a call.                                                    *)

\* ExecutePrimaryRecordAppend, up to the look at the pending slot.
BeginAppend(c, p, d) ==
  /\ call[c].pc = "idle"
  /\ call' = [call EXCEPT ![c] =
       [pc |-> IF pending[p] = Nothing THEN "measure" ELSE "propagate",
        kind |-> IF pending[p] = Nothing THEN "record" ELSE "pending",
        primary |-> p, data |-> d, mutation |-> pending[p],
        to |-> SkipPrimary(p, 1), reply |-> @.reply]]
  /\ UNCHANGED <<managers, written, acked, faults, restarts>>

\* ExecutePrimaryMutation, up to the mutex.
BeginWrite(c, p, offset, d) ==
  /\ call[c].pc = "idle"
  /\ Fits(offset, d)
  /\ call' = [call EXCEPT ![c] =
       [pc |-> "apply", kind |-> "write", primary |-> p, data |-> d,
        mutation |-> [id |-> 0, offset |-> offset,
                      end |-> offset + Length[d], data |-> d],
        to |-> SkipPrimary(p, 1), reply |-> @.reply]]
  /\ UNCHANGED <<managers, written, acked, faults, restarts>>

\* The size is read without the mutex.  A record that does not fit is put
\* off to the next chunk, and the rest of this one is filled up.
Measure(c) ==
  LET size == SizeOn(call[c].primary)
      d == call[c].data
      fits == Fits(size, d)
  IN  /\ call[c].pc = "measure"
      /\ IF ~fits /\ size = ChunkSize
         THEN Return(c, "RetryNextChunk")
         ELSE call' = [call EXCEPT
                ![c].pc = "apply",
                ![c].kind = IF fits THEN "record" ELSE "padding",
                ![c].mutation =
                  [id |-> 0, offset |-> size,
                   end |-> IF fits THEN size + Length[d] ELSE ChunkSize,
                   data |-> IF fits THEN d ELSE Padding],
                ![c].to = SkipPrimary(call[c].primary, 1)]
      /\ UNCHANGED <<managers, written, acked, faults, restarts>>

\* An identifier is assigned and the mutation written, in one hold of the
\* mutex.  The identifier is used up when that fails, too.
Apply(c) ==
  LET p == call[c].primary
      m == [call[c].mutation EXCEPT !.id = nextId[p]]
  IN  /\ call[c].pc = "apply"
      /\ nextId[p] <= MaxId
      /\ nextId' = [nextId EXCEPT ![p] = @ + 1]
      /\ \/ /\ Accepts(p, m)
            /\ Write(p, m)
            /\ call' = [call EXCEPT ![c].pc = "propagate", ![c].mutation = m]
            /\ UNCHANGED faults
         \/ /\ IF Accepts(p, m) THEN GoesWrong("disk") ELSE UNCHANGED faults
            /\ Return(c, "Failed")
            /\ UNCHANGED <<lastId, written>>
      /\ UNCHANGED <<pending, acked, restarts>>

\* ApplyMutation on the next replica, and its answer.
Deliver(c) ==
  LET s == Replicas[call[c].to]
      m == call[c].mutation
      answered == [call EXCEPT
                     ![c].to = SkipPrimary(call[c].primary, call[c].to + 1)]
      failed == [call EXCEPT ![c].pc = "fail"]
      received ==
        /\ Accepts(s, m)
        /\ Write(s, m)
        /\ nextId' = [nextId EXCEPT ![s] = IF @ <= m.id THEN m.id + 1 ELSE @]
  IN  /\ call[c].pc = "propagate" /\ call[c].to \in DOMAIN Replicas
      /\ \/ received /\ call' = answered /\ UNCHANGED faults
         \/ received /\ call' = failed /\ GoesWrong("reply")
         \/ /\ call' = failed
            /\ IF Accepts(s, m) THEN GoesWrong("request") \/ GoesWrong("disk")
               ELSE UNCHANGED faults
            /\ UNCHANGED <<nextId, lastId, written>>
      /\ UNCHANGED <<pending, acked, restarts>>

\* Variant with a fault: the slot is not emptied.
PendingStill(p, m) == pending

\* The pending slots once m has been propagated from p.
PendingAfter(p, m) ==
  [pending EXCEPT ![p] = IF @ = m THEN Nothing ELSE @]

\* Every replica has applied the mutation.
Propagated(c) ==
  LET p == call[c].primary
      m == call[c].mutation
  IN  /\ call[c].pc = "propagate" /\ call[c].to \notin DOMAIN Replicas
      /\ IF call[c].kind = "pending"
         THEN /\ pending' = PendingAfter(p, m)
              /\ call' = [call EXCEPT ![c].pc = "measure",
                                      ![c].kind = "record",
                                      ![c].mutation = Nothing]
         ELSE /\ Return(c, IF call[c].kind = "padding" THEN "RetryNextChunk"
                           ELSE "Success")
              /\ UNCHANGED pending
      /\ acked' = IF call[c].kind = "record" THEN acked \cup {m} ELSE acked
      /\ UNCHANGED <<nextId, lastId, written, faults, restarts>>

\* Variant with a fault: the mutation is not kept.
NotPropagatedForgotten(c) ==
  /\ call[c].pc = "fail"
  /\ Return(c, "Failed")
  /\ UNCHANGED <<managers, written, acked, faults, restarts>>

\* Some replica has not, or did not say so.
NotPropagated(c) ==
  LET p == call[c].primary
  IN  /\ call[c].pc = "fail"
      /\ pending' = IF call[c].kind \in {"record", "padding"}
                    THEN [pending EXCEPT ![p] = call[c].mutation] ELSE pending
      /\ Return(c, "Failed")
      /\ UNCHANGED <<nextId, lastId, written, acked, faults, restarts>>

\* A chunkserver restarts: the chunk is on disk, the maps are not, and the
\* calls it was serving fail.
Restart(r) ==
  /\ restarts < MaxRestarts
  /\ restarts' = restarts + 1
  /\ nextId' = [nextId EXCEPT ![r] = 1]
  /\ lastId' = [lastId EXCEPT ![r] = 0]
  /\ pending' = [pending EXCEPT ![r] = Nothing]
  /\ call' = [c \in Caller |->
                IF call[c].primary = r THEN NoCall("Failed") ELSE call[c]]
  /\ UNCHANGED <<written, acked, faults>>

Step(c) ==
  Measure(c) \/ Apply(c) \/ Deliver(c) \/ Propagated(c) \/ NotPropagated(c)

Retry(c) == \E p \in Leader, d \in Data : BeginAppend(c, p, d)

Next ==
  \/ \E c \in Caller : Retry(c) \/ Step(c)
  \/ \E c \in Caller, p \in Leader, offset \in Offset, d \in Data :
       BeginWrite(c, p, offset, d)
  \/ \E r \in Replica : Restart(r)

Spec == Init /\ [][Next]_vars

\* Calls go on until they return, and a client that got no answer tries again.
Fairness == \A c \in Caller : WF_vars(Step(c)) /\ WF_vars(Retry(c))

FairSpec == Spec /\ Fairness

-----------------------------------------------------------------------------
(* Properties.                                                             *)

OnePrimary == \A p, q \in Leader : p = q
OneAtATime == \A c, d \in Caller : c = d

\* As long as one replica remains the primary and no chunkserver restarts,
\* every replica applies the primary's mutations in the primary's order and
\* leaves none out, although they are propagated outside the mutex.
MutationOrder ==
  (restarts = 0 /\ OnePrimary) =>
    \A p \in Leader, s \in Replica :
      /\ Len(written[s]) <= Len(written[p])
      /\ \A i \in 1..Len(written[s]) : written[s][i] = written[p][i]

\* A record whose append was reported to have succeeded was written to every
\* replica, under the same identifier and at the same offset, whichever
\* replica was the primary and whatever failed on the way.
AcknowledgedEverywhere ==
  \A m \in acked, r \in Replica : m \in Range(written[r])

Disjoint(m, n) == m.end <= n.offset \/ n.end <= m.offset

\* As long as one replica remains the primary and one client appends, a
\* record whose append was reported to have succeeded can be read at its
\* offset on every replica: nothing written later covers any of it, whoever
\* restarts.  It is stated for chunks that are only appended to (Offset = {}):
\* README.md:519, "an atomic append-at-least-once operation".
AcknowledgedReadable ==
  (Offset = {} /\ OnePrimary /\ OneAtATime) =>
  \A m \in acked, r \in Replica :
    \E i \in DOMAIN written[r] :
      /\ written[r][i] = m
      /\ \A j \in DOMAIN written[r] : j > i => Disjoint(m, written[r][j])

\* Until a chunkserver restarts, an appended record that one replica has and
\* another lacks is not forgotten: when no call is in progress, some replica
\* keeps it as its pending mutation (mutation_manager.hpp:109-114).  The slot
\* holds one mutation, so this is for one appender at a time, and writes that
\* are not appends are never kept.
OutstandingRetained ==
  (/\ restarts = 0 /\ Offset = {} /\ OneAtATime
   /\ \A c \in Caller : call[c].pc = "idle") =>
    \A r, s \in Replica : \A m \in Range(written[r]) \ Range(written[s]) :
      \E q \in Replica : pending[q] = m

\* When nothing fails but requests that do not reach a replica, and nobody
\* restarts, a client that tries again gets its record appended, or is sent to
\* the next chunk, sooner or later: a mutation that reached some replicas only
\* does not stand in the way for ever (mutation_manager.cpp:121-131).
AppendsSucceed ==
  [](restarts = 0 /\ \A f \in Fault \ {"request"} : faults[f] = 0) =>
    \A c \in Caller : []<>(call[c].reply \in {"Success", "RetryNextChunk"})

=============================================================================
