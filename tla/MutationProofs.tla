--------------------------- MODULE MutationProofs ---------------------------
(***************************************************************************)
(* What mutations guarantee for any number of replicas, callers, failures  *)
(* and restarts: types, the order in which replicas apply them, and that   *)
(* an append reported to have succeeded reached every replica.             *)
(***************************************************************************)
EXTENDS Mutation, SequenceTheorems, WellFoundedInduction, TLAPS

\* What a call holds at each point of its thread.
CallOK(c) ==
  call[c].pc # "idle" =>
    /\ call[c].primary \in Replica
    /\ call[c].data \in Data
    /\ call[c].pc # "measure" => call[c].mutation \in Mutation

TypeInv == TypeOK /\ \A c \in Caller : CallOK(c)

-----------------------------------------------------------------------------
(* Types.                                                                  *)

\* The size of a chunk is within the limit, and nothing ends behind it.
LEMMA SizeBounded ==
  ASSUME TypeOK, NEW r \in Replica
  PROVE  /\ SizeOn(r) \in 0..ChunkSize
         /\ \A m \in Range(written[r]) : m.end <= SizeOn(r)
<1> DEFINE ends == {Start} \cup {m.end : m \in Range(written[r])}
           T == {ChunkSize - e : e \in ends}
<1>1. ChunkSize \in Nat /\ Start \in 0..ChunkSize
  BY MutationAssumption
<1>2. ends \subseteq 0..ChunkSize
  <2>1. written[r] \in Seq(Mutation)
    BY DEF TypeOK
  <2>2. \A m \in Range(written[r]) : m \in Mutation
    BY <2>1, ElementOfSeq, LenProperties DEF Range
  <2> QED BY <1>1, <2>2 DEF Mutation
<1>3. T \subseteq Nat /\ T # {}
  BY <1>1, <1>2
<1>4. PICK n \in T : \A m \in T : ~(<<m, n>> \in OpToRel(<, Nat))
  <2> HIDE DEF T
  <2> QED BY <1>3, NatLessThanWellFounded, WFMin
<1>5. \A m \in T : n <= m
  <2> HIDE DEF T
  <2>1. \A m \in T : ~(m < n)
    BY <1>3, <1>4, Zenon DEF OpToRel
  <2> QED BY <1>3, <2>1
<1>6. PICK k \in ends : n = ChunkSize - k
  OBVIOUS
<1>7. \A e \in ends : e <= k
  <2> TAKE e \in ends
  <2>1. n <= ChunkSize - e
    BY <1>5
  <2> QED BY <1>1, <1>2, <1>6, <2>1
<1>8. SizeOn(r) \in ends /\ \A e \in ends : e <= SizeOn(r)
  BY <1>7 DEF SizeOn
<1> QED BY <1>2, <1>8

\* Writing a mutation adds it to what was written before.
LEMMA WriteGrows ==
  ASSUME TypeOK, NEW r \in Replica, NEW m \in Mutation, Write(r, m)
  PROVE  /\ written' \in [Replica -> Seq(Mutation)]
         /\ lastId' \in [Replica -> Nat]
         /\ \A q \in Replica : Range(written[q]) \subseteq Range(written'[q])
         /\ m \in Range(written'[r])
<1>1. written[r] \in Seq(Mutation)
  BY DEF TypeOK
<1>2. /\ Append(written[r], m) \in Seq(Mutation)
      /\ Range(written[r]) \cup {m} \subseteq Range(Append(written[r], m))
  BY <1>1, AppendProperties, LenProperties DEF Range
<1>3. m.id \in Nat
  BY DEF Mutation
<1> QED BY <1>2, <1>3 DEF Write, TypeOK

\* A call that returns is idle.
LEMMA ReturnOK ==
  ASSUME TypeInv, NEW c \in Caller, NEW reply \in {"Success", "RetryNextChunk", "Failed"},
         Return(c, reply)
  PROVE  call' \in [Caller -> Call] /\ \A d \in Caller : CallOK(d)'
BY DEF TypeInv, TypeOK, Return, NoCall, Call, CallOK

\* A call that goes on holds what its next step needs.
LEMMA GoesOnOK ==
  ASSUME TypeInv, NEW c \in Caller, NEW k \in Call,
         k.primary \in Replica, k.data \in Data,
         k.pc # "measure" => k.mutation \in Mutation,
         call' = [call EXCEPT ![c] = k]
  PROVE  call' \in [Caller -> Call] /\ \A d \in Caller : CallOK(d)'
BY DEF TypeInv, TypeOK, CallOK

\* Faults are counted in natural numbers.
LEMMA FaultsType ==
  ASSUME TypeInv, NEW f, GoesWrong(f)
  PROVE  faults' \in [Fault -> Nat]
BY DEF GoesWrong, TypeInv, TypeOK

\* Positions stay natural numbers.
LEMMA SkipPrimaryType ==
  ASSUME NEW p, NEW i \in Nat
  PROVE  SkipPrimary(p, i) \in {i, i + 1}
BY DEF SkipPrimary

\* The first steps of a call keep the types.
LEMMA BeginType ==
  ASSUME TypeInv, NEW c \in Caller, NEW p \in Replica, NEW d \in Data,
         NEW offset \in Nat,
         BeginAppend(c, p, d) \/ BeginWrite(c, p, offset, d)
  PROVE  TypeInv'
<1>1. SkipPrimary(p, 1) \in Nat
  BY SkipPrimaryType
<1>2. CASE BeginAppend(c, p, d)
  <2>1. pending[p] = Nothing \/ pending[p] \in Mutation
    BY DEF TypeInv, TypeOK
  <2>2. call' \in [Caller -> Call]
    BY <1>1, <1>2, <2>1 DEF BeginAppend, TypeInv, TypeOK, Call
  <2>3. \A e \in Caller : CallOK(e)'
    BY <1>2, <2>1 DEF BeginAppend, TypeInv, TypeOK, CallOK
  <2> QED BY <1>2, <2>2, <2>3 DEF BeginAppend, TypeInv, TypeOK, managers
<1>3. CASE BeginWrite(c, p, offset, d)
  <2> DEFINE m == [id |-> 0, offset |-> offset, end |-> offset + Length[d],
                   data |-> d]
  <2>1. m \in Mutation
    BY <1>3, MutationAssumption DEF BeginWrite, Fits, Mutation
  <2>2. call' \in [Caller -> Call]
    BY <1>1, <1>3, <2>1 DEF BeginWrite, TypeInv, TypeOK, Call
  <2>3. \A e \in Caller : CallOK(e)'
    BY <1>3, <2>1 DEF BeginWrite, TypeInv, TypeOK, CallOK
  <2> QED BY <1>3, <2>2, <2>3 DEF BeginWrite, TypeInv, TypeOK, managers
<1> QED BY <1>2, <1>3

\* So does the choice of the offset.
LEMMA MeasureType ==
  ASSUME TypeInv, NEW c \in Caller, Measure(c)
  PROVE  TypeInv'
<1> DEFINE p == call[c].primary
           d == call[c].data
           size == SizeOn(p)
           fits == Fits(size, d)
           m == [id |-> 0, offset |-> size,
                 end |-> IF fits THEN size + Length[d] ELSE ChunkSize,
                 data |-> IF fits THEN d ELSE Padding]
<1>1. p \in Replica /\ d \in Data /\ call[c] \in Call
  BY DEF Measure, TypeInv, CallOK, TypeOK
<1>2. size \in 0..ChunkSize
  BY <1>1, SizeBounded DEF TypeInv
<1>3. m \in Mutation
  BY <1>1, <1>2, MutationAssumption DEF Fits, Mutation
<1>4. UNCHANGED <<managers, written, acked, faults, restarts>>
  BY DEF Measure
<1>5. CASE Return(c, "RetryNextChunk")
  BY <1>4, <1>5, ReturnOK DEF TypeInv, TypeOK, managers
<1>6. CASE ~Return(c, "RetryNextChunk")
  <2> DEFINE k == [call[c] EXCEPT !.pc = "apply",
                     !.kind = IF fits THEN "record" ELSE "padding",
                     !.mutation = m, !.to = SkipPrimary(p, 1)]
  <2>1. call' = [call EXCEPT ![c] = k]
    BY <1>6 DEF Measure, TypeInv, TypeOK
  <2>2. SkipPrimary(p, 1) \in Nat
    BY SkipPrimaryType
  <2>3. k \in Call
    BY <1>1, <1>3, <2>2 DEF Call
  <2>4. k.primary \in Replica /\ k.data \in Data /\ k.mutation \in Mutation
    BY <1>1, <1>3 DEF Call
  <2>5. call' \in [Caller -> Call] /\ \A e \in Caller : CallOK(e)'
    <3> HIDE DEF k
    <3> QED BY <2>1, <2>3, <2>4, GoesOnOK
  <2> QED BY <1>4, <2>5 DEF TypeInv, TypeOK, managers
<1> QED BY <1>5, <1>6

\* So does the application on the primary.
LEMMA ApplyType ==
  ASSUME TypeInv, NEW c \in Caller, Apply(c)
  PROVE  TypeInv'
<1> DEFINE p == call[c].primary
           m == [call[c].mutation EXCEPT !.id = nextId[p]]
<1>1. /\ p \in Replica /\ call[c].mutation \in Mutation
      /\ call[c].data \in Data /\ call[c] \in Call
  BY DEF Apply, TypeInv, TypeOK, CallOK
<1>2. m \in Mutation
  BY <1>1 DEF Mutation, TypeInv, TypeOK
<1>3. nextId' \in [Replica -> Nat] /\ UNCHANGED <<pending, acked, restarts>>
  BY <1>1 DEF Apply, TypeInv, TypeOK
<1>4. CASE /\ Write(p, m) /\ UNCHANGED faults
           /\ call' = [call EXCEPT ![c].pc = "propagate", ![c].mutation = m]
  <2>1. /\ written' \in [Replica -> Seq(Mutation)]
        /\ lastId' \in [Replica -> Nat]
    BY <1>1, <1>2, <1>4, WriteGrows DEF TypeInv
  <2>2. call' \in [Caller -> Call] /\ \A e \in Caller : CallOK(e)'
    <3> DEFINE k == [call[c] EXCEPT !.pc = "propagate", !.mutation = m]
    <3> HIDE DEF m
    <3>1. call' = [call EXCEPT ![c] = k]
      BY <1>4 DEF TypeInv, TypeOK
    <3>2. /\ k \in Call /\ k.primary \in Replica /\ k.data \in Data
          /\ k.mutation \in Mutation
      BY <1>1, <1>2 DEF Call
    <3> HIDE DEF k
    <3> QED BY <3>1, <3>2, GoesOnOK
  <2> QED BY <1>3, <1>4, <2>1, <2>2 DEF TypeInv, TypeOK
<1>5. CASE /\ Return(c, "Failed") /\ UNCHANGED <<lastId, written>>
           /\ GoesWrong("disk") \/ UNCHANGED faults
  <2>1. faults' \in [Fault -> Nat]
    BY <1>5, FaultsType DEF TypeInv, TypeOK
  <2> QED BY <1>3, <1>5, <2>1, ReturnOK DEF TypeInv, TypeOK
<1> QED
  <2>1. \/ /\ Write(p, m) /\ UNCHANGED faults
           /\ call' = [call EXCEPT ![c].pc = "propagate", ![c].mutation = m]
        \/ /\ Return(c, "Failed") /\ UNCHANGED <<lastId, written>>
           /\ GoesWrong("disk") \/ UNCHANGED faults
    BY DEF Apply
  <2> QED BY <1>4, <1>5, <2>1

\* So does the delivery to another replica.
LEMMA DeliverType ==
  ASSUME TypeInv, NEW c \in Caller, Deliver(c)
  PROVE  TypeInv'
<1> DEFINE s == Replicas[call[c].to]
           m == call[c].mutation
           next == SkipPrimary(call[c].primary, call[c].to + 1)
<1>1. /\ s \in Replica /\ m \in Mutation /\ call[c] \in Call /\ next \in Nat
      /\ call[c].pc = "propagate" /\ call[c].primary \in Replica
      /\ call[c].data \in Data
  <2>1. call[c] \in Call /\ call[c].to + 1 \in Nat
    BY DEF TypeInv, TypeOK, Call
  <2> QED BY <2>1, SkipPrimaryType
          DEF Deliver, TypeInv, CallOK, Replica, Range
<1>2. UNCHANGED <<pending, acked, restarts>>
  BY DEF Deliver
<1>3. \/ /\ Write(s, m)
         /\ nextId' = [nextId EXCEPT ![s] = IF @ <= m.id THEN m.id + 1 ELSE @]
      \/ UNCHANGED <<nextId, lastId, written>>
  BY DEF Deliver
<1>4. /\ written' \in [Replica -> Seq(Mutation)]
      /\ lastId' \in [Replica -> Nat]
      /\ nextId' \in [Replica -> Nat]
  <2>1. m.id \in Nat
    BY <1>1 DEF Mutation
  <2>2. TypeOK
    BY DEF TypeInv
  <2> HIDE DEF s, m
  <2>3. CASE /\ Write(s, m)
             /\ nextId' = [nextId EXCEPT ![s] = IF @ <= m.id THEN m.id + 1 ELSE @]
    <3>1. nextId' \in [Replica -> Nat]
      BY <1>1, <2>1, <2>2, <2>3 DEF TypeOK
    <3> QED BY <1>1, <2>2, <2>3, <3>1, WriteGrows
  <2>4. CASE UNCHANGED <<nextId, lastId, written>>
    BY <2>2, <2>4 DEF TypeOK
  <2> QED BY <1>3, <2>3, <2>4
<1>5. faults' \in [Fault -> Nat]
  <2>1. (\E f \in {"request", "reply", "disk"} : GoesWrong(f)) \/ UNCHANGED faults
    BY DEF Deliver
  <2> QED BY <2>1, FaultsType DEF TypeInv, TypeOK
<1>6. \/ call' = [call EXCEPT ![c].to = next]
      \/ call' = [call EXCEPT ![c].pc = "fail"]
  BY DEF Deliver
<1>7. call' \in [Caller -> Call] /\ \A e \in Caller : CallOK(e)'
  <2> DEFINE k == IF call' = [call EXCEPT ![c].pc = "fail"]
                  THEN [call[c] EXCEPT !.pc = "fail"]
                  ELSE [call[c] EXCEPT !.to = next]
  <2> HIDE DEF next
  <2>1. call' = [call EXCEPT ![c] = k]
    BY <1>6 DEF TypeInv, TypeOK
  <2>2. /\ k \in Call /\ k.primary \in Replica /\ k.data \in Data
        /\ k.mutation \in Mutation
    BY <1>1 DEF Call
  <2> HIDE DEF k
  <2> QED BY <2>1, <2>2, GoesOnOK
<1> QED BY <1>2, <1>4, <1>5, <1>7 DEF TypeInv, TypeOK

\* So do the last steps of a call.
LEMMA FinishType ==
  ASSUME TypeInv, NEW c \in Caller, Propagated(c) \/ NotPropagated(c)
  PROVE  TypeInv'
<1>1. /\ call[c].primary \in Replica /\ call[c].mutation \in Mutation
      /\ call[c].data \in Data /\ call[c] \in Call
  BY DEF Propagated, NotPropagated, TypeInv, TypeOK, CallOK
<1>2. UNCHANGED <<nextId, lastId, written, faults, restarts>>
  BY DEF Propagated, NotPropagated
<1>3. /\ pending' \in [Replica -> Mutation \cup {Nothing}]
      /\ acked' \subseteq Mutation
  BY <1>1 DEF Propagated, PendingAfter, NotPropagated, TypeInv, TypeOK
<1>4. \/ call' = [call EXCEPT ![c].pc = "measure", ![c].kind = "record",
                              ![c].mutation = Nothing]
      \/ \E reply \in {"Success", "RetryNextChunk", "Failed"} : Return(c, reply)
  BY DEF Propagated, NotPropagated
<1>5. call' \in [Caller -> Call] /\ \A e \in Caller : CallOK(e)'
  <2>1. CASE call' = [call EXCEPT ![c].pc = "measure", ![c].kind = "record",
                                  ![c].mutation = Nothing]
    BY <1>1, <2>1 DEF TypeInv, TypeOK, Call, CallOK
  <2> QED BY <1>4, <2>1, ReturnOK
<1> QED BY <1>2, <1>3, <1>5 DEF TypeInv, TypeOK

\* So does a restart.
LEMMA RestartType ==
  ASSUME TypeInv, NEW r \in Replica, Restart(r)
  PROVE  TypeInv'
<1>1. call' \in [Caller -> Call] /\ \A e \in Caller : CallOK(e)'
  BY DEF Restart, NoCall, TypeInv, TypeOK, Call, CallOK
<1> QED BY <1>1 DEF Restart, TypeInv, TypeOK

\* Every step keeps the types.
LEMMA NextType == TypeInv /\ [Next]_vars => TypeInv'
<1> SUFFICES ASSUME TypeInv, [Next]_vars PROVE TypeInv'
  OBVIOUS
<1>1. \A p \in Leader : p \in Replica
  BY ReplicaAssumption DEF Replica
<1>2. \A offset \in Offset : offset \in Nat
  BY MutationAssumption
<1>3. CASE UNCHANGED vars
  BY <1>3 DEF vars, managers, TypeInv, TypeOK, CallOK
<1>4. CASE \E c \in Caller : Retry(c)
  <2>1. 0 \in Nat
    OBVIOUS
  <2> QED BY <1>1, <1>4, <2>1, BeginType DEF Retry
<1>5. CASE \E c \in Caller : Step(c)
  BY <1>5, MeasureType, ApplyType, DeliverType, FinishType DEF Step
<1>6. CASE \E c \in Caller, p \in Leader, offset \in Offset, d \in Data :
             BeginWrite(c, p, offset, d)
  BY <1>1, <1>2, <1>6, BeginType
<1>7. CASE \E r \in Replica : Restart(r)
  BY <1>7, RestartType
<1> QED BY <1>3, <1>4, <1>5, <1>6, <1>7 DEF Next

\* The initial state has the types.
LEMMA InitType == Init => TypeInv
<1> SUFFICES ASSUME Init PROVE TypeInv
  OBVIOUS
<1>1. /\ nextId \in [Replica -> Nat] /\ lastId \in [Replica -> Nat]
      /\ pending \in [Replica -> Mutation \cup {Nothing}]
      /\ acked \subseteq Mutation /\ faults \in [Fault -> Nat]
      /\ restarts \in Nat
  BY DEF Init
<1>2. written \in [Replica -> Seq(Mutation)]
  BY EmptySeq DEF Init
<1>3. call \in [Caller -> Call] /\ \A c \in Caller : CallOK(c)
  BY DEF Init, NoCall, Call, CallOK
<1> QED BY <1>1, <1>2, <1>3 DEF TypeInv, TypeOK

\* Every mutation lies within the chunk, padding included, and every variable
\* keeps its type.
THEOREM MutationTypeCorrect == Spec => []TypeOK
<1>1. TypeInv => TypeOK
  BY DEF TypeInv
<1> QED BY <1>1, InitType, NextType, PTL DEF Spec

-----------------------------------------------------------------------------
(* Acknowledged records.                                                   *)

\* What a call that has an identifier has already reached: the primary and
\* every replica before the one it goes on with.
Reached(c) ==
  /\ call[c].pc = "apply" => call[c].to = SkipPrimary(call[c].primary, 1)
  /\ (call[c].pc = "propagate" /\ call[c].kind # "pending") =>
       /\ call[c].to >= 1
       /\ call[c].mutation \in Range(written[call[c].primary])
       /\ \A j \in DOMAIN Replicas :
            j < call[c].to =>
              call[c].mutation \in Range(written[Replicas[j]])

AckInv == AcknowledgedEverywhere /\ \A c \in Caller : Reached(c)

\* Positions in Replicas name replicas.
LEMMA ReplicaAt ==
  /\ DOMAIN Replicas = 1..Len(Replicas) /\ Len(Replicas) \in Nat
  /\ \A j \in DOMAIN Replicas : Replicas[j] \in Replica
BY ReplicaAssumption, LenProperties DEF Replica, Range

\* Every replica is at some position.
LEMMA PositionOf ==
  ASSUME NEW r \in Replica
  PROVE  \E j \in DOMAIN Replicas : Replicas[j] = r
BY DEF Replica, Range

\* Nothing that was written to a replica is ever taken away.
LEMMA WrittenGrows ==
  ASSUME TypeInv, [Next]_vars
  PROVE  \A q \in Replica : Range(written[q]) \subseteq Range(written'[q])
<1>1. CASE \E c \in Caller : Apply(c)
  <2>1. PICK c \in Caller : Apply(c)
    BY <1>1
  <2> DEFINE p == call[c].primary
             m == [call[c].mutation EXCEPT !.id = nextId[p]]
  <2>2. p \in Replica /\ call[c].mutation \in Mutation
    BY <2>1 DEF Apply, TypeInv, CallOK
  <2>3. m \in Mutation
    BY <2>2 DEF Mutation, TypeInv, TypeOK
  <2>4. Write(p, m) \/ UNCHANGED written
    BY <2>1 DEF Apply
  <2> HIDE DEF m, p
  <2> QED BY <2>2, <2>3, <2>4, WriteGrows DEF TypeInv
<1>2. CASE \E c \in Caller : Deliver(c)
  <2>1. PICK c \in Caller : Deliver(c)
    BY <1>2
  <2> DEFINE s == Replicas[call[c].to]
             m == call[c].mutation
  <2>2. s \in Replica /\ m \in Mutation
    BY <2>1, ReplicaAt DEF Deliver, TypeInv, CallOK
  <2>3. Write(s, m) \/ UNCHANGED written
    BY <2>1 DEF Deliver
  <2> HIDE DEF m, s
  <2> QED BY <2>2, <2>3, WriteGrows DEF TypeInv
<1>3. CASE UNCHANGED written
  BY <1>3
<1> QED
  BY <1>1, <1>2, <1>3
     DEF Next, Step, Retry, vars, BeginAppend, BeginWrite, Measure, Propagated,
         NotPropagated, Restart

\* A call that another call's step leaves alone has still reached what it had.
LEMMA ReachedKept ==
  ASSUME TypeInv, [Next]_vars, NEW c \in Caller, Reached(c),
         call'[c] = call[c] \/ call'[c].pc \notin {"apply", "propagate"}
  PROVE  Reached(c)'
<1>1. \A j \in DOMAIN Replicas :
        Range(written[Replicas[j]]) \subseteq Range(written'[Replicas[j]])
  BY WrittenGrows, ReplicaAt
<1>2. call[c].pc # "idle" => call[c].primary \in Replica
  BY DEF TypeInv, CallOK
<1> QED BY <1>1, <1>2, WrittenGrows DEF Reached

\* What was acknowledged stays everywhere.
LEMMA AcknowledgedKept ==
  ASSUME TypeInv, [Next]_vars, AcknowledgedEverywhere, UNCHANGED acked
  PROVE  AcknowledgedEverywhere'
BY WrittenGrows DEF AcknowledgedEverywhere

\* The position after the primary is past nothing but the primary.
LEMMA FirstPosition ==
  ASSUME NEW p
  PROVE  /\ SkipPrimary(p, 1) \in Nat /\ SkipPrimary(p, 1) >= 1
         /\ \A j \in DOMAIN Replicas : j < SkipPrimary(p, 1) => Replicas[j] = p
BY ReplicaAt DEF SkipPrimary

\* And so is the position after replica i.
LEMMA NextPosition ==
  ASSUME NEW p, NEW i \in DOMAIN Replicas
  PROVE  /\ SkipPrimary(p, i + 1) \in Nat /\ SkipPrimary(p, i + 1) >= 1
         /\ \A j \in DOMAIN Replicas :
              j < SkipPrimary(p, i + 1) => j < i \/ j = i \/ Replicas[j] = p
BY ReplicaAt DEF SkipPrimary

\* Applying a mutation on the primary reaches the primary.
LEMMA ApplyReaches ==
  ASSUME TypeInv, AckInv, [Next]_vars, NEW c \in Caller, Apply(c)
  PROVE  AckInv'
<1> DEFINE p == call[c].primary
           m == [call[c].mutation EXCEPT !.id = nextId[p]]
           k == [call[c] EXCEPT !.pc = "propagate", !.mutation = m]
<1>1. /\ p \in Replica /\ call[c].mutation \in Mutation /\ call[c] \in Call
      /\ call \in [Caller -> Call] /\ call[c].pc = "apply"
  BY DEF Apply, TypeInv, TypeOK, CallOK
<1>2. m \in Mutation
  BY <1>1 DEF Mutation, TypeInv, TypeOK
<1>3. AcknowledgedEverywhere'
  BY AcknowledgedKept DEF Apply, AckInv
<1>4. \A d \in Caller \ {c} : call'[d] = call[d]
  BY <1>1 DEF Apply, Return
<1>5. \A d \in Caller \ {c} : Reached(d)'
  BY <1>4, ReachedKept DEF AckInv
<1>6. CASE Return(c, "Failed")
  <2>1. call'[c].pc = "idle"
    BY <1>1, <1>6 DEF Return, NoCall
  <2> QED BY <1>3, <1>5, <2>1, ReachedKept DEF AckInv
<1>7. CASE Write(p, m) /\ call' = [call EXCEPT ![c].pc = "propagate",
                                               ![c].mutation = m]
  <2>1. k.pc = "propagate" /\ k.mutation = m /\ k.primary = p /\ k.to = call[c].to
    BY <1>1 DEF Call
  <2>2. call'[c] = k
    BY <1>1, <1>7
  <2>3. call[c].to = SkipPrimary(p, 1)
    BY <1>1 DEF AckInv, Reached
  <2>4. m \in Range(written'[p])
    BY <1>1, <1>2, <1>7, WriteGrows DEF TypeInv
  <2>5. Reached(c)'
    <3> HIDE DEF k, m, p
    <3> QED BY <2>1, <2>2, <2>3, <2>4, FirstPosition DEF Reached
  <2> QED BY <1>3, <1>5, <2>5 DEF AckInv
<1> QED
  <2>1. \/ Return(c, "Failed")
        \/ Write(p, m) /\ call' = [call EXCEPT ![c].pc = "propagate",
                                               ![c].mutation = m]
    BY DEF Apply
  <2> QED BY <1>6, <1>7, <2>1

\* A delivery that goes on has reached one more replica.
LEMMA DeliverReaches ==
  ASSUME TypeInv, AckInv, [Next]_vars, NEW c \in Caller, Deliver(c)
  PROVE  AckInv'
<1> DEFINE i == call[c].to
           s == Replicas[i]
           m == call[c].mutation
           p == call[c].primary
           k == [call[c] EXCEPT !.to = SkipPrimary(p, i + 1)]
           f == [call[c] EXCEPT !.pc = "fail"]
<1>1. /\ m \in Mutation /\ call[c] \in Call /\ call \in [Caller -> Call]
      /\ call[c].pc = "propagate" /\ i \in DOMAIN Replicas /\ s \in Replica
      /\ p \in Replica
  BY ReplicaAt DEF Deliver, TypeInv, TypeOK, CallOK
<1>2. AcknowledgedEverywhere'
  BY AcknowledgedKept DEF Deliver, AckInv
<1>3. \A d \in Caller \ {c} : call'[d] = call[d]
  BY <1>1 DEF Deliver
<1>4. \A d \in Caller \ {c} : Reached(d)'
  BY <1>3, ReachedKept DEF AckInv
<1>5. CASE call' = [call EXCEPT ![c].pc = "fail"]
  <2>1. call'[c].pc = "fail"
    BY <1>1, <1>5 DEF Call
  <2> QED BY <1>2, <1>4, <2>1, ReachedKept DEF AckInv
<1>6. CASE /\ Write(s, m)
           /\ call' = [call EXCEPT ![c].to = SkipPrimary(p, i + 1)]
  <2>1. /\ k.pc = "propagate" /\ k.mutation = m /\ k.primary = p
        /\ k.kind = call[c].kind /\ k.to = SkipPrimary(p, i + 1)
    BY <1>1 DEF Call
  <2>2. call'[c] = k
    BY <1>1, <1>6
  <2>3. m \in Range(written'[s])
    BY <1>1, <1>6, WriteGrows DEF TypeInv
  <2>4. \A j \in DOMAIN Replicas :
          Range(written[Replicas[j]]) \subseteq Range(written'[Replicas[j]])
    BY WrittenGrows, ReplicaAt
  <2>5. Reached(c)
    BY DEF AckInv
  <2> QED
    <3>1. CASE call[c].kind = "pending"
      <4>1. Reached(c)'
        BY <2>1, <2>2, <3>1 DEF Reached
      <4> QED BY <1>2, <1>4, <4>1 DEF AckInv
    <3>2. CASE call[c].kind # "pending"
      <4>1. \A j \in DOMAIN Replicas : j < i => m \in Range(written'[Replicas[j]])
        BY <1>1, <2>4, <2>5, <3>2 DEF Reached
      <4>2. m \in Range(written'[p])
        BY <1>1, <2>5, <3>2, WrittenGrows DEF Reached
      <4>3. Reached(c)'
        <5>1. \A j \in DOMAIN Replicas :
                j < SkipPrimary(p, i + 1) => m \in Range(written'[Replicas[j]])
          BY <1>1, <2>3, <4>1, <4>2, NextPosition
        <5>2. SkipPrimary(p, i + 1) >= 1
          BY <1>1, NextPosition
        <5> HIDE DEF i, s, m, p, k
        <5> QED BY <2>1, <2>2, <4>2, <5>1, <5>2 DEF Reached
      <4> QED BY <1>2, <1>4, <4>3 DEF AckInv
    <3> QED BY <3>1, <3>2
<1> QED
  <2>1. \/ call' = [call EXCEPT ![c].pc = "fail"]
        \/ /\ Write(s, m)
           /\ call' = [call EXCEPT ![c].to = SkipPrimary(p, i + 1)]
    BY DEF Deliver
  <2> QED BY <1>5, <1>6, <2>1

\* A record is acknowledged once every position has been passed.
LEMMA PropagatedReaches ==
  ASSUME TypeInv, AckInv, [Next]_vars, NEW c \in Caller, Propagated(c)
  PROVE  AckInv'
<1> DEFINE m == call[c].mutation
<1>1. /\ call[c] \in Call /\ call \in [Caller -> Call]
      /\ call[c].pc = "propagate" /\ call[c].to \notin DOMAIN Replicas
      /\ UNCHANGED written
  BY DEF Propagated, TypeInv, TypeOK
<1>2. \A d \in Caller \ {c} : call'[d] = call[d]
  BY <1>1 DEF Propagated, Return
<1>3. call'[c].pc \in {"measure", "idle"}
  BY <1>1 DEF Propagated, Return, NoCall, Call
<1>4. \A d \in Caller : Reached(d)'
  BY <1>2, <1>3, ReachedKept DEF AckInv
<1>5. CASE UNCHANGED acked
  BY <1>4, <1>5, AcknowledgedKept DEF AckInv
<1>6. CASE call[c].kind = "record" /\ acked' = acked \cup {m}
  <2>1. /\ call[c].to >= 1
        /\ \A j \in DOMAIN Replicas :
             j < call[c].to => m \in Range(written[Replicas[j]])
    BY <1>1, <1>6 DEF AckInv, Reached
  <2>2. \A j \in DOMAIN Replicas : m \in Range(written[Replicas[j]])
    <3>1. call[c].to \in Nat
      BY <1>1 DEF Call
    <3> QED BY <1>1, <2>1, <3>1, ReplicaAt
  <2>3. \A r \in Replica : m \in Range(written[r])
    BY <2>2, PositionOf
  <2>4. AcknowledgedEverywhere'
    BY <1>1, <1>6, <2>3 DEF AckInv, AcknowledgedEverywhere
  <2> QED BY <1>4, <2>4 DEF AckInv
<1> QED BY <1>5, <1>6 DEF Propagated

\* The other steps acknowledge nothing and write nothing.
LEMMA OthersReach ==
  ASSUME TypeInv, AckInv, [Next]_vars, UNCHANGED acked,
         \A d \in Caller :
           \/ call'[d] = call[d]
           \/ call'[d].pc \notin {"apply", "propagate"}
           \/ /\ call'[d].pc = "apply"
              /\ call'[d].to = SkipPrimary(call'[d].primary, 1)
           \/ call'[d].pc = "propagate" /\ call'[d].kind = "pending"
  PROVE  AckInv'
<1>1. AcknowledgedEverywhere'
  BY AcknowledgedKept DEF AckInv
<1>2. ASSUME NEW d \in Caller PROVE Reached(d)'
  <2>1. CASE call'[d] = call[d] \/ call'[d].pc \notin {"apply", "propagate"}
    BY <2>1, ReachedKept DEF AckInv
  <2>2. CASE /\ call'[d].pc = "apply"
             /\ call'[d].to = SkipPrimary(call'[d].primary, 1)
    BY <2>2 DEF Reached
  <2>3. CASE call'[d].pc = "propagate" /\ call'[d].kind = "pending"
    BY <2>3 DEF Reached
  <2> QED BY <2>1, <2>2, <2>3
<1> QED BY <1>1, <1>2 DEF AckInv

\* Every step keeps the invariant.
LEMMA NextAck == TypeInv /\ AckInv /\ [Next]_vars => AckInv'
<1> SUFFICES ASSUME TypeInv, AckInv, [Next]_vars PROVE AckInv'
  OBVIOUS
<1>0. call \in [Caller -> Call]
  BY DEF TypeInv, TypeOK
<1>1. CASE UNCHANGED vars
  BY <1>1, OthersReach DEF vars
<1>2. ASSUME NEW c \in Caller, NEW p \in Leader, NEW d \in Data,
             BeginAppend(c, p, d)
      PROVE  AckInv'
  <2>1. /\ UNCHANGED acked
        /\ \A e \in Caller \ {c} : call'[e] = call[e]
        /\ \/ call'[c].pc = "measure"
           \/ call'[c].pc = "propagate" /\ call'[c].kind = "pending"
    BY <1>0, <1>2 DEF BeginAppend
  <2> QED BY <2>1, OthersReach
<1>3. ASSUME NEW c \in Caller, NEW p \in Leader, NEW offset \in Offset,
             NEW d \in Data, BeginWrite(c, p, offset, d)
      PROVE  AckInv'
  <2>1. /\ UNCHANGED acked
        /\ \A e \in Caller \ {c} : call'[e] = call[e]
        /\ call'[c].pc = "apply"
        /\ call'[c].to = SkipPrimary(call'[c].primary, 1)
    BY <1>0, <1>3 DEF BeginWrite
  <2> QED BY <2>1, OthersReach
<1>4. ASSUME NEW c \in Caller, Measure(c) PROVE AckInv'
  <2>1. /\ UNCHANGED acked
        /\ \A e \in Caller \ {c} : call'[e] = call[e]
    BY <1>0, <1>4 DEF Measure, Return
  <2>2. \/ call'[c].pc = "idle"
        \/ /\ call'[c].pc = "apply"
           /\ call'[c].to = SkipPrimary(call'[c].primary, 1)
    BY <1>0, <1>4 DEF Measure, Return, NoCall, Call
  <2> QED BY <2>1, <2>2, OthersReach
<1>5. ASSUME NEW c \in Caller, NotPropagated(c) PROVE AckInv'
  <2>1. /\ UNCHANGED acked
        /\ \A e \in Caller \ {c} : call'[e] = call[e]
        /\ call'[c].pc = "idle"
    BY <1>0, <1>5 DEF NotPropagated, Return, NoCall
  <2> QED BY <2>1, OthersReach
<1>6. ASSUME NEW r \in Replica, Restart(r) PROVE AckInv'
  <2>1. /\ UNCHANGED acked
        /\ \A e \in Caller : call'[e] = call[e] \/ call'[e].pc = "idle"
    BY <1>6 DEF Restart, NoCall
  <2> QED BY <2>1, OthersReach
<1> QED
  BY <1>1, <1>2, <1>3, <1>4, <1>5, <1>6, ApplyReaches, DeliverReaches,
     PropagatedReaches DEF Next, Step, Retry

\* A record whose append was reported to have succeeded was written to every
\* replica, with any number of replicas, callers, primaries, faults and
\* restarts.
THEOREM AcknowledgedHolds == Spec => []AcknowledgedEverywhere
<1>1. Init => AckInv
  BY DEF Init, NoCall, AckInv, AcknowledgedEverywhere, Reached
<1>2. AckInv => AcknowledgedEverywhere
  BY DEF AckInv
<1> QED BY <1>1, <1>2, InitType, NextType, NextAck, PTL DEF Spec

-----------------------------------------------------------------------------
(* The order of mutations.                                                 *)

Prefix(s, t) ==
  Len(s) <= Len(t) /\ \A i \in 1..Len(s) : s[i] = t[i]

\* What holds under one primary p until a chunkserver restarts: its replica
\* has every mutation, numbered without gaps, and the others have a prefix.
Ordered(p) ==
  /\ \A s \in Replica : lastId[s] = Len(written[s])
  /\ \A i \in DOMAIN written[p] : written[p][i].id = i
  /\ pending[p] # Nothing => pending[p] \in Range(written[p])
  /\ \A c \in Caller :
       /\ call[c].pc # "idle" => call[c].primary = p
       /\ call[c].pc \in {"propagate", "fail"} =>
            call[c].mutation \in Range(written[p])
  /\ \A s \in Replica : Prefix(written[s], written[p])

OneLeader(p) == Leader = {p}

OrderInv ==
  \A p \in Leader : (restarts = 0 /\ OneLeader(p)) => Ordered(p)

\* The first identifier a replica lacks is that of the next mutation in the
\* primary's order.
LEMMA AppendKeepsPrefix ==
  ASSUME NEW S, NEW s \in Seq(S), NEW t \in Seq(S), Prefix(s, t),
         NEW i \in DOMAIN t, i = Len(s) + 1
  PROVE  Prefix(Append(s, t[i]), t)
BY LenProperties, AppendProperties DEF Prefix

\* What is appended to the primary's sequence keeps the others' a prefix.
LEMMA AppendExtends ==
  ASSUME NEW S, NEW s \in Seq(S), NEW t \in Seq(S), NEW m \in S, Prefix(s, t)
  PROVE  Prefix(s, Append(t, m)) /\ Prefix(Append(t, m), Append(t, m))
BY LenProperties, AppendProperties DEF Prefix

\* Applying a mutation on the primary keeps the order.
LEMMA ApplyOrdered ==
  ASSUME TypeInv, [Next]_vars, NEW c \in Caller, Apply(c), NEW p \in Leader,
         Ordered(p)
  PROVE  Ordered(p)'
<1> DEFINE m == [call[c].mutation EXCEPT !.id = nextId[p]]
           w == written[p]
<1>1. /\ call[c].primary = p /\ p \in Replica /\ call[c].mutation \in Mutation
      /\ call \in [Caller -> Call] /\ call[c].pc = "apply"
      /\ \A r \in Replica : written[r] \in Seq(Mutation)
  BY DEF Ordered, Apply, TypeInv, TypeOK, CallOK
<1>2. m \in Mutation /\ m.id = nextId[p]
  BY <1>1 DEF Mutation, TypeInv, TypeOK
<1>3. UNCHANGED pending /\ \A d \in Caller \ {c} : call'[d] = call[d]
  BY <1>1 DEF Apply, Return
<1>4. \A q \in Replica : Range(written[q]) \subseteq Range(written'[q])
  BY WrittenGrows
<1>5. CASE Return(c, "Failed") /\ UNCHANGED <<lastId, written>>
  <2>1. call'[c].pc = "idle"
    BY <1>1, <1>5 DEF Return, NoCall
  <2> QED BY <1>3, <1>5, <2>1 DEF Ordered
<1>6. CASE /\ Accepts(p, m) /\ Write(p, m)
           /\ call' = [call EXCEPT ![c].pc = "propagate", ![c].mutation = m]
  <2>1. m.id = Len(w) + 1
    BY <1>1, <1>6 DEF Accepts, Ordered
  <2>2. /\ Append(w, m) \in Seq(Mutation) /\ Len(Append(w, m)) = Len(w) + 1
        /\ DOMAIN Append(w, m) = 1..(Len(w) + 1) /\ DOMAIN w = 1..Len(w)
        /\ Append(w, m)[Len(w) + 1] = m
        /\ \A i \in 1..Len(w) : Append(w, m)[i] = w[i]
        /\ Len(w) \in Nat
    BY <1>1, <1>2, AppendProperties, LenProperties
  <2>3. /\ written' = [written EXCEPT ![p] = Append(w, m)]
        /\ lastId' = [lastId EXCEPT ![p] = Len(w) + 1]
        /\ written \in [Replica -> Seq(Mutation)] /\ lastId \in [Replica -> Nat]
    BY <1>6, <2>1 DEF Write, TypeInv, TypeOK
  <2>4. m \in Range(written'[p])
    BY <1>1, <1>2, <1>6, WriteGrows DEF TypeInv
  <2>5. call'[c].primary = p /\ call'[c].mutation = m
    BY <1>1, <1>6 DEF Call
  <2> HIDE DEF m, w
  <2>6. \A s \in Replica : lastId'[s] = Len(written'[s])
    BY <1>1, <2>2, <2>3 DEF Ordered
  <2>7. \A i \in DOMAIN written'[p] : written'[p][i].id = i
    <3>1. written'[p] = Append(w, m)
      BY <1>1, <2>3
    <3> QED BY <2>1, <2>2, <3>1 DEF Ordered, w
  <2>8. \A s \in Replica : Prefix(written'[s], written'[p])
    <3>1. \A s \in Replica : Prefix(written[s], w)
      BY DEF Ordered, w
    <3>2. \A s \in Replica : Prefix(written[s], Append(w, m))
      BY <1>1, <1>2, <3>1, AppendExtends DEF w
    <3>3. Prefix(Append(w, m), Append(w, m))
      BY <1>1, <1>2, <3>1, AppendExtends DEF w
    <3> QED BY <1>1, <2>3, <3>2, <3>3
  <2>9. \A d \in Caller :
          /\ call'[d].pc # "idle" => call'[d].primary = p
          /\ call'[d].pc \in {"propagate", "fail"} =>
               call'[d].mutation \in Range(written'[p])
    BY <1>1, <1>3, <1>4, <2>4, <2>5 DEF Ordered
  <2> QED BY <1>1, <1>3, <1>4, <2>6, <2>7, <2>8, <2>9 DEF Ordered
<1> QED
  <2>1. \/ Return(c, "Failed") /\ UNCHANGED <<lastId, written>>
        \/ /\ Accepts(p, m) /\ Write(p, m)
           /\ call' = [call EXCEPT ![c].pc = "propagate", ![c].mutation = m]
    BY <1>1 DEF Apply
  <2> QED BY <1>5, <1>6, <2>1

\* A replica takes the mutation it lacks first.
LEMMA DeliverOrdered ==
  ASSUME TypeInv, [Next]_vars, NEW c \in Caller, Deliver(c), NEW p \in Leader,
         Ordered(p)
  PROVE  Ordered(p)'
<1> DEFINE s == Replicas[call[c].to]
           m == call[c].mutation
           w == written[p]
<1>1. /\ call[c].primary = p /\ p \in Replica /\ s \in Replica
      /\ call[c] \in Call /\ call \in [Caller -> Call]
      /\ call[c].pc = "propagate" /\ m \in Range(w) /\ m \in Mutation
      /\ written \in [Replica -> Seq(Mutation)] /\ lastId \in [Replica -> Nat]
  BY ReplicaAt DEF Ordered, Deliver, TypeInv, TypeOK, CallOK
<1>2. UNCHANGED pending
  BY DEF Deliver
<1>3. \A d \in Caller :
        /\ call'[d].mutation = call[d].mutation
        /\ call'[d].primary = call[d].primary
        /\ call'[d].pc # call[d].pc => call[d].pc = "propagate"
  <2>1. CASE call' = [call EXCEPT ![c].pc = "fail"]
    BY <1>1, <2>1 DEF Call
  <2>2. CASE call' = [call EXCEPT
                        ![c].to = SkipPrimary(call[c].primary, call[c].to + 1)]
    BY <1>1, <2>2 DEF Call
  <2> QED BY <2>1, <2>2 DEF Deliver
<1>4. \A d \in Caller :
        /\ call'[d].pc # "idle" => call'[d].primary = p
        /\ call'[d].pc \in {"propagate", "fail"} =>
             call'[d].mutation \in Range(written'[p])
  BY <1>1, <1>3, WrittenGrows DEF Ordered
<1>5. CASE UNCHANGED <<lastId, written>>
  BY <1>2, <1>4, <1>5 DEF Ordered
<1>6. CASE Accepts(s, m) /\ Write(s, m)
  <2>1. PICK i \in DOMAIN w : w[i] = m
    BY <1>1 DEF Range
  <2>2. m.id = i /\ i = Len(written[s]) + 1
    BY <1>1, <1>6, <2>1 DEF Ordered, Accepts
  <2>3. DOMAIN w = 1..Len(w) /\ Len(w) \in Nat
    BY <1>1, LenProperties
  <2>4. s # p
    BY <2>2, <2>3
  <2>5. /\ written' = [written EXCEPT ![s] = Append(written[s], m)]
        /\ lastId' = [lastId EXCEPT ![s] = i]
    BY <1>6, <2>2 DEF Write
  <2>6. Len(Append(written[s], m)) = Len(written[s]) + 1
    BY <1>1, AppendProperties
  <2>7. Prefix(Append(written[s], m), w)
    BY <1>1, <2>1, <2>2, AppendKeepsPrefix DEF Ordered
  <2> HIDE DEF s, m
  <2>8. /\ written'[p] = w
        /\ \A r \in Replica : lastId'[r] = Len(written'[r])
        /\ \A r \in Replica : Prefix(written'[r], w)
    BY <1>1, <2>2, <2>4, <2>5, <2>6, <2>7 DEF Ordered
  <2> QED BY <1>2, <1>4, <2>8 DEF Ordered
<1> QED
  <2>1. UNCHANGED <<lastId, written>> \/ (Accepts(s, m) /\ Write(s, m))
    BY DEF Deliver
  <2> QED BY <1>5, <1>6, <2>1

\* The steps that write nothing keep the order.
LEMMA OthersOrdered ==
  ASSUME NEW p \in Leader, Ordered(p), UNCHANGED <<lastId, written>>,
         \A d \in Caller :
           /\ call'[d].pc # "idle" => call'[d].primary = p
           /\ call'[d].pc \in {"propagate", "fail"} =>
                call'[d].mutation \in Range(written[p]),
         pending'[p] # Nothing => pending'[p] \in Range(written[p])
  PROVE  Ordered(p)'
BY DEF Ordered

\* Every step keeps the order, unless it is a restart.
LEMMA NextOrdered ==
  ASSUME TypeInv, [Next]_vars, NEW p \in Leader, OneLeader(p), Ordered(p),
         restarts' = 0
  PROVE  Ordered(p)'
<1>1. /\ call \in [Caller -> Call] /\ p \in Replica
      /\ pending \in [Replica -> Mutation \cup {Nothing}] /\ restarts \in Nat
  BY ReplicaAssumption DEF TypeInv, TypeOK, Replica
<1>2. CASE UNCHANGED vars
  BY <1>2, OthersOrdered DEF vars, managers, Ordered
<1>3. ASSUME NEW c \in Caller, NEW q \in Leader, NEW d \in Data,
             BeginAppend(c, q, d)
      PROVE  Ordered(p)'
  <2>1. q = p
    BY DEF OneLeader
  <2>2. /\ UNCHANGED <<lastId, written, pending>>
        /\ \A e \in Caller \ {c} : call'[e] = call[e]
        /\ call'[c].primary = p /\ call'[c].mutation = pending[p]
        /\ call'[c].pc = IF pending[p] = Nothing THEN "measure" ELSE "propagate"
    BY <1>1, <1>3, <2>1 DEF BeginAppend, managers
  <2> QED BY <2>2, OthersOrdered DEF Ordered
<1>4. ASSUME NEW c \in Caller, NEW q \in Leader, NEW offset \in Offset,
             NEW d \in Data, BeginWrite(c, q, offset, d)
      PROVE  Ordered(p)'
  <2>1. q = p
    BY DEF OneLeader
  <2>2. /\ UNCHANGED <<lastId, written, pending>>
        /\ \A e \in Caller \ {c} : call'[e] = call[e]
        /\ call'[c].primary = p /\ call'[c].pc = "apply"
    BY <1>1, <1>4, <2>1 DEF BeginWrite, managers
  <2> QED BY <2>2, OthersOrdered DEF Ordered
<1>5. ASSUME NEW c \in Caller, Measure(c) PROVE Ordered(p)'
  <2>1. /\ UNCHANGED <<lastId, written, pending>>
        /\ \A e \in Caller \ {c} : call'[e] = call[e]
    BY <1>1, <1>5 DEF Measure, Return, managers
  <2>2. \/ call'[c].pc = "idle"
        \/ /\ call'[c].pc = "apply" /\ call'[c].primary = call[c].primary
           /\ call[c].pc = "measure"
    BY <1>1, <1>5 DEF Measure, Return, NoCall, Call
  <2> QED BY <2>1, <2>2, OthersOrdered DEF Ordered
<1>6. ASSUME NEW c \in Caller, Propagated(c) PROVE Ordered(p)'
  <2>1. /\ UNCHANGED <<lastId, written>>
        /\ \A e \in Caller \ {c} : call'[e] = call[e]
        /\ call[c].pc = "propagate"
    BY <1>1, <1>6 DEF Propagated, Return
  <2>2. \/ call'[c].pc = "idle"
        \/ call'[c].pc = "measure" /\ call'[c].primary = call[c].primary
    BY <1>1, <1>6 DEF Propagated, Return, NoCall, Call
  <2>3. pending'[p] \in {pending[p], Nothing}
    BY <1>1, <1>6 DEF Propagated, PendingAfter
  <2> QED BY <2>1, <2>2, <2>3, OthersOrdered DEF Ordered
<1>7. ASSUME NEW c \in Caller, NotPropagated(c) PROVE Ordered(p)'
  <2>1. /\ UNCHANGED <<lastId, written>>
        /\ \A e \in Caller \ {c} : call'[e] = call[e]
        /\ call[c].pc = "fail" /\ call'[c].pc = "idle"
    BY <1>1, <1>7 DEF NotPropagated, Return, NoCall
  <2>2. pending'[p] \in {pending[p], call[c].mutation}
    BY <1>1, <1>7 DEF NotPropagated
  <2> QED BY <2>1, <2>2, OthersOrdered DEF Ordered
<1>8. ASSUME NEW r \in Replica, Restart(r) PROVE Ordered(p)'
  BY <1>1, <1>8 DEF Restart
<1> QED
  BY <1>2, <1>3, <1>4, <1>5, <1>6, <1>7, <1>8, ApplyOrdered, DeliverOrdered
     DEF Next, Step, Retry

\* The number of restarts never falls.
LEMMA RestartsGrow ==
  ASSUME TypeInv, [Next]_vars, restarts' = 0
  PROVE  restarts = 0
<1>1. CASE \E r \in Replica : Restart(r)
  BY <1>1 DEF Restart, TypeInv, TypeOK
<1>2. CASE UNCHANGED restarts
  BY <1>2
<1>3. ASSUME NEW c \in Caller, Step(c) PROVE UNCHANGED restarts
  BY <1>3 DEF Step, Measure, Apply, Deliver, Propagated, NotPropagated
<1> QED
  BY <1>1, <1>2, <1>3 DEF Next, Retry, BeginAppend, BeginWrite, vars

\* Under one primary and without a restart, every replica applies the
\* primary's mutations in the primary's order and leaves none out.
THEOREM MutationOrderHolds == Spec => []MutationOrder
<1>1. Init => OrderInv
  BY ReplicaAssumption DEF Init, NoCall, OrderInv, Ordered, Prefix, Replica
<1>2. TypeInv /\ OrderInv /\ [Next]_vars => OrderInv'
  BY NextOrdered, RestartsGrow DEF OrderInv, OneLeader
<1>3. OrderInv => MutationOrder
  BY DEF OrderInv, OneLeader, MutationOrder, OnePrimary, Ordered, Prefix
<1> QED BY <1>1, <1>2, <1>3, InitType, NextType, PTL DEF Spec

-----------------------------------------------------------------------------
(* What is appended is not written over.                                   *)

\* A mutation is never delivered to the primary it comes from.
Beside(c) ==
  call[c].pc \in {"apply", "propagate"} =>
    \A j \in DOMAIN Replicas : j = call[c].to => Replicas[j] # call[c].primary

\* What one appender and one primary p leave behind, whoever restarts: all
\* that was written anywhere was written by p, in places one after another,
\* and the call in progress has measured the size as it still is.
Serial(p) ==
  /\ \A s \in Replica : Range(written[s]) \subseteq Range(written[p])
  /\ \A m \in Range(written[p]) : m.offset < m.end
  /\ \A i, j \in DOMAIN written[p] :
       i < j => written[p][i].end <= written[p][j].offset
  /\ pending[p] # Nothing => pending[p] \in Range(written[p])
  /\ \A c \in Caller :
       /\ Beside(c)
       /\ call[c].pc # "idle" => call[c].primary = p
       /\ call[c].pc \in {"propagate", "fail"} =>
            call[c].mutation \in Range(written[p])
       /\ call[c].pc = "apply" =>
            /\ call[c].mutation.offset = SizeOn(p)
            /\ call[c].mutation.offset < call[c].mutation.end

OneAppender == Offset = {} /\ OnePrimary /\ OneAtATime

SerialInv == OneAppender => \A p \in Leader : Serial(p)

\* The position a call goes on with is never the primary's.
LEMMA SkipPrimarySkips ==
  ASSUME NEW p \in Replica, NEW i \in Nat, NEW j \in DOMAIN Replicas,
         j = SkipPrimary(p, i)
  PROVE  Replicas[j] # p
<1>1. \A k \in DOMAIN Replicas : Replicas[k] = Replicas[j] => k = j
  BY ReplicaAssumption DEF IsInjective
<1> QED BY <1>1, ReplicaAt DEF SkipPrimary

\* Appending to a sequence adds the element and no other.
LEMMA AppendRange ==
  ASSUME NEW S, NEW s \in Seq(S), NEW m \in S
  PROVE  Range(Append(s, m)) = Range(s) \cup {m}
<1> DEFINE t == Append(s, m)
<1>1. /\ DOMAIN t = 1..(Len(s) + 1) /\ DOMAIN s = 1..Len(s)
      /\ Len(s) \in Nat /\ t[Len(s) + 1] = m
      /\ \A i \in 1..Len(s) : t[i] = s[i]
  BY AppendProperties, LenProperties
<1> HIDE DEF t
<1>2. \A x \in Range(t) : x \in Range(s) \cup {m}
  BY <1>1 DEF Range
<1>3. \A x \in Range(s) \cup {m} : x \in Range(t)
  BY <1>1 DEF Range
<1> QED BY <1>2, <1>3 DEF t

\* Calls stay beside their primary.
LEMMA NextBeside ==
  ASSUME TypeInv, [Next]_vars, \A c \in Caller : Beside(c)
  PROVE  \A c \in Caller : Beside(c)'
<1>1. call \in [Caller -> Call] /\ \A c \in Caller : CallOK(c)'
  BY NextType DEF TypeInv, TypeOK
<1>2. \A p \in Leader : p \in Replica
  BY ReplicaAssumption DEF Replica
<1>3. ASSUME NEW c \in Caller,
             \/ call'[c] = call[c]
             \/ call'[c].pc \notin {"apply", "propagate"}
             \/ \E i \in Nat : call'[c].to = SkipPrimary(call'[c].primary, i)
             \/ /\ call'[c].to = call[c].to /\ call[c].pc = "apply"
                /\ call'[c].primary = call[c].primary
      PROVE  Beside(c)'
  <2>1. CASE \/ call'[c] = call[c]
             \/ call'[c].pc \notin {"apply", "propagate"}
             \/ /\ call'[c].to = call[c].to /\ call[c].pc = "apply"
                /\ call'[c].primary = call[c].primary
    BY <2>1 DEF Beside
  <2>2. CASE /\ \E i \in Nat : call'[c].to = SkipPrimary(call'[c].primary, i)
             /\ call'[c].pc \in {"apply", "propagate"}
    <3>1. call'[c].primary \in Replica
      BY <1>1, <2>2 DEF CallOK
    <3> QED BY <2>2, <3>1, SkipPrimarySkips DEF Beside
  <2> QED BY <1>3, <2>1, <2>2
<1>4. ASSUME NEW c \in Caller, UNCHANGED call PROVE Beside(c)'
  BY <1>4 DEF Beside
<1>5. ASSUME NEW d \in Caller, NEW p \in Leader, NEW x \in Data,
             BeginAppend(d, p, x), NEW c \in Caller
      PROVE  Beside(c)'
  <2>1. \/ call'[c] = call[c]
        \/ call'[c].to = SkipPrimary(call'[c].primary, 1)
    BY <1>1, <1>5 DEF BeginAppend
  <2> QED BY <1>3, <2>1
<1>6. ASSUME NEW d \in Caller, NEW p \in Leader, NEW offset \in Offset,
             NEW x \in Data, BeginWrite(d, p, offset, x), NEW c \in Caller
      PROVE  Beside(c)'
  <2>1. \/ call'[c] = call[c]
        \/ call'[c].to = SkipPrimary(call'[c].primary, 1)
    BY <1>1, <1>6 DEF BeginWrite
  <2> QED BY <1>3, <2>1
<1>7. ASSUME NEW d \in Caller, Step(d), NEW c \in Caller PROVE Beside(c)'
  <2>1. CASE Measure(d)
    <3>1. \/ call'[c] = call[c] \/ call'[c].pc = "idle"
          \/ call'[c].to = SkipPrimary(call'[c].primary, 1)
      BY <1>1, <2>1 DEF Measure, Return, NoCall, Call
    <3> QED BY <1>3, <3>1
  <2>2. CASE Apply(d)
    <3>1. \/ call'[c] = call[c] \/ call'[c].pc = "idle"
          \/ /\ call'[c].to = call[c].to /\ call[c].pc = "apply"
             /\ call'[c].primary = call[c].primary
      BY <1>1, <2>2 DEF Apply, Return, NoCall, Call
    <3> QED BY <1>3, <3>1
  <2>3. CASE Deliver(d)
    <3>1. call[d].to + 1 \in Nat
      BY <1>1 DEF Call
    <3>2. \/ call'[c] = call[c] \/ call'[c].pc = "fail"
          \/ call'[c].to = SkipPrimary(call'[c].primary, call[d].to + 1)
      BY <1>1, <2>3 DEF Deliver, Call
    <3> QED BY <1>3, <3>1, <3>2
  <2>4. CASE Propagated(d) \/ NotPropagated(d)
    <3>1. call'[c] = call[c] \/ call'[c].pc \in {"idle", "measure"}
      BY <1>1, <2>4 DEF Propagated, NotPropagated, Return, NoCall, Call
    <3> QED BY <1>3, <3>1
  <2> QED BY <1>7, <2>1, <2>2, <2>3, <2>4 DEF Step
<1>8. ASSUME NEW r \in Replica, Restart(r), NEW c \in Caller PROVE Beside(c)'
  <2>1. call'[c] = call[c] \/ call'[c].pc = "idle"
    BY <1>8 DEF Restart, NoCall
  <2> QED BY <1>3, <2>1
<1> QED BY <1>4, <1>5, <1>6, <1>7, <1>8 DEF Next, Retry, vars

\* Steps that write nothing leave what was appended in its place.
LEMMA OthersSerial ==
  ASSUME NEW p \in Leader, Serial(p), UNCHANGED written,
         \A d \in Caller : Beside(d)',
         \A d \in Caller :
           /\ call'[d].pc # "idle" => call'[d].primary = p
           /\ call'[d].pc \in {"propagate", "fail"} =>
                call'[d].mutation \in Range(written[p])
           /\ call'[d].pc = "apply" =>
                /\ call'[d].mutation.offset = SizeOn(p)
                /\ call'[d].mutation.offset < call'[d].mutation.end,
         pending'[p] # Nothing => pending'[p] \in Range(written[p])
  PROVE  Serial(p)'
<1>1. SizeOn(p)' = SizeOn(p)
  BY DEF SizeOn
<1> QED BY <1>1 DEF Serial

\* The primary writes at the end of its chunk.
LEMMA ApplySerial ==
  ASSUME TypeInv, [Next]_vars, OneAppender, NEW c \in Caller, Apply(c),
         NEW p \in Leader, Serial(p), \A d \in Caller : Beside(d)'
  PROVE  Serial(p)'
<1> DEFINE m == [call[c].mutation EXCEPT !.id = nextId[p]]
           w == written[p]
<1>1. /\ call[c].primary = p /\ p \in Replica /\ call[c].mutation \in Mutation
      /\ call \in [Caller -> Call] /\ call[c].pc = "apply"
      /\ written \in [Replica -> Seq(Mutation)] /\ w \in Seq(Mutation)
  BY DEF Serial, Apply, TypeInv, TypeOK, CallOK
<1>2. /\ m \in Mutation /\ m.offset = call[c].mutation.offset
      /\ m.end = call[c].mutation.end
  BY <1>1 DEF Mutation, TypeInv, TypeOK
<1>3. /\ UNCHANGED pending /\ \A d \in Caller : d = c
      /\ m.offset = SizeOn(p) /\ m.offset < m.end
  BY <1>1, <1>2 DEF Apply, OneAppender, OneAtATime, Serial
<1>4. CASE Return(c, "Failed") /\ UNCHANGED <<lastId, written>>
  <2>1. call'[c].pc = "idle"
    BY <1>1, <1>4 DEF Return, NoCall
  <2> QED BY <1>3, <1>4, <2>1, OthersSerial DEF Serial
<1>5. CASE /\ Write(p, m)
           /\ call' = [call EXCEPT ![c].pc = "propagate", ![c].mutation = m]
  <2> HIDE DEF m
  <2>1. /\ DOMAIN Append(w, m) = 1..(Len(w) + 1) /\ DOMAIN w = 1..Len(w)
        /\ Append(w, m)[Len(w) + 1] = m /\ Len(w) \in Nat
        /\ \A i \in 1..Len(w) : Append(w, m)[i] = w[i]
    BY <1>1, <1>2, AppendProperties, LenProperties
  <2>2. /\ written' = [written EXCEPT ![p] = Append(w, m)]
        /\ written'[p] = Append(w, m)
    BY <1>1, <1>5 DEF Write
  <2>3. call'[c].pc = "propagate" /\ call'[c].primary = p /\ call'[c].mutation = m
    BY <1>1, <1>5 DEF Call
  <2>4. \A i \in 1..Len(w) : w[i].end <= m.offset
    BY <1>1, <1>3, <2>1, SizeBounded DEF TypeInv, Range
  <2>5. Range(written'[p]) = Range(w) \cup {m}
    BY <1>1, <1>2, <2>2, AppendRange
  <2> HIDE DEF w
  <2>6. \A s \in Replica : Range(written'[s]) \subseteq Range(written'[p])
    <3>1. \A s \in Replica \ {p} : written'[s] = written[s]
      BY <1>1, <2>2
    <3> QED BY <2>5, <3>1 DEF Serial, w
  <2>7. \A n \in Range(written'[p]) : n.offset < n.end
    BY <1>3, <2>5 DEF Serial, w
  <2>8. \A i, j \in DOMAIN written'[p] :
          i < j => written'[p][i].end <= written'[p][j].offset
    <3> SUFFICES ASSUME NEW i \in 1..(Len(w) + 1), NEW j \in 1..(Len(w) + 1),
                        i < j
                 PROVE  Append(w, m)[i].end <= Append(w, m)[j].offset
      BY <2>1, <2>2
    <3>1. i \in 1..Len(w) /\ (j = Len(w) + 1 \/ j \in 1..Len(w))
      BY <2>1
    <3>2. CASE j = Len(w) + 1
      BY <2>1, <2>4, <3>1, <3>2
    <3>3. CASE j \in 1..Len(w)
      <4>1. w[i].end <= w[j].offset
        BY <2>1, <3>1, <3>3 DEF Serial, w
      <4> QED BY <2>1, <3>1, <3>3, <4>1
    <3> QED BY <3>1, <3>2, <3>3
  <2>9. pending'[p] # Nothing => pending'[p] \in Range(written'[p])
    BY <1>3, <2>5 DEF Serial, w
  <2> QED BY <1>3, <2>3, <2>5, <2>6, <2>7, <2>8, <2>9 DEF Serial
<1> QED
  <2>1. \/ Return(c, "Failed") /\ UNCHANGED <<lastId, written>>
        \/ /\ Write(p, m)
           /\ call' = [call EXCEPT ![c].pc = "propagate", ![c].mutation = m]
    BY <1>1 DEF Apply
  <2> QED BY <1>4, <1>5, <2>1

\* The other replicas get nothing else.
LEMMA DeliverSerial ==
  ASSUME TypeInv, OneAppender, NEW c \in Caller, Deliver(c),
         NEW p \in Leader, Serial(p), \A d \in Caller : Beside(d)'
  PROVE  Serial(p)'
<1> DEFINE s == Replicas[call[c].to]
           m == call[c].mutation
<1>1. /\ call[c].primary = p /\ p \in Replica /\ s \in Replica /\ s # p
      /\ call[c] \in Call /\ call \in [Caller -> Call]
      /\ call[c].pc = "propagate" /\ m \in Range(written[p]) /\ m \in Mutation
      /\ written \in [Replica -> Seq(Mutation)]
  BY ReplicaAt DEF Serial, Beside, Deliver, TypeInv, TypeOK, CallOK
<1>2. /\ UNCHANGED pending /\ \A d \in Caller : d = c
      /\ call'[c].mutation = m /\ call'[c].primary = p
      /\ call'[c].pc \in {"propagate", "fail"}
  <2>1. CASE call' = [call EXCEPT ![c].pc = "fail"]
    BY <1>1, <2>1 DEF Call, Deliver, OneAppender, OneAtATime
  <2>2. CASE call' = [call EXCEPT
                        ![c].to = SkipPrimary(call[c].primary, call[c].to + 1)]
    BY <1>1, <2>2 DEF Call, Deliver, OneAppender, OneAtATime
  <2> QED BY <2>1, <2>2 DEF Deliver
<1>3. CASE UNCHANGED written
  BY <1>1, <1>2, <1>3, OthersSerial DEF Serial
<1>4. CASE Write(s, m)
  <2> HIDE DEF s, m
  <2>1. written' = [written EXCEPT ![s] = Append(written[s], m)]
    BY <1>4 DEF Write
  <2>2. Range(Append(written[s], m)) = Range(written[s]) \cup {m}
    <3>1. written[s] \in Seq(Mutation)
      BY <1>1
    <3> QED BY <1>1, <3>1, AppendRange
  <2>3. /\ written'[p] = written[p]
        /\ \A r \in Replica : Range(written'[r]) \subseteq Range(written[p])
    BY <1>1, <2>1, <2>2 DEF Serial
  <2> QED BY <1>1, <1>2, <2>3 DEF Serial
<1> QED BY <1>3, <1>4 DEF Deliver

\* Every step leaves what was appended in its place.
LEMMA NextSerial ==
  ASSUME TypeInv, [Next]_vars, OneAppender, NEW p \in Leader, Serial(p)
  PROVE  Serial(p)'
<1>1. /\ call \in [Caller -> Call] /\ p \in Replica
      /\ pending \in [Replica -> Mutation \cup {Nothing}]
      /\ \A q \in Leader : q = p
  BY ReplicaAssumption DEF TypeInv, TypeOK, Replica, OneAppender, OnePrimary
<1>2. \A d \in Caller : Beside(d)'
  BY NextBeside DEF Serial
<1>3. CASE UNCHANGED vars
  BY <1>2, <1>3, OthersSerial DEF vars, managers, Serial
<1>4. ASSUME NEW c \in Caller, NEW q \in Leader, NEW d \in Data,
             BeginAppend(c, q, d)
      PROVE  Serial(p)'
  <2>1. /\ UNCHANGED <<written, pending>>
        /\ \A e \in Caller \ {c} : call'[e] = call[e]
        /\ call'[c].primary = p /\ call'[c].mutation = pending[p]
        /\ call'[c].pc = IF pending[p] = Nothing THEN "measure" ELSE "propagate"
    BY <1>1, <1>4 DEF BeginAppend, managers
  <2> QED BY <1>2, <2>1, OthersSerial DEF Serial
<1>5. ASSUME NEW c \in Caller, Measure(c) PROVE Serial(p)'
  <2>1. /\ UNCHANGED <<written, pending>> /\ \A d \in Caller : d = c
    BY <1>5 DEF Measure, managers, OneAppender, OneAtATime
  <2>2. CASE Return(c, "RetryNextChunk")
    <3>1. call'[c].pc = "idle"
      BY <1>1, <2>2 DEF Return, NoCall
    <3> QED BY <1>2, <2>1, <3>1, OthersSerial DEF Serial
  <2>3. CASE ~Return(c, "RetryNextChunk")
    <3> DEFINE size == SizeOn(p)
               d == call[c].data
               fits == Fits(size, d)
    <3>1. /\ call[c].primary = p /\ call[c].pc = "measure" /\ d \in Data
      BY <1>5 DEF Measure, Serial, TypeInv, CallOK
    <3>2. size \in 0..ChunkSize
      BY <1>1, SizeBounded DEF TypeInv
    <3> HIDE DEF size, d
    <3>3. /\ call'[c].pc = "apply" /\ call'[c].primary = p
          /\ call'[c].mutation =
               [id |-> 0, offset |-> size,
                end |-> IF fits THEN size + Length[d] ELSE ChunkSize,
                data |-> IF fits THEN d ELSE Padding]
          /\ fits \/ size # ChunkSize
      BY <1>1, <1>5, <2>3, <3>1 DEF Measure, Call, size, d
    <3>4. Length[d] \in Nat \ {0} /\ ChunkSize \in Nat
      BY <3>1, MutationAssumption
    <3> HIDE DEF fits
    <3>5. call'[c].mutation.offset = size
          /\ call'[c].mutation.offset < call'[c].mutation.end
      BY <3>2, <3>3, <3>4
    <3> QED BY <1>2, <2>1, <3>3, <3>5, OthersSerial DEF Serial, size
  <2> QED BY <2>2, <2>3
<1>6. ASSUME NEW c \in Caller, Propagated(c) PROVE Serial(p)'
  <2>1. /\ UNCHANGED <<lastId, written>>
        /\ \A e \in Caller \ {c} : call'[e] = call[e]
        /\ call[c].pc = "propagate"
    BY <1>1, <1>6 DEF Propagated, Return
  <2>2. \/ call'[c].pc = "idle"
        \/ call'[c].pc = "measure" /\ call'[c].primary = call[c].primary
    BY <1>1, <1>6 DEF Propagated, Return, NoCall, Call
  <2>3. pending'[p] \in {pending[p], Nothing}
    BY <1>1, <1>6 DEF Propagated, PendingAfter
  <2> QED BY <1>2, <2>1, <2>2, <2>3, OthersSerial DEF Serial
<1>7. ASSUME NEW c \in Caller, NotPropagated(c) PROVE Serial(p)'
  <2>1. /\ UNCHANGED <<lastId, written>>
        /\ \A e \in Caller \ {c} : call'[e] = call[e]
        /\ call[c].pc = "fail" /\ call'[c].pc = "idle"
    BY <1>1, <1>7 DEF NotPropagated, Return, NoCall
  <2>2. pending'[p] \in {pending[p], call[c].mutation}
    BY <1>1, <1>7 DEF NotPropagated
  <2> QED BY <1>2, <2>1, <2>2, OthersSerial DEF Serial
<1>8. ASSUME NEW r \in Replica, Restart(r) PROVE Serial(p)'
  <2>1. /\ UNCHANGED written /\ pending'[p] \in {pending[p], Nothing}
        /\ \A e \in Caller : call'[e] = call[e] \/ call'[e].pc = "idle"
    BY <1>1, <1>8 DEF Restart, NoCall
  <2> QED BY <1>2, <2>1, OthersSerial DEF Serial
<1>9. ~ \E c \in Caller, q \in Leader, offset \in Offset, d \in Data :
          BeginWrite(c, q, offset, d)
  BY DEF OneAppender
<1>10. ASSUME NEW c \in Caller, Apply(c) PROVE Serial(p)'
  BY <1>2, <1>10, ApplySerial
<1>11. ASSUME NEW c \in Caller, Deliver(c) PROVE Serial(p)'
  BY <1>2, <1>11, DeliverSerial
<1> QED
  BY <1>3, <1>4, <1>5, <1>6, <1>7, <1>8, <1>9, <1>10, <1>11
     DEF Next, Step, Retry

\* What a sequence contains is somewhere for the last time.
LEMMA LastOccurrence ==
  ASSUME NEW S, NEW s \in Seq(S), NEW m \in Range(s)
  PROVE  \E i \in DOMAIN s : s[i] = m /\ \A j \in DOMAIN s : j > i => s[j] # m
<1> DEFINE T == {Len(s) - i : i \in {j \in DOMAIN s : s[j] = m}}
<1>1. DOMAIN s = 1..Len(s) /\ Len(s) \in Nat
  BY LenProperties
<1>2. T \subseteq Nat /\ T # {}
  BY <1>1 DEF Range
<1>3. PICK n \in T : \A k \in T : ~(<<k, n>> \in OpToRel(<, Nat))
  <2> HIDE DEF T
  <2> QED BY <1>2, NatLessThanWellFounded, WFMin
<1>4. \A k \in T : ~(k < n)
  <2> HIDE DEF T
  <2> QED BY <1>2, <1>3, Zenon DEF OpToRel
<1>5. PICK i \in DOMAIN s : s[i] = m /\ n = Len(s) - i
  OBVIOUS
<1>6. ASSUME NEW j \in DOMAIN s, j > i PROVE s[j] # m
  <2>1. Len(s) - j < n
    BY <1>1, <1>5, <1>6
  <2>2. Len(s) - j \notin T
    BY <1>4, <2>1
  <2> QED BY <2>2
<1> QED BY <1>5, <1>6

\* Two mutations of the primary do not overlap.
LEMMA SerialDisjoint ==
  ASSUME TypeInv, NEW p \in Leader, Serial(p),
         NEW m \in Range(written[p]), NEW n \in Range(written[p]), m # n
  PROVE  Disjoint(m, n)
<1>1. PICK i \in DOMAIN written[p], j \in DOMAIN written[p] :
        written[p][i] = m /\ written[p][j] = n
  BY DEF Range
<1>2. i \in Nat /\ j \in Nat /\ i # j
  <2>1. p \in Replica
    BY ReplicaAssumption DEF Replica
  <2>2. written[p] \in Seq(Mutation)
    BY <2>1 DEF TypeInv, TypeOK
  <2> QED BY <1>1, <2>2, LenProperties
<1>3. i < j \/ j < i
  BY <1>2
<1> QED BY <1>1, <1>3 DEF Serial, Disjoint

\* Without a primary nothing is ever appended.
Led ==
  Leader = {} => acked = {} /\ \A c \in Caller : call[c].pc = "idle"

LEMMA NextLed == Led /\ [Next]_vars => Led'
<1> SUFFICES ASSUME Led, [Next]_vars, Leader = {} PROVE Led'
  BY DEF Led
<1>1. acked = {} /\ \A c \in Caller : call[c].pc = "idle"
  BY DEF Led
<1>2. \A c \in Caller : ~Retry(c) /\ ~Step(c)
  BY <1>1 DEF Retry, Step, Measure, Apply, Deliver, Propagated, NotPropagated
<1>3. CASE UNCHANGED vars
  BY <1>1, <1>3 DEF vars, Led
<1>4. CASE \E r \in Replica : Restart(r)
  BY <1>1, <1>4 DEF Restart, NoCall, Led
<1> QED BY <1>2, <1>3, <1>4 DEF Next

\* With one appender and one primary, a record whose append was reported to
\* have succeeded stays readable at its offset on every replica, whatever
\* fails and whoever restarts.
THEOREM AcknowledgedStaysReadable == Spec => []AcknowledgedReadable
<1>1. Init => SerialInv
  <2> SUFFICES ASSUME Init, NEW p \in Leader PROVE Serial(p)
    BY DEF SerialInv
  <2>1. p \in Replica
    BY ReplicaAssumption DEF Replica
  <2> QED BY <2>1 DEF Init, NoCall, Serial, Beside, Range
<1>2. TypeInv /\ SerialInv /\ [Next]_vars => SerialInv'
  BY NextSerial DEF SerialInv, OneAppender, OnePrimary, OneAtATime
<1>3. TypeInv /\ AckInv /\ Led /\ SerialInv => AcknowledgedReadable
  <2> SUFFICES ASSUME TypeInv, AckInv, Led, SerialInv, OneAppender,
                      NEW m \in acked, NEW r \in Replica
               PROVE  \E i \in DOMAIN written[r] :
                        /\ written[r][i] = m
                        /\ \A j \in DOMAIN written[r] :
                             j > i => Disjoint(m, written[r][j])
    BY DEF AcknowledgedReadable, OneAppender
  <2>1. m \in Range(written[r]) /\ written[r] \in Seq(Mutation)
    BY DEF AckInv, AcknowledgedEverywhere, TypeInv, TypeOK
  <2>2. PICK i \in DOMAIN written[r] :
          /\ written[r][i] = m
          /\ \A j \in DOMAIN written[r] : j > i => written[r][j] # m
    BY <2>1, LastOccurrence
  <2>3. PICK p \in Leader : TRUE
    BY DEF Led
  <2>4. Range(written[r]) \subseteq Range(written[p]) /\ Serial(p)
    BY DEF SerialInv, Serial
  <2>5. \A j \in DOMAIN written[r] : written[r][j] \in Range(written[p])
    BY <2>4 DEF Range
  <2>6. \A j \in DOMAIN written[r] : j > i => Disjoint(m, written[r][j])
    BY <2>1, <2>2, <2>4, <2>5, SerialDisjoint
  <2> QED BY <2>2, <2>6
<1>4. Init => AckInv
  BY DEF Init, NoCall, AckInv, AcknowledgedEverywhere, Reached
<1>5. Init => Led
  BY DEF Init, NoCall, Led
<1> QED
  BY <1>1, <1>2, <1>3, <1>4, <1>5, InitType, NextType, NextAck, NextLed, PTL
     DEF Spec

-----------------------------------------------------------------------------
(* What not every replica has is kept.                                     *)

\* What the call holds: a new mutation while the slot of its primary is
\* empty, or the one in the slot, and which replicas have it.
Holds(c) ==
  LET p == call[c].primary
      m == call[c].mutation
      new == call[c].kind \in {"record", "padding"}
  IN  /\ call[c].pc \in {"measure", "apply"} => pending[p] = Nothing
      /\ call[c].pc = "apply" => new /\ call[c].to = SkipPrimary(p, 1)
      /\ call[c].pc \in {"propagate", "fail"} =>
           /\ m \in Range(written[p])
           /\ IF new THEN pending[p] = Nothing
              ELSE call[c].kind = "pending" /\ pending[p] = m
      /\ call[c].pc = "propagate" =>
           /\ call[c].to >= 1
           /\ \A j \in DOMAIN Replicas :
                j < call[c].to => m \in Range(written[Replicas[j]])

\* A call will put m in a slot if it fails.
InHand(m) ==
  \E c \in Caller :
    /\ call[c].pc \in {"propagate", "fail"} /\ call[c].mutation = m
    /\ call[c].kind \in {"record", "padding"}

Outstanding(r, s) == Range(written[r]) \ Range(written[s])

Retained ==
  /\ \A p \in Replica : pending[p] # Nothing => pending[p] \in Range(written[p])
  /\ \A c \in Caller : Holds(c)
  /\ \A r, s \in Replica : \A m \in Outstanding(r, s) :
       (\E q \in Replica : pending[q] = m) \/ InHand(m)

OneAppenderYet == restarts = 0 /\ Offset = {} /\ OneAtATime

RetainInv == OneAppenderYet => Retained

\* The primary writes a mutation and holds it.
LEMMA ApplyRetains ==
  ASSUME TypeInv, [Next]_vars, OneAtATime, Retained, NEW c \in Caller, Apply(c)
  PROVE  Retained'
<1> DEFINE p == call[c].primary
           m == [call[c].mutation EXCEPT !.id = nextId[p]]
<1>1. /\ p \in Replica /\ call[c].mutation \in Mutation
      /\ call \in [Caller -> Call] /\ call[c] \in Call /\ call[c].pc = "apply"
      /\ written \in [Replica -> Seq(Mutation)] /\ written[p] \in Seq(Mutation)
  BY DEF Apply, TypeInv, TypeOK, CallOK
<1>2. /\ m \in Mutation /\ UNCHANGED pending /\ \A d \in Caller : d = c
      /\ pending[p] = Nothing /\ call[c].kind \in {"record", "padding"}
      /\ call[c].to = SkipPrimary(p, 1)
  BY <1>1 DEF Apply, OneAtATime, Mutation, TypeInv, TypeOK, Retained, Holds
<1>3. \A q \in Replica : Range(written[q]) \subseteq Range(written'[q])
  BY WrittenGrows
<1>4. \A q \in Replica : pending'[q] # Nothing => pending'[q] \in Range(written'[q])
  BY <1>2, <1>3 DEF Retained
<1>5. ~ \E n : InHand(n)
  BY <1>1, <1>2 DEF InHand
<1>6. CASE Return(c, "Failed") /\ UNCHANGED <<lastId, written>>
  <2>1. call'[c].pc = "idle"
    BY <1>1, <1>6 DEF Return, NoCall
  <2>2. Holds(c)'
    BY <2>1 DEF Holds
  <2>3. \A r, s \in Replica : \A n \in Outstanding(r, s)' :
          \E q \in Replica : pending'[q] = n
    BY <1>2, <1>5, <1>6 DEF Retained, Outstanding
  <2> QED BY <1>2, <1>4, <2>2, <2>3 DEF Retained
<1>7. CASE /\ Write(p, m)
           /\ call' = [call EXCEPT ![c].pc = "propagate", ![c].mutation = m]
  <2>1. call'[c] = [call[c] EXCEPT !.pc = "propagate", !.mutation = m]
    BY <1>1, <1>7
  <2> HIDE DEF m
  <2>2. /\ call'[c].pc = "propagate" /\ call'[c].mutation = m
        /\ call'[c].primary = p /\ call'[c].kind = call[c].kind
        /\ call'[c].to = call[c].to
    BY <1>1, <2>1 DEF Call
  <2>3. /\ written' = [written EXCEPT ![p] = Append(written[p], m)]
        /\ Range(written'[p]) = Range(written[p]) \cup {m}
    <3>1. written' = [written EXCEPT ![p] = Append(written[p], m)]
      BY <1>7 DEF Write
    <3> QED BY <1>1, <1>2, <3>1, AppendRange
  <2>4. \A j \in DOMAIN Replicas : j < call[c].to => Replicas[j] = p
    BY <1>2, ReplicaAt DEF SkipPrimary
  <2>5. call[c].to >= 1
    BY <1>2 DEF SkipPrimary
  <2>6. Holds(c)'
    BY <1>2, <2>2, <2>3, <2>4, <2>5 DEF Holds
  <2>7. \A n : n = m => InHand(n)'
    BY <1>2, <2>2 DEF InHand
  <2>8. \A r, s \in Replica : \A n \in Outstanding(r, s)' :
          n = m \/ n \in Outstanding(r, s)
    BY <1>1, <1>3, <2>3 DEF Outstanding
  <2>9. \A r, s \in Replica : \A n \in Outstanding(r, s)' :
          (\E q \in Replica : pending'[q] = n) \/ InHand(n)'
    BY <1>2, <1>5, <2>7, <2>8 DEF Retained
  <2> QED BY <1>2, <1>4, <2>6, <2>9 DEF Retained
<1> QED
  <2>1. \/ Return(c, "Failed") /\ UNCHANGED <<lastId, written>>
        \/ /\ Write(p, m)
           /\ call' = [call EXCEPT ![c].pc = "propagate", ![c].mutation = m]
    BY DEF Apply
  <2> QED BY <1>6, <1>7, <2>1

\* A delivery brings one replica closer to the primary.
LEMMA DeliverRetains ==
  ASSUME TypeInv, [Next]_vars, OneAtATime, Retained, NEW c \in Caller, Deliver(c)
  PROVE  Retained'
<1> DEFINE s == Replicas[call[c].to]
           m == call[c].mutation
           next == SkipPrimary(call[c].primary, call[c].to + 1)
<1>1. /\ s \in Replica /\ call[c] \in Call /\ call \in [Caller -> Call]
      /\ call[c].pc = "propagate" /\ m \in Mutation
      /\ call[c].primary \in Replica /\ call[c].to \in DOMAIN Replicas
      /\ written \in [Replica -> Seq(Mutation)]
  BY ReplicaAt DEF Deliver, TypeInv, TypeOK, CallOK
<1>2. UNCHANGED pending /\ (\A d \in Caller : d = c) /\ Holds(c)
  BY DEF Deliver, OneAtATime, Retained
<1>3. \A q \in Replica : Range(written[q]) \subseteq Range(written'[q])
  BY WrittenGrows
<1>4. \A q \in Replica : pending'[q] # Nothing => pending'[q] \in Range(written'[q])
  BY <1>2, <1>3 DEF Retained
<1>5. /\ call'[c].mutation = m /\ call'[c].primary = call[c].primary
      /\ call'[c].kind = call[c].kind /\ call'[c].pc \in {"propagate", "fail"}
      /\ call'[c].pc = "propagate" =>
           call'[c].to = next /\ (Accepts(s, m) /\ Write(s, m))
  <2>1. CASE call' = [call EXCEPT ![c].pc = "fail"]
    BY <1>1, <2>1 DEF Call
  <2>2. CASE /\ call' = [call EXCEPT ![c].to = next]
             /\ Accepts(s, m) /\ Write(s, m)
    BY <1>1, <2>2 DEF Call
  <2> QED BY <2>1, <2>2 DEF Deliver
<1>6. UNCHANGED written \/ Write(s, m)
  BY DEF Deliver
<1>7. Write(s, m) => /\ written' = [written EXCEPT ![s] = Append(written[s], m)]
                     /\ Range(written'[s]) = Range(written[s]) \cup {m}
  <2> SUFFICES ASSUME Write(s, m)
               PROVE  /\ written' = [written EXCEPT ![s] = Append(written[s], m)]
                      /\ Range(written'[s]) = Range(written[s]) \cup {m}
    OBVIOUS
  <2> HIDE DEF s, m
  <2>1. written' = [written EXCEPT ![s] = Append(written[s], m)]
    BY DEF Write
  <2>2. written[s] \in Seq(Mutation)
    BY <1>1
  <2> QED BY <1>1, <2>1, <2>2, AppendRange
<1>8. Holds(c)'
  <2>1. call[c].to \in Nat /\ call[c].to >= 1 /\ next \in Nat
        /\ \A j \in Nat : j < next =>
             j < call[c].to \/ j = call[c].to
             \/ (j \in DOMAIN Replicas => Replicas[j] = call[c].primary)
    BY <1>1, <1>2 DEF SkipPrimary, Holds, Call
  <2>2. /\ m \in Range(written'[call[c].primary])
        /\ \A j \in DOMAIN Replicas :
             j < call[c].to => m \in Range(written'[Replicas[j]])
    BY <1>1, <1>2, <1>3, ReplicaAt DEF Holds
  <2>3. CASE call'[c].pc = "propagate"
    <3>1. m \in Range(written'[s])
      BY <1>5, <1>7, <2>3
    <3>2. \A j \in DOMAIN Replicas :
            j < next => m \in Range(written'[Replicas[j]])
      BY <2>1, <2>2, <3>1, ReplicaAt
    <3>3. next >= 1
      BY <2>1 DEF SkipPrimary
    <3> HIDE DEF next, m
    <3> QED BY <1>1, <1>2, <1>5, <2>2, <2>3, <3>2, <3>3 DEF Holds, m
  <2>4. CASE call'[c].pc = "fail"
    BY <1>1, <1>2, <1>5, <2>2, <2>4 DEF Holds
  <2> QED BY <1>5, <2>3, <2>4
<1>9. \A r, t \in Replica : Outstanding(r, t)' \subseteq Outstanding(r, t) \cup {m}
  BY <1>1, <1>3, <1>6, <1>7 DEF Outstanding
<1>10. \A n : InHand(n) => InHand(n)'
  BY <1>2, <1>5 DEF InHand
<1>11. (\E q \in Replica : pending[q] = m) \/ InHand(m)
  BY <1>1, <1>2 DEF Holds, InHand
<1>12. \A r, t \in Replica : \A n \in Outstanding(r, t)' :
         (\E q \in Replica : pending'[q] = n) \/ InHand(n)'
  BY <1>2, <1>9, <1>10, <1>11 DEF Retained
<1> QED BY <1>2, <1>4, <1>8, <1>12 DEF Retained

\* The slot is filled and emptied as the call ends.
LEMMA FinishRetains ==
  ASSUME TypeInv, OneAtATime, Retained, NEW c \in Caller,
         Propagated(c) \/ NotPropagated(c)
  PROVE  Retained'
<1> DEFINE p == call[c].primary
           m == call[c].mutation
<1>1. /\ p \in Replica /\ m \in Mutation /\ call \in [Caller -> Call]
      /\ call[c] \in Call /\ call[c].pc \in {"propagate", "fail"}
      /\ pending \in [Replica -> Mutation \cup {Nothing}]
      /\ (\A d \in Caller : d = c) /\ Holds(c) /\ UNCHANGED written
  BY DEF Propagated, NotPropagated, TypeInv, TypeOK, CallOK, OneAtATime, Retained
<1>2. /\ m \in Range(written[p])
      /\ \/ call[c].kind \in {"record", "padding"} /\ pending[p] = Nothing
         \/ call[c].kind = "pending" /\ pending[p] = m
  BY <1>1 DEF Holds
<1>3. CASE Propagated(c)
  <2>1. \A r \in Replica : m \in Range(written[r])
    <3>1. \A j \in DOMAIN Replicas : j < call[c].to
      BY <1>1, <1>3, ReplicaAt DEF Propagated, Holds, Call
    <3>2. \A j \in DOMAIN Replicas : m \in Range(written[Replicas[j]])
      BY <1>1, <1>3, <3>1 DEF Propagated, Holds
    <3> QED BY <3>2, PositionOf
  <2>2. \A r, s \in Replica : m \notin Outstanding(r, s)
    BY <2>1 DEF Outstanding
  <2>3. CASE call[c].kind = "pending"
    <3>1. pending' = [pending EXCEPT ![p] = Nothing]
      BY <1>2, <1>3, <2>3 DEF Propagated, PendingAfter
    <3>2. call'[c].pc = "measure" /\ call'[c].primary = p
      BY <1>1, <1>3, <2>3 DEF Propagated, Call
    <3>3. Holds(c)'
      BY <1>1, <3>1, <3>2 DEF Holds
    <3>4. \A r, s \in Replica : \A n \in Outstanding(r, s)' :
            \E q \in Replica : pending'[q] = n
      <4> SUFFICES ASSUME NEW r \in Replica, NEW s \in Replica,
                          NEW n \in Outstanding(r, s)
                   PROVE  \E q \in Replica : pending'[q] = n
        BY <1>1 DEF Outstanding
      <4>1. n # m /\ ~InHand(n)
        BY <1>1, <2>2, <2>3 DEF InHand
      <4>2. PICK q \in Replica : pending[q] = n
        BY <4>1 DEF Retained
      <4>3. q # p
        BY <1>2, <2>3, <4>1, <4>2
      <4> QED BY <1>1, <3>1, <4>2, <4>3
    <3>5. \A q \in Replica : pending'[q] \in {pending[q], Nothing}
      BY <1>1, <3>1
    <3> QED BY <1>1, <3>3, <3>4, <3>5 DEF Retained
  <2>4. CASE call[c].kind # "pending"
    <3>1. UNCHANGED pending /\ call'[c].pc = "idle"
      BY <1>1, <1>3, <2>4 DEF Propagated, Return, NoCall
    <3>2. \A r, s \in Replica : \A n \in Outstanding(r, s)' :
            \E q \in Replica : pending'[q] = n
      BY <1>1, <2>2, <3>1 DEF Outstanding, InHand, Retained
    <3>3. Holds(c)'
      BY <3>1 DEF Holds
    <3> QED BY <1>1, <3>1, <3>2, <3>3 DEF Retained
  <2> QED BY <2>3, <2>4
<1>4. CASE NotPropagated(c)
  <2>1. call'[c].pc = "idle"
    BY <1>1, <1>4 DEF NotPropagated, Return, NoCall
  <2>2. Holds(c)'
    BY <2>1 DEF Holds
  <2>3. pending' = IF call[c].kind \in {"record", "padding"}
                   THEN [pending EXCEPT ![p] = m] ELSE pending
    BY <1>4 DEF NotPropagated
  <2>4. /\ pending'[p] = m
        /\ \A q \in Replica \ {p} : pending'[q] = pending[q]
    BY <1>1, <1>2, <2>3
  <2>5. \A n : InHand(n) => n = m
    BY <1>1 DEF InHand
  <2>6. \A r, s \in Replica : \A n \in Outstanding(r, s)' :
          \E q \in Replica : pending'[q] = n
    <3> SUFFICES ASSUME NEW r \in Replica, NEW s \in Replica,
                        NEW n \in Outstanding(r, s), n # m
                 PROVE  \E q \in Replica : pending'[q] = n
      BY <1>1, <2>4 DEF Outstanding
    <3>1. PICK q \in Replica : pending[q] = n
      BY <2>5 DEF Retained
    <3>2. pending[p] # n
      <4>1. m \in Mutation /\ n \in Range(written[r])
        BY <1>1 DEF Outstanding
      <4>2. CASE pending[p] = m
        BY <4>2
      <4>3. CASE pending[p] = Nothing
        <5>1. written[r] \in Seq(Mutation)
          BY DEF TypeInv, TypeOK
        <5>2. n \in Mutation
          BY <4>1, <5>1, ElementOfSeq, LenProperties DEF Range
        <5> QED BY <4>3, <5>2, NothingAssumption
      <4> QED BY <1>2, <4>2, <4>3
    <3> QED BY <2>4, <3>1, <3>2
  <2>7. \A q \in Replica : pending'[q] # Nothing => pending'[q] \in Range(written[q])
    BY <1>2, <2>4 DEF Retained
  <2> QED BY <1>1, <2>2, <2>6, <2>7 DEF Retained
<1> QED BY <1>3, <1>4

\* What has been written and what is in the slots stays, and no call holds
\* a mutation: nothing is lost.
LEMMA OthersRetain ==
  ASSUME OneAtATime, Retained, UNCHANGED <<written, pending>>,
         NEW c \in Caller, call[c].pc \notin {"propagate", "fail"}, Holds(c)'
  PROVE  Retained'
<1>1. \A d \in Caller : d = c
  BY DEF OneAtATime
<1>2. ~ \E n : InHand(n)
  BY <1>1 DEF InHand
<1> QED BY <1>1, <1>2 DEF Retained, Outstanding

\* Every step keeps what not every replica has, unless it is a restart.
LEMMA NextRetains ==
  ASSUME TypeInv, [Next]_vars, Offset = {}, OneAtATime, Retained, restarts' = 0
  PROVE  Retained'
<1>1. call \in [Caller -> Call] /\ restarts \in Nat
  BY DEF TypeInv, TypeOK
<1>2. CASE UNCHANGED vars
  BY <1>2 DEF vars, managers, Retained, Outstanding, InHand, Holds
<1>3. ASSUME NEW c \in Caller, NEW p \in Leader, NEW d \in Data,
             BeginAppend(c, p, d)
      PROVE  Retained'
  <2>1. p \in Replica /\ call[c].pc = "idle" /\ UNCHANGED <<written, pending>>
    BY <1>3, ReplicaAssumption DEF BeginAppend, managers, Replica
  <2>2. call'[c] =
          [pc |-> IF pending[p] = Nothing THEN "measure" ELSE "propagate",
           kind |-> IF pending[p] = Nothing THEN "record" ELSE "pending",
           primary |-> p, data |-> d, mutation |-> pending[p],
           to |-> SkipPrimary(p, 1), reply |-> call[c].reply]
    BY <1>1, <1>3 DEF BeginAppend
  <2>3. CASE pending[p] = Nothing
    <3>1. Holds(c)'
      BY <2>1, <2>2, <2>3 DEF Holds
    <3> QED BY <2>1, <3>1, OthersRetain
  <2>4. CASE pending[p] # Nothing
    <3>1. pending[p] \in Range(written[p])
      BY <2>1, <2>4 DEF Retained
    <3>2. \A j \in DOMAIN Replicas : j < SkipPrimary(p, 1) => Replicas[j] = p
      BY ReplicaAt DEF SkipPrimary
    <3>3. SkipPrimary(p, 1) >= 1
      BY DEF SkipPrimary
    <3>4. Holds(c)'
      BY <2>1, <2>2, <2>4, <3>1, <3>2, <3>3 DEF Holds
    <3> QED BY <2>1, <3>4, OthersRetain
  <2> QED BY <2>3, <2>4
<1>4. ASSUME NEW c \in Caller, Measure(c) PROVE Retained'
  <2>1. /\ call[c].pc = "measure" /\ UNCHANGED <<written, pending>>
        /\ call[c] \in Call /\ pending[call[c].primary] = Nothing
    BY <1>1, <1>4 DEF Measure, managers, Retained, Holds
  <2>2. \/ call'[c].pc = "idle"
        \/ /\ call'[c].pc = "apply" /\ call'[c].primary = call[c].primary
           /\ call'[c].kind \in {"record", "padding"}
           /\ call'[c].to = SkipPrimary(call[c].primary, 1)
    BY <1>1, <1>4, <2>1 DEF Measure, Return, NoCall, Call
  <2>3. Holds(c)'
    BY <2>1, <2>2 DEF Holds
  <2> QED BY <2>1, <2>3, OthersRetain
<1>5. ~ \E r \in Replica : Restart(r)
  BY <1>1 DEF Restart
<1> QED
  BY <1>2, <1>3, <1>4, <1>5, ApplyRetains, DeliverRetains, FinishRetains
     DEF Next, Step, Retry

\* Until a chunkserver restarts, with one appender and whichever replicas it
\* takes for the primary, a record that one replica has and another lacks is in
\* the slot of some replica when no call is in progress.
THEOREM OutstandingIsRetained == Spec => []OutstandingRetained
<1>1. Init => RetainInv
  BY DEF Init, NoCall, RetainInv, Retained, Holds, Outstanding, Range
<1>2. TypeInv /\ RetainInv /\ [Next]_vars => RetainInv'
  BY NextRetains, RestartsGrow DEF RetainInv, OneAppenderYet, OneAtATime
<1>3. RetainInv => OutstandingRetained
  <2> SUFFICES ASSUME RetainInv, OneAppenderYet,
                      \A c \in Caller : call[c].pc = "idle",
                      NEW r \in Replica, NEW s \in Replica,
                      NEW m \in Range(written[r]) \ Range(written[s])
               PROVE  \E q \in Replica : pending[q] = m
    BY DEF OutstandingRetained, OneAppenderYet
  <2> QED BY DEF RetainInv, Retained, Outstanding, InHand
<1> QED BY <1>1, <1>2, <1>3, InitType, NextType, PTL DEF Spec

=============================================================================
