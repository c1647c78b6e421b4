------------------------- MODULE OperationLogProofs -------------------------
(***************************************************************************)
(* For every number of operations, faults and restarts: the log and the    *)
(* checkpoints keep the promise of DurableLog, and every checkpoint that   *)
(* can be loaded agrees with the tables.                                   *)
(***************************************************************************)
EXTENDS OperationLog, TLAPS, SequenceTheorems

\* What a run keeps besides: the operations of a readable log ascend and hold
\* everything the tables do, the tables ascend, a running process numbers the
\* next record as the file does, and only a running process saves.
LogInv ==
  /\ \A i \in DOMAIN file : file[i] = Torn \/ file[i].op \in 1..tried
  /\ (mode = "up" /\ Readable) => last = Len(file)
  /\ saving # "no" => mode = "up"
  /\ Readable => \A i, j \in DOMAIN file : i < j => file[i].op < file[j].op
  /\ Readable => Elements(live) \subseteq Logged(Len(file))
  /\ Ascending(live)

Inv == TypeOK /\ LogInv /\ CheckpointsAgree

-----------------------------------------------------------------------------
(* Sequences.                                                              *)

\* A sequence over a set is one over every larger set.
LEMMA WiderSeq ==
  ASSUME NEW S, NEW T, S \subseteq T, NEW s \in Seq(S)
  PROVE  s \in Seq(T)
<1>1. /\ Len(s) \in Nat /\ DOMAIN s = 1..Len(s)
      /\ s = [i \in 1..Len(s) |-> s[i]]
      /\ \A i \in 1..Len(s) : s[i] \in S
  BY LenProperties, ElementOfSeq
<1>2. [i \in 1..Len(s) |-> s[i]] \in Seq(T)
  BY <1>1
<1> QED BY <1>1, <1>2

\* What appending a larger number does.
LEMMA AppendAscends ==
  ASSUME NEW n \in Nat, NEW s \in Seq(1..n), Ascending(s)
  PROVE  /\ Append(s, n + 1) \in Seq(1..(n + 1))
         /\ Ascending(Append(s, n + 1))
         /\ Elements(Append(s, n + 1)) = Elements(s) \cup {n + 1}
<1>1. s \in Seq(1..(n + 1))
  <2>1. 1..n \subseteq 1..(n + 1)
    OBVIOUS
  <2> QED BY <2>1, WiderSeq
<1>2. /\ Len(s) \in Nat /\ DOMAIN s = 1..Len(s)
      /\ \A i \in 1..Len(s) : s[i] \in 1..n
  BY LenProperties, ElementOfSeq
<1> DEFINE t == Append(s, n + 1)
<1>3. n + 1 \in 1..(n + 1)
  OBVIOUS
<1>4. /\ t \in Seq(1..(n + 1))
      /\ Len(t) = Len(s) + 1
      /\ DOMAIN t = 1..(Len(s) + 1)
      /\ \A i \in 1..Len(s) : t[i] = s[i]
      /\ t[Len(s) + 1] = n + 1
  BY <1>1, <1>2, <1>3, AppendProperties
<1> HIDE DEF t
<1>5. Ascending(t)
  <2> SUFFICES ASSUME NEW i \in 1..(Len(s) + 1), NEW j \in 1..(Len(s) + 1), i < j
               PROVE  t[i] < t[j]
    BY <1>4 DEF Ascending
  <2>1. i \in 1..Len(s) /\ t[i] = s[i] /\ s[i] \in 1..n
    BY <1>2, <1>4
  <2>2. CASE j \in 1..Len(s)
    BY <2>1, <2>2, <1>2, <1>4 DEF Ascending
  <2>3. CASE j = Len(s) + 1
    BY <2>1, <2>3, <1>4
  <2> QED BY <2>2, <2>3, <1>2
<1>6. Elements(t) = Elements(s) \cup {n + 1}
  <2>1. Elements(t) = {t[i] : i \in 1..(Len(s) + 1)}
    BY <1>4 DEF Elements
  <2>2. Elements(s) = {s[i] : i \in 1..Len(s)}
    BY <1>2 DEF Elements
  <2>3. 1..(Len(s) + 1) = 1..Len(s) \cup {Len(s) + 1}
    BY <1>2
  <2>4. /\ \A i \in 1..Len(s) : t[i] = s[i]
        /\ t[Len(s) + 1] = n + 1
    BY <1>4
  <2> QED BY ONLY <2>1, <2>2, <2>3, <2>4
<1> QED BY <1>4, <1>5, <1>6 DEF t

-----------------------------------------------------------------------------
(* One more record in the file.                                            *)

\* A record at the end changes neither the records before it nor whether they
\* can be read.
LEMMA RecordAdded ==
  ASSUME file \in Seq(Record), NEW r \in Record, file' = Append(file, r)
  PROVE  /\ Len(file) \in Nat /\ DOMAIN file = 1..Len(file)
         /\ file' \in Seq(Record)
         /\ Len(file') = Len(file) + 1 /\ DOMAIN file' = 1..(Len(file) + 1)
         /\ \A i \in 1..Len(file) : file'[i] = file[i]
         /\ file'[Len(file) + 1] = r
         /\ Readable' <=> (Readable /\ r.sequence = Len(file) + 1)
         /\ \A n \in 0..Len(file) : Logged(n)' = Logged(n)
         /\ Logged(Len(file))' = Logged(Len(file)) \cup {r.op}
<1>1. Len(file) \in Nat /\ DOMAIN file = 1..Len(file)
  BY LenProperties
<1>2. /\ file' \in Seq(Record)
      /\ Len(file') = Len(file) + 1 /\ DOMAIN file' = 1..(Len(file) + 1)
      /\ \A i \in 1..Len(file) : file'[i] = file[i]
      /\ file'[Len(file) + 1] = r
  BY <1>1, AppendProperties
<1>3. Readable' <=> (Readable /\ r.sequence = Len(file) + 1)
  BY <1>1, <1>2 DEF Readable
<1>4. \A n \in 0..Len(file) : Logged(n)' = Logged(n)
  <2> SUFFICES ASSUME NEW n \in 0..Len(file) PROVE Logged(n)' = Logged(n)
    OBVIOUS
  <2>1. \A i \in 1..n : file'[i] = file[i]
    BY <1>1, <1>2
  <2> QED BY <2>1 DEF Logged
<1>5. Logged(Len(file))' = Logged(Len(file)) \cup {r.op}
  <2>1. 1..(Len(file) + 1) = 1..Len(file) \cup {Len(file) + 1}
    BY <1>1
  <2>2. Logged(Len(file))' = {file'[i].op : i \in 1..(Len(file) + 1)}
    BY <1>2 DEF Logged
  <2> QED BY <1>2, <2>1, <2>2 DEF Logged
<1> QED BY <1>1, <1>2, <1>3, <1>4, <1>5

\* The tables of the checkpoints stay what they are over more operations.
LEMMA CheckpointsWiden ==
  ASSUME NEW c, NEW n \in Nat, c \in [DOMAIN c -> Seq(1..n)]
  PROVE  c \in [DOMAIN c -> Seq(1..(n + 1))]
<1>1. 1..n \subseteq 1..(n + 1)
  OBVIOUS
<1>2. \A m \in DOMAIN c : c[m] \in Seq(1..(n + 1))
  BY <1>1, WiderSeq
<1> QED BY <1>2

\* A failed append keeps the invariant, whatever it leaves: nothing, a part of
\* a record, or a whole record of an operation the tables do not have.
LEMMA FailedAppend ==
  ASSUME Inv, mode = "up", tried' = tried + 1,
         UNCHANGED <<mode, live, checkpoints, saving>>,
         faults' \in Nat,
         NEW r \in Record,
         \/ file' = file /\ last' = last
         \/ /\ file' = Append(file, r)
            /\ r = Torn
            /\ last' = last
         \/ /\ file' = Append(file, r)
            /\ r = [sequence |-> last + 1, op |-> tried + 1]
            /\ last' = last + 1
  PROVE  Inv'
<1>1. /\ file \in Seq(Record) /\ last \in 0..Len(file) /\ tried \in Nat
      /\ live \in Seq(1..tried) /\ DOMAIN checkpoints \subseteq 0..Len(file)
      /\ checkpoints \in [DOMAIN checkpoints -> Seq(1..tried)]
      /\ mode \in {"up", "down", "refused"}
      /\ saving \in {"no", "written", "removed"}
  BY DEF Inv, TypeOK, Operation
<1>2. Len(file) \in Nat /\ DOMAIN file = 1..Len(file)
  BY <1>1, LenProperties
<1>3. /\ live' \in Seq(Operation')
      /\ checkpoints' \in [DOMAIN checkpoints' -> Seq(Operation')]
  <2>1. 1..tried \subseteq 1..(tried + 1)
    BY <1>1
  <2>2. live \in Seq(1..(tried + 1))
    BY <1>1, <2>1, WiderSeq
  <2>3. checkpoints \in [DOMAIN checkpoints -> Seq(1..(tried + 1))]
    BY <1>1, CheckpointsWiden
  <2>4. Operation' = 1..(tried + 1) /\ live' = live /\ checkpoints' = checkpoints
    BY DEF Operation
  <2> QED BY ONLY <2>2, <2>3, <2>4
<1>4. CASE file' = file /\ last' = last
  <2>1. Readable' = Readable /\ \A n : Logged(n)' = Logged(n)
    BY <1>4 DEF Readable, Logged
  <2>2. TypeOK'
    BY <1>1, <1>3, <1>4 DEF TypeOK
  <2>3. LogInv'
    <3>1. /\ file' = file /\ last' = last /\ mode' = mode /\ saving' = saving
          /\ live' = live
      BY <1>4
    <3>2. \A i \in DOMAIN file : file[i] = Torn \/ file[i].op \in 1..tried'
      BY <1>1 DEF Inv, LogInv
    <3>3. Readable' = Readable /\ Logged(Len(file))' = Logged(Len(file))
      BY <1>4 DEF Readable, Logged
    <3>4. Ascending(live)' /\ Elements(live)' = Elements(live)
      BY <3>1 DEF Inv, LogInv, Ascending, Elements
    <3> QED BY <3>1, <3>2, <3>3, <3>4 DEF Inv, LogInv
  <2>4. CheckpointsAgree'
    BY <2>1 DEF Inv, CheckpointsAgree, Ascending, Elements
  <2> QED BY <2>2, <2>3, <2>4 DEF Inv
<1>5. CASE file' = Append(file, r)
  <2>1. /\ file' \in Seq(Record)
        /\ Len(file') = Len(file) + 1 /\ DOMAIN file' = 1..(Len(file) + 1)
        /\ \A i \in 1..Len(file) : file'[i] = file[i]
        /\ file'[Len(file) + 1] = r
        /\ Readable' <=> (Readable /\ r.sequence = Len(file) + 1)
        /\ \A n \in 0..Len(file) : Logged(n)' = Logged(n)
        /\ Logged(Len(file))' = Logged(Len(file)) \cup {r.op}
    BY ONLY <1>1, <1>5, r \in Record, RecordAdded
  <2>0. \/ r = Torn /\ r.sequence = 0 /\ last' = last
        \/ /\ r.op = tried + 1 /\ r.sequence = last + 1
           /\ last' = last + 1
    <3>1. file' # file
      <4>1. Len(file) \in Nat /\ Len(file') = Len(file) + 1
        BY <1>2, <2>1
      <4> QED BY ONLY <4>1
    <3>2. Torn.sequence = 0
      BY DEF Torn
    <3>3. \/ r = Torn /\ last' = last
          \/ /\ r = [sequence |-> last + 1, op |-> tried + 1]
             /\ last' = last + 1
      BY ONLY <3>1,
           \/ file' = file /\ last' = last
           \/ /\ file' = Append(file, r)
              /\ r = Torn
              /\ last' = last
           \/ /\ file' = Append(file, r)
              /\ r = [sequence |-> last + 1, op |-> tried + 1]
              /\ last' = last + 1
    <3> QED BY ONLY <3>2, <3>3
  <2>2. TypeOK'
    <3>1. last' \in 0..Len(file')
      BY <1>1, <1>2, <2>0, <2>1
    <3> QED BY <1>1, <1>2, <1>3, <2>1, <3>1 DEF TypeOK
  <2>3. \A i \in DOMAIN file' : file'[i] = Torn \/ file'[i].op \in 1..tried'
    BY <1>1, <1>2, <2>0, <2>1 DEF Inv, LogInv
  <2>4. (mode' = "up" /\ Readable') => last' = Len(file')
    BY <1>1, <1>2, <2>0, <2>1
  <2>5. Readable' =>
          \A i, j \in DOMAIN file' : i < j => file'[i].op < file'[j].op
    <3> SUFFICES ASSUME Readable', NEW i \in DOMAIN file', NEW j \in DOMAIN file',
                        i < j
                 PROVE  file'[i].op < file'[j].op
      OBVIOUS
    <3>1. Readable /\ r.op = tried + 1
      <4>1. r.sequence = Len(file) + 1 /\ Readable
        BY <2>1
      <4> QED BY <1>2, <2>0, <4>1
    <3>2. i \in 1..Len(file) /\ file'[i] = file[i] /\ file[i].op \in 0..tried
      BY <1>1, <1>2, <2>1 DEF Inv, LogInv, Torn
    <3>3. CASE j \in 1..Len(file)
      BY <1>2, <2>1, <3>1, <3>2, <3>3 DEF Inv, LogInv
    <3>4. CASE j = Len(file) + 1
      BY <1>1, <2>1, <3>1, <3>2, <3>4
    <3> QED BY <1>2, <2>1, <3>3, <3>4
  <2>6. Readable' => Elements(live)' \subseteq Logged(Len(file))'
    BY <2>1 DEF Inv, LogInv, Elements
  <2>7. LogInv'
    BY <2>3, <2>4, <2>5, <2>6 DEF Inv, LogInv, Ascending
  <2>8. CheckpointsAgree'
    <3> SUFFICES ASSUME Readable', NEW n \in DOMAIN checkpoints
                 PROVE  /\ Ascending(checkpoints[n])
                        /\ Elements(checkpoints[n])
                             = Logged(n)' \cap Elements(live)
      BY DEF CheckpointsAgree, Ascending, Elements
    <3>1. Readable /\ n \in 0..Len(file) /\ Logged(n)' = Logged(n)
      BY <1>1, <2>1
    <3> QED BY <3>1 DEF Inv, CheckpointsAgree
  <2> QED BY <2>2, <2>7, <2>8 DEF Inv
<1> QED BY <1>4, <1>5

\* An acknowledged append keeps the invariant.
LEMMA AcknowledgedAppend ==
  ASSUME Inv, AppendOperation
  PROVE  Inv'
<1> DEFINE r == [sequence |-> last + 1, op |-> tried + 1]
<1>1. /\ file \in Seq(Record) /\ last \in 0..Len(file) /\ tried \in Nat
      /\ live \in Seq(1..tried) /\ DOMAIN checkpoints \subseteq 0..Len(file)
      /\ checkpoints \in [DOMAIN checkpoints -> Seq(1..tried)]
      /\ faults \in Nat /\ Ascending(live)
  BY DEF Inv, TypeOK, LogInv, Operation
<1>2. Len(file) \in Nat /\ DOMAIN file = 1..Len(file)
  BY <1>1, LenProperties
<1>3. /\ mode = "up" /\ mode' = "up" /\ saving' = saving /\ faults' = faults
      /\ checkpoints' = checkpoints /\ tried' = tried + 1 /\ last' = last + 1
      /\ file' = Append(file, r) /\ live' = Append(live, tried + 1)
  BY DEF AppendOperation, Write
<1>4. r \in Record /\ r.op = tried + 1 /\ r.sequence = last + 1
  BY <1>1, <1>2 DEF Record
<1> HIDE DEF r
<1>5. /\ file' \in Seq(Record)
      /\ Len(file') = Len(file) + 1 /\ DOMAIN file' = 1..(Len(file) + 1)
      /\ \A i \in 1..Len(file) : file'[i] = file[i]
      /\ file'[Len(file) + 1] = r
      /\ Readable' <=> (Readable /\ r.sequence = Len(file) + 1)
      /\ \A n \in 0..Len(file) : Logged(n)' = Logged(n)
      /\ Logged(Len(file))' = Logged(Len(file)) \cup {r.op}
  BY ONLY <1>1, <1>3, <1>4, RecordAdded
<1>6. /\ live' \in Seq(1..(tried + 1))
      /\ Ascending(live') /\ Elements(live') = Elements(live) \cup {tried + 1}
  BY ONLY <1>1, <1>3, AppendAscends
<1>7. \A i \in 1..Len(file) : /\ file[i] = Torn \/ file[i].op \in 1..tried
                            /\ file[i].op \in 0..tried
  BY <1>1, <1>2 DEF Inv, LogInv, Torn
<1>8. TypeOK'
  <2>1. checkpoints \in [DOMAIN checkpoints -> Seq(1..(tried + 1))]
    BY <1>1, CheckpointsWiden
  <2>2. last' \in 0..Len(file') /\ DOMAIN checkpoints \subseteq 0..Len(file')
    BY <1>1, <1>2, <1>3, <1>5
  <2>3. Operation' = 1..(tried + 1)
    BY <1>3 DEF Operation
  <2>4. /\ mode' \in {"up", "down", "refused"}
        /\ saving' \in {"no", "written", "removed"}
    BY <1>3 DEF Inv, TypeOK
  <2>5. tried' \in Nat
    BY <1>1, <1>3
  <2> QED BY <1>1, <1>3, <1>5, <1>6, <2>1, <2>2, <2>3, <2>4, <2>5 DEF TypeOK
<1>9. LogInv'
  <2>1. \A i \in DOMAIN file' : file'[i] = Torn \/ file'[i].op \in 1..tried'
    BY <1>1, <1>2, <1>3, <1>4, <1>5, <1>7
  <2>2. (mode' = "up" /\ Readable') => last' = Len(file')
    BY <1>1, <1>2, <1>3, <1>4, <1>5
  <2>3. Readable' =>
          \A i, j \in DOMAIN file' : i < j => file'[i].op < file'[j].op
    <3> SUFFICES ASSUME Readable', NEW i \in DOMAIN file', NEW j \in DOMAIN file',
                        i < j
                 PROVE  file'[i].op < file'[j].op
      OBVIOUS
    <3>1. Readable /\ i \in 1..Len(file) /\ file'[i] = file[i]
      BY <1>2, <1>5
    <3>2. CASE j \in 1..Len(file)
      BY <1>2, <1>5, <3>1, <3>2 DEF Inv, LogInv
    <3>3. CASE j = Len(file) + 1
      BY <1>1, <1>4, <1>5, <1>7, <3>1, <3>3
    <3> QED BY <1>2, <1>5, <3>2, <3>3
  <2>4. Readable' => Elements(live') \subseteq Logged(Len(file))'
    BY <1>4, <1>5, <1>6 DEF Inv, LogInv
  <2> QED BY <1>3, <1>6, <2>1, <2>2, <2>3, <2>4 DEF Inv, LogInv, Elements, Ascending
<1>10. CheckpointsAgree'
  <2> SUFFICES ASSUME Readable', NEW n \in DOMAIN checkpoints
               PROVE  /\ Ascending(checkpoints[n])
                      /\ Elements(checkpoints[n])
                           = Logged(n)' \cap Elements(live')
    BY <1>3 DEF CheckpointsAgree, Ascending, Elements
  <2>1. Readable /\ n \in 0..Len(file) /\ Logged(n)' = Logged(n)
    BY <1>1, <1>5
  <2>2. tried + 1 \notin Logged(n)
    BY <1>1, <1>2, <1>7, <2>1 DEF Logged
  <2> QED BY <1>6, <2>1, <2>2 DEF Inv, CheckpointsAgree
<1> QED BY <1>8, <1>9, <1>10 DEF Inv

-----------------------------------------------------------------------------
(* Reading back.                                                           *)

\* What the log after a sequence number adds to the tables.
LEMMA ReplayAdds ==
  ASSUME Inv, Readable, NEW n \in 0..Len(file)
  PROVE  /\ Replay(n) \in Seq(1..tried)
         /\ Ascending(Replay(n))
         /\ Elements(Replay(n)) = {file[i].op : i \in (n + 1)..Len(file)}
<1>1. /\ file \in Seq(Record) /\ tried \in Nat
      /\ Len(file) \in Nat /\ DOMAIN file = 1..Len(file)
  BY LenProperties DEF Inv, TypeOK
<1>2. \A i \in 1..Len(file) : file[i].op \in 1..tried
  <2> SUFFICES ASSUME NEW i \in 1..Len(file) PROVE file[i].op \in 1..tried
    OBVIOUS
  <2>1. file[i].sequence = i /\ (file[i] = Torn \/ file[i].op \in 1..tried)
    BY <1>1 DEF Readable, Inv, LogInv
  <2>2. Torn.sequence = 0
    BY DEF Torn
  <2> QED BY <2>1, <2>2
<1>3. \A i, j \in 1..Len(file) : i < j => file[i].op < file[j].op
  BY <1>1 DEF Inv, LogInv
<1> DEFINE new == Replay(n)
           k == Len(file) - n
<1>4. k \in Nat /\ \A i \in 1..k : n + i \in 1..Len(file)
  BY <1>1
<1>5. new = [i \in 1..k |-> file[n + i].op]
  <2> DEFINE records == SubSeq(file, n + 1, Len(file))
  <2>1. /\ n + 1 \in Int /\ Len(file) \in Int
        /\ \A i \in (n + 1)..Len(file) : file[i] \in Record
    BY <1>1, ElementOfSeq
  <2>2. /\ records \in Seq(Record)
        /\ Len(records) = IF n + 1 <= Len(file) THEN Len(file) - (n + 1) + 1 ELSE 0
        /\ \A i \in 1..(Len(file) - (n + 1) + 1) :
             records[i] = file[(n + 1) + i - 1]
    BY ONLY <2>1, SubSeqProperties
  <2>3. Len(file) - (n + 1) + 1 = k /\ \A i \in 1..k : (n + 1) + i - 1 = n + i
    BY <1>1, <1>4
  <2>4. (n + 1 <= Len(file)) \/ (k = 0)
    <3>1. Len(file) \in Nat /\ n \in 0..Len(file)
      BY <1>1
    <3> QED BY ONLY <3>1
  <2> HIDE DEF k, records
  <2>5. Len(records) = k /\ DOMAIN records = 1..Len(records)
    BY <2>2, <2>3, <2>4, LenProperties
  <2>6. DOMAIN records = 1..k /\ \A i \in 1..k : records[i] = file[n + i]
    BY <2>2, <2>3, <2>5
  <2>7. new = [i \in DOMAIN records |-> records[i].op]
    BY DEF Replay, records
  <2> HIDE DEF new
  <2> QED BY <2>6, <2>7
<1> HIDE DEF new, k
<1>6. \A i \in 1..k : file[n + i].op \in 1..tried
  BY <1>2, <1>4
<1>7. new \in Seq(1..tried) /\ DOMAIN new = 1..k
  <2>1. DOMAIN new = 1..k
    BY ONLY <1>5
  <2>2. \A i \in 1..k : new[i] \in 1..tried
    BY ONLY <1>5, <1>6
  <2> QED BY <1>4, <1>5, <2>1, <2>2
<1>8. Ascending(new)
  <2>1. ASSUME NEW i \in 1..k, NEW j \in 1..k, i < j
        PROVE  new[i] < new[j]
    <3>1. /\ n + i \in 1..Len(file) /\ n + j \in 1..Len(file)
          /\ n + i < n + j
      BY <1>1, <1>4, <2>1
    <3>2. file[n + i].op < file[n + j].op
      BY ONLY <1>3, <3>1
    <3>3. new[i] = file[n + i].op /\ new[j] = file[n + j].op
      BY ONLY <1>5, i \in 1..k, j \in 1..k
    <3> QED BY ONLY <3>2, <3>3
  <2>2. DOMAIN new = 1..k
    BY ONLY <1>7
  <2> QED BY ONLY <2>1, <2>2 DEF Ascending
<1>9. Elements(new) = {file[i].op : i \in (n + 1)..Len(file)}
  <2>1. Elements(new) = {file[n + i].op : i \in 1..k}
    BY <1>5, <1>7 DEF Elements
  <2>2. ASSUME NEW j \in (n + 1)..Len(file) PROVE j - n \in 1..k /\ n + (j - n) = j
    BY <1>1 DEF k
  <2>3. \A i \in 1..k : n + i \in (n + 1)..Len(file)
    BY <1>1, <1>4
  <2> QED BY <2>1, <2>2, <2>3
<1> QED BY <1>7, <1>8, <1>9 DEF new

\* What putting larger operations behind smaller ones gives.
LEMMA ConcatAscends ==
  ASSUME NEW n \in Nat, NEW s \in Seq(1..n), NEW t \in Seq(1..n),
         Ascending(s), Ascending(t),
         \A x \in Elements(s), y \in Elements(t) : x < y
  PROVE  /\ s \o t \in Seq(1..n)
         /\ Ascending(s \o t)
         /\ Elements(s \o t) = Elements(s) \cup Elements(t)
<1>1. /\ Len(s) \in Nat /\ DOMAIN s = 1..Len(s)
      /\ Len(t) \in Nat /\ DOMAIN t = 1..Len(t)
  BY LenProperties
<1> DEFINE u == s \o t
<1>2. /\ u \in Seq(1..n)
      /\ Len(u) = Len(s) + Len(t)
      /\ \A i \in 1..(Len(s) + Len(t)) :
           u[i] = IF i <= Len(s) THEN s[i] ELSE t[i - Len(s)]
  BY ConcatProperties
<1>3. DOMAIN u = 1..(Len(s) + Len(t))
  BY <1>2, LenProperties
<1> HIDE DEF u
<1>4. ASSUME NEW i \in 1..(Len(s) + Len(t))
      PROVE  \/ i \in 1..Len(s) /\ u[i] = s[i]
             \/ /\ i - Len(s) \in 1..Len(t) /\ u[i] = t[i - Len(s)]
                /\ i > Len(s)
  BY <1>1, <1>2
<1>5. Elements(u) = Elements(s) \cup Elements(t)
  <2>1. Elements(u) \subseteq Elements(s) \cup Elements(t)
    BY <1>1, <1>3, <1>4 DEF Elements
  <2>2. ASSUME NEW i \in 1..Len(s) PROVE s[i] \in Elements(u)
    <3>1. i \in 1..(Len(s) + Len(t)) /\ u[i] = s[i]
      BY <1>1, <1>2
    <3> QED BY <1>3, <3>1 DEF Elements
  <2>3. ASSUME NEW i \in 1..Len(t) PROVE t[i] \in Elements(u)
    <3>1. /\ i + Len(s) \in 1..(Len(s) + Len(t)) /\ ~(i + Len(s) <= Len(s))
          /\ i + Len(s) - Len(s) = i
      BY <1>1
    <3>2. u[i + Len(s)] = t[i]
      BY <1>2, <3>1
    <3> QED BY <1>3, <3>1, <3>2 DEF Elements
  <2> QED BY <1>1, <2>1, <2>2, <2>3 DEF Elements
<1>6. Ascending(u)
  <2> SUFFICES ASSUME NEW i \in 1..(Len(s) + Len(t)),
                      NEW j \in 1..(Len(s) + Len(t)), i < j
               PROVE  u[i] < u[j]
    BY <1>3 DEF Ascending
  <2>1. CASE i \in 1..Len(s) /\ u[i] = s[i]
    <3>1. CASE j \in 1..Len(s) /\ u[j] = s[j]
      BY <1>1, <2>1, <3>1 DEF Ascending
    <3>2. CASE j - Len(s) \in 1..Len(t) /\ u[j] = t[j - Len(s)]
      <4>1. u[i] \in Elements(s) /\ u[j] \in Elements(t)
        BY <1>1, <2>1, <3>2 DEF Elements
      <4> QED BY <4>1
    <3> QED BY <1>4, <3>1, <3>2
  <2>2. CASE /\ i - Len(s) \in 1..Len(t) /\ u[i] = t[i - Len(s)]
             /\ i > Len(s)
    <3>1. /\ j - Len(s) \in 1..Len(t) /\ u[j] = t[j - Len(s)]
          /\ i - Len(s) < j - Len(s)
      BY <1>1, <1>4, <2>2
    <3> QED BY <1>1, <2>2, <3>1 DEF Ascending
  <2> QED BY <1>4, <2>1, <2>2
<1> QED BY <1>2, <1>5, <1>6 DEF u

\* The tables a start builds: they are those of the checkpoint and everything
\* newer in the log, and hold all that the tables held before.
LEMMA TablesRebuilt ==
  ASSUME Inv, Readable, NEW state \in LoadLatest
  PROVE  LET new == state.tables \o Replay(state.sequence)
         IN  /\ state.sequence \in 0..Len(file)
             /\ new \in Seq(1..tried)
             /\ Ascending(new)
             /\ Elements(live) \subseteq Elements(new)
             /\ Elements(new) \subseteq Logged(Len(file))
             /\ \A n \in DOMAIN checkpoints :
                  /\ n <= state.sequence
                  /\ Logged(n) \cap Elements(new) = Logged(n) \cap Elements(live)
<1> DEFINE n == state.sequence
           old == state.tables
           new == old \o Replay(n)
<1>1. /\ file \in Seq(Record) /\ tried \in Nat /\ live \in Seq(1..tried)
      /\ Len(file) \in Nat /\ DOMAIN file = 1..Len(file)
      /\ DOMAIN checkpoints \subseteq 0..Len(file)
      /\ checkpoints \in [DOMAIN checkpoints -> Seq(1..tried)]
  BY LenProperties DEF Inv, TypeOK, Operation
<1>2. Elements(live) \subseteq Logged(Len(file))
  BY DEF Inv, LogInv
<1>3. \A i, j \in 1..Len(file) : i < j => file[i].op < file[j].op
  BY <1>1 DEF Inv, LogInv
<1>4. /\ n \in 0..Len(file) /\ old \in Seq(1..tried) /\ Ascending(old)
      /\ Elements(old) = Logged(n) \cap Elements(live)
      /\ \A m \in DOMAIN checkpoints : m <= n
  <2>1. CASE DOMAIN checkpoints = {}
    <3>1. n = 0 /\ old = <<>>
      BY <2>1 DEF LoadLatest
    <3>2. <<>> \in Seq(1..tried) /\ DOMAIN <<>> = {}
      OBVIOUS
    <3>3. Elements(<<>>) = {} /\ Ascending(<<>>)
      BY <3>2 DEF Elements, Ascending
    <3>4. Logged(0) = {}
      BY DEF Logged
    <3> HIDE DEF n, old
    <3> QED BY <1>1, <2>1, <3>1, <3>2, <3>3, <3>4
  <2>2. CASE DOMAIN checkpoints # {}
    <3>1. PICK m \in DOMAIN checkpoints :
            /\ state = [sequence |-> m, tables |-> checkpoints[m]]
            /\ \A k \in DOMAIN checkpoints : k <= m
      BY <2>2 DEF LoadLatest
    <3>2. n = m /\ old = checkpoints[m]
      BY <3>1
    <3>3. /\ Ascending(checkpoints[m])
          /\ Elements(checkpoints[m]) = Logged(m) \cap Elements(live)
      BY DEF Inv, CheckpointsAgree
    <3> HIDE DEF n, old
    <3> QED BY <1>1, <3>1, <3>2, <3>3
  <2> QED BY <2>1, <2>2
<1> HIDE DEF n, old
<1>5. /\ Replay(n) \in Seq(1..tried) /\ Ascending(Replay(n))
      /\ Elements(Replay(n)) = {file[i].op : i \in (n + 1)..Len(file)}
  BY <1>4, ReplayAdds
<1>6. \A x \in Elements(old), y \in Elements(Replay(n)) : x < y
  <2> SUFFICES ASSUME NEW x \in Elements(old), NEW y \in Elements(Replay(n))
               PROVE  x < y
    OBVIOUS
  <2>1. PICK i \in 1..n : x = file[i].op
    BY ONLY <1>4, x \in Elements(old) DEF Logged
  <2>2. PICK j \in (n + 1)..Len(file) : y = file[j].op
    BY ONLY <1>5, y \in Elements(Replay(n))
  <2>3. i \in 1..Len(file) /\ j \in 1..Len(file) /\ i < j
    BY <1>1, <1>4
  <2>4. file[i].op < file[j].op
    BY ONLY <1>3, <2>3
  <2> QED BY ONLY <2>1, <2>2, <2>4
<1>7. /\ new \in Seq(1..tried) /\ Ascending(new)
      /\ Elements(new) = Elements(old) \cup Elements(Replay(n))
  <2>1. /\ tried \in Nat /\ old \in Seq(1..tried) /\ Ascending(old)
        /\ Replay(n) \in Seq(1..tried) /\ Ascending(Replay(n))
    BY ONLY <1>1, <1>4, <1>5
  <2> QED BY ONLY <1>6, <2>1, ConcatAscends
<1> HIDE DEF new
<1>8. Elements(live) \subseteq Elements(new)
  <2> SUFFICES ASSUME NEW i \in 1..Len(file), file[i].op \in Elements(live)
               PROVE  file[i].op \in Elements(new)
    BY <1>2 DEF Logged
  <2>1. CASE i \in 1..n
    BY <1>4, <1>7, <2>1 DEF Logged
  <2>2. CASE i \in (n + 1)..Len(file)
    BY <1>5, <1>7, <2>2
  <2> QED BY <1>1, <1>4, <2>1, <2>2
<1>9. Elements(new) \subseteq Logged(Len(file))
  <2>1. Elements(old) \subseteq Logged(Len(file))
    BY <1>2, <1>4
  <2>2. (n + 1)..Len(file) \subseteq 1..Len(file)
    BY <1>1, <1>4
  <2>3. Elements(Replay(n)) \subseteq Logged(Len(file))
    BY <1>5, <2>2 DEF Logged
  <2> QED BY <1>7, <2>1, <2>3
<1>10. ASSUME NEW m \in DOMAIN checkpoints
       PROVE  Logged(m) \cap Elements(new) = Logged(m) \cap Elements(live)
  <2>1. ASSUME NEW i \in 1..m, file[i].op \in Elements(Replay(n))
        PROVE  FALSE
    <3>1. PICK j \in (n + 1)..Len(file) : file[i].op = file[j].op
      BY <1>5, <2>1
    <3>2. m \in 0..Len(file) /\ m <= n
      BY <1>1, <1>4
    <3>3. i \in 1..Len(file) /\ j \in 1..Len(file) /\ i < j
      BY <1>1, <1>4, <3>2
    <3>4. file[i].op < file[j].op /\ file[j].op \in Nat
      <4>1. file[j] \in Record
        BY <1>1, <3>3, ElementOfSeq
      <4> QED BY <1>3, <3>3, <4>1 DEF Record
    <3> QED BY <3>1, <3>4
  <2>2. Logged(m) \cap Elements(Replay(n)) = {}
    BY <2>1 DEF Logged
  <2> QED BY <1>4, <1>7, <1>8, <2>2
<1> QED BY <1>4, <1>7, <1>8, <1>9, <1>10 DEF n, old, new

\* A start keeps the invariant, whether it succeeds or is refused.
LEMMA RestartKeeps ==
  ASSUME Inv, Initialize
  PROVE  Inv'
<1>1. /\ file \in Seq(Record) /\ tried \in Nat
      /\ Len(file) \in Nat /\ DOMAIN file = 1..Len(file)
      /\ saving \in {"no", "written", "removed"}
  BY LenProperties DEF Inv, TypeOK
<1>2. /\ mode # "up" /\ file' = file /\ tried' = tried
      /\ checkpoints' = checkpoints /\ saving' = saving /\ faults' = faults
      /\ Readable' = Readable /\ \A n : Logged(n)' = Logged(n)
  BY DEF Initialize, Readable, Logged
<1>3. PICK state \in LoadLatest :
        IF Readable /\ state.sequence <= LastSequence
        THEN /\ mode' = "up"
             /\ last' = LastSequence
             /\ live' = state.tables \o Replay(state.sequence)
        ELSE /\ mode' = "refused"
             /\ UNCHANGED <<last, live>>
  BY DEF Initialize
<1>4. CASE Readable /\ state.sequence <= LastSequence
  <2>1. /\ state.sequence \in 0..Len(file)
        /\ live' \in Seq(1..tried)
        /\ Ascending(live')
        /\ Elements(live) \subseteq Elements(live')
        /\ Elements(live') \subseteq Logged(Len(file))
        /\ \A n \in DOMAIN checkpoints :
             Logged(n) \cap Elements(live') = Logged(n) \cap Elements(live)
    BY <1>3, <1>4, TablesRebuilt
  <2>2. mode' = "up" /\ last' = Len(file)
    <3>1. LastSequence = Len(file)
      <4>1. CASE file = <<>>
        BY <4>1 DEF LastSequence
      <4>2. CASE file # <<>>
        <5>1. Len(file) \in DOMAIN file
          BY <1>1, <4>2, EmptySeq
        <5> QED BY <1>4, <4>2, <5>1 DEF LastSequence, Readable
      <4> QED BY <4>1, <4>2
    <3> QED BY <1>3, <1>4, <3>1
  <2>3. TypeOK'
    BY <1>1, <1>2, <2>1, <2>2 DEF Inv, TypeOK, Operation
  <2>4. LogInv'
    BY <1>1, <1>2, <1>4, <2>1, <2>2 DEF Inv, LogInv, Elements, Ascending, Logged
  <2>5. CheckpointsAgree'
    <3> SUFFICES ASSUME NEW n \in DOMAIN checkpoints
                 PROVE  /\ Ascending(checkpoints[n])
                        /\ Elements(checkpoints[n])
                             = Logged(n) \cap Elements(live')
      BY <1>2 DEF CheckpointsAgree, Ascending, Elements
    <3> QED BY <1>4, <2>1 DEF Inv, CheckpointsAgree
  <2> QED BY <2>3, <2>4, <2>5 DEF Inv
<1>5. CASE ~(Readable /\ state.sequence <= LastSequence)
  <2>1. mode' = "refused" /\ last' = last /\ live' = live
    BY <1>3, <1>5
  <2>2. TypeOK'
    BY <1>2, <2>1 DEF Inv, TypeOK, Operation
  <2>3. LogInv'
    BY <1>2, <2>1 DEF Inv, LogInv, Elements, Ascending, Logged
  <2>4. CheckpointsAgree'
    BY <1>2, <2>1 DEF Inv, CheckpointsAgree, Elements, Ascending
  <2> QED BY <2>2, <2>3, <2>4 DEF Inv
<1> QED BY <1>4, <1>5

-----------------------------------------------------------------------------
(* The checkpoints.                                                        *)

\* A step that only changes which checkpoints there are keeps the invariant
\* when each is an old one or holds the tables of the last sequence number.
LEMMA CheckpointStep ==
  ASSUME Inv, UNCHANGED <<file, last, live, tried>>, faults' \in Nat,
         mode' \in {"up", "down", "refused"}, mode = "up" \/ mode' = mode,
         saving' \in {"no", "written", "removed"},
         saving' # "no" => mode' = "up",
         NEW c, checkpoints' = c,
         c = [n \in DOMAIN c |-> c[n]],
         \A n \in DOMAIN c :
           \/ n \in DOMAIN checkpoints /\ c[n] = checkpoints[n]
           \/ n = last /\ c[n] = live /\ mode = "up"
  PROVE  Inv'
<1>1. /\ file \in Seq(Record) /\ last \in 0..Len(file) /\ tried \in Nat
      /\ live \in Seq(1..tried) /\ DOMAIN checkpoints \subseteq 0..Len(file)
      /\ checkpoints \in [DOMAIN checkpoints -> Seq(1..tried)]
  BY DEF Inv, TypeOK, Operation
<1>2. /\ Readable' = Readable /\ \A n : Logged(n)' = Logged(n)
  BY DEF Readable, Logged
<1>3. TypeOK'
  <2>1. DOMAIN c \subseteq 0..Len(file) /\ \A n \in DOMAIN c : c[n] \in Seq(1..tried)
    BY <1>1
  <2>2. c \in [DOMAIN c -> Seq(1..tried)]
    BY <2>1
  <2> QED BY <1>1, <2>1, <2>2 DEF TypeOK, Operation
<1>4. LogInv'
  BY <1>2 DEF Inv, LogInv, Elements, Ascending, Logged
<1>5. CheckpointsAgree'
  <2> SUFFICES ASSUME Readable, NEW n \in DOMAIN c
               PROVE  /\ Ascending(c[n])
                      /\ Elements(c[n]) = Logged(n) \cap Elements(live)
    BY <1>2 DEF CheckpointsAgree, Elements, Ascending
  <2>1. CASE n \in DOMAIN checkpoints /\ c[n] = checkpoints[n]
    BY <2>1 DEF Inv, CheckpointsAgree
  <2>2. CASE n = last /\ c[n] = live /\ mode = "up"
    <3>1. last = Len(file)
      BY <2>2 DEF Inv, LogInv
    <3> QED BY <2>2, <3>1 DEF Inv, LogInv
  <2> QED BY <2>1, <2>2
<1> QED BY <1>3, <1>4, <1>5 DEF Inv

-----------------------------------------------------------------------------
(* The induction.                                                          *)

\* The invariant holds in an empty directory.
LEMMA InvInit == Init => Inv
<1> SUFFICES ASSUME Init PROVE Inv
  OBVIOUS
<1>1. /\ mode = "up" /\ file = <<>> /\ last = 0 /\ live = <<>> /\ tried = 0
      /\ saving = "no" /\ faults = 0 /\ DOMAIN checkpoints = {}
      /\ checkpoints = [n \in {} |-> <<>>]
  BY DEF Init
<1>2. /\ <<>> \in Seq(Record) /\ <<>> \in Seq(Operation) /\ Len(<<>>) = 0
      /\ DOMAIN <<>> = {}
  OBVIOUS
<1>3. TypeOK
  BY <1>1, <1>2 DEF TypeOK
<1>4. LogInv
  BY <1>1, <1>2 DEF LogInv, Elements, Ascending
<1>5. CheckpointsAgree
  BY <1>1 DEF CheckpointsAgree
<1> QED BY <1>3, <1>4, <1>5 DEF Inv

\* Every action keeps it.
LEMMA InvStep == Inv /\ [Next]_vars => Inv'
<1> SUFFICES ASSUME Inv, [Next]_vars PROVE Inv'
  OBVIOUS
<1>1. /\ checkpoints = [n \in DOMAIN checkpoints |-> checkpoints[n]]
      /\ mode \in {"up", "down", "refused"} /\ faults \in Nat
      /\ saving \in {"no", "written", "removed"}
      /\ saving # "no" => mode = "up"
      /\ tried \in Nat /\ last \in Nat /\ file \in Seq(Record)
  <2>1. last \in 0..Len(file) /\ file \in Seq(Record)
    BY DEF Inv, TypeOK
  <2>2. last \in Nat
    BY <2>1, LenProperties
  <2> QED BY <2>2 DEF Inv, TypeOK, LogInv
<1>2. CASE AppendOperation
  BY <1>2, AcknowledgedAppend
<1>3. CASE FailFlush
  <2> DEFINE r == [sequence |-> last + 1, op |-> tried + 1]
  <2>1. /\ mode = "up" /\ tried' = tried + 1 /\ faults' \in Nat
        /\ UNCHANGED <<mode, live, checkpoints, saving>>
        /\ file' = Append(file, r) /\ last' = last + 1
    BY <1>1, <1>3 DEF FailFlush, Fault, Write
  <2>2. r \in Record
    BY <1>1 DEF Record
  <2> QED BY <2>1, <2>2, FailedAppend
<1>4. CASE FailWrite
  <2>1. /\ mode = "up" /\ tried' = tried + 1 /\ faults' \in Nat
        /\ UNCHANGED <<mode, live, checkpoints, saving>>
        /\ last' = last /\ (file' = file \/ file' = Append(file, Torn))
    BY <1>1, <1>4 DEF FailWrite, Fault
  <2>2. Torn \in Record
    BY DEF Record, Torn
  <2> QED BY <2>1, <2>2, FailedAppend
<1>5. CASE BeginCheckpoint
  <2>1. /\ mode = "up" /\ mode' = mode /\ saving' = "written"
        /\ UNCHANGED <<file, last, live, tried>> /\ faults' = faults
        /\ checkpoints' = checkpoints
    BY <1>5 DEF BeginCheckpoint
  <2> QED BY <1>1, <2>1, CheckpointStep
<1>6. CASE InstallCheckpoint
  <2> DEFINE c == With(last, live)
  <2>1. /\ mode = "up" /\ mode' = mode /\ saving' = "no"
        /\ UNCHANGED <<file, last, live, tried>> /\ faults' = faults
        /\ checkpoints' = c
    BY <1>1, <1>6 DEF InstallCheckpoint
  <2>2. /\ c = [n \in DOMAIN c |-> c[n]]
        /\ \A n \in DOMAIN c :
             \/ n \in DOMAIN checkpoints /\ c[n] = checkpoints[n]
             \/ n = last /\ c[n] = live /\ mode = "up"
    BY <2>1 DEF With
  <2> HIDE DEF c
  <2> QED BY <1>1, <2>1, <2>2, CheckpointStep
<1>7. ASSUME NEW k, checkpoints' = Without(k),
             UNCHANGED <<mode, file, last, live, tried>>, faults' \in Nat,
             \/ saving' = saving
             \/ saving = "written" /\ saving' = "removed"
      PROVE  Inv'
  <2> DEFINE c == Without(k)
  <2>1. /\ c = [n \in DOMAIN c |-> c[n]]
        /\ \A n \in DOMAIN c : n \in DOMAIN checkpoints /\ c[n] = checkpoints[n]
    BY DEF Without
  <2> HIDE DEF c
  <2> QED BY <1>1, <1>7, <2>1, CheckpointStep DEF c
<1>8. CASE RemoveOld
  BY <1>1, <1>7, <1>8 DEF RemoveOld, Fault
<1>9. CASE GiveUpCheckpoint
  <2>1. /\ mode = "up" /\ mode' = mode /\ saving' = "no"
        /\ UNCHANGED <<file, last, live, tried>> /\ faults' \in Nat
        /\ checkpoints' = checkpoints
    BY <1>1, <1>9 DEF GiveUpCheckpoint, Fault
  <2> QED BY <1>1, <2>1, CheckpointStep
<1>10. CASE DamageCheckpoint
  BY <1>1, <1>7, <1>10 DEF DamageCheckpoint, Fault
<1>11. CASE Crash
  <2>1. /\ mode = "up" /\ mode' = "down" /\ saving' = "no"
        /\ UNCHANGED <<file, last, live, tried>> /\ faults' = faults
        /\ checkpoints' = checkpoints
    BY <1>11 DEF Crash
  <2> QED BY <1>1, <2>1, CheckpointStep
<1>12. CASE Initialize
  BY <1>12, RestartKeeps
<1>13. CASE UNCHANGED vars
  <2>1. /\ mode' = mode /\ saving' = saving /\ checkpoints' = checkpoints
        /\ UNCHANGED <<file, last, live, tried>> /\ faults' = faults
    BY <1>13 DEF vars
  <2> QED BY <1>1, <2>1, CheckpointStep
<1> QED
  BY <1>2, <1>3, <1>4, <1>5, <1>6, <1>8, <1>9, <1>10, <1>11, <1>12, <1>13
  DEF Next

\* The inductive invariant of every run.
LEMMA InvAlways == Spec => []Inv
BY InvInit, InvStep, PTL DEF Spec

\* Type correctness of the log, the checkpoints and the tables.
THEOREM LogTypes == Spec => []TypeOK
<1>1. Inv => TypeOK
  BY DEF Inv
<1> QED BY <1>1, InvAlways, PTL

\* Every checkpoint a start can load agrees with the tables on the part of
\* the log it covers, so that falling back on an older one is safe.
THEOREM CheckpointsAlwaysAgree == Spec => []CheckpointsAgree
<1>1. Inv => CheckpointsAgree
  BY DEF Inv
<1> QED BY <1>1, InvAlways, PTL

-----------------------------------------------------------------------------
(* The refinement.                                                         *)

\* Each step is one of the promise, or changes nothing it speaks of: an append
\* is acknowledged or fails, and a start brings the tables back or is refused
\* when the log is damaged.
LEMMA StepKeepsPromise ==
  Inv /\ Inv' /\ [Next]_vars => [Durable!Next]_(Durable!promise)
<1> SUFFICES ASSUME Inv, Inv', [Next]_vars
             PROVE  [Durable!Next]_(Durable!promise)
  OBVIOUS
<1>1. /\ file \in Seq(Record) /\ tried \in Nat /\ last \in Nat
      /\ Len(file) \in Nat /\ DOMAIN file = 1..Len(file)
  <2>1. file \in Seq(Record) /\ tried \in Nat /\ last \in 0..Len(file)
    BY DEF Inv, TypeOK
  <2>2. Len(file) \in Nat /\ DOMAIN file = 1..Len(file)
    BY <2>1, LenProperties
  <2> QED BY <2>1, <2>2
<1>2. ASSUME file' = file PROVE Readable' = Readable
  BY <1>2 DEF Readable
<1>3. ASSUME UNCHANGED <<file, live, tried, mode>>
      PROVE  UNCHANGED Durable!promise
  BY <1>2, <1>3 DEF Durable!promise
<1>4. ASSUME Write, mode = "up" PROVE Readable' = Readable
  <2> DEFINE r == [sequence |-> last + 1, op |-> tried + 1]
  <2>1. file' = Append(file, r) /\ r \in Record /\ r.sequence = last + 1
    BY <1>1, <1>4 DEF Write, Record
  <2> HIDE DEF r
  <2>2. Readable' <=> (Readable /\ r.sequence = Len(file) + 1)
    BY ONLY <1>1, <2>1, RecordAdded
  <2>3. Readable => last = Len(file)
    BY <1>4 DEF Inv, LogInv
  <2>4. Readable \in BOOLEAN /\ Readable' \in BOOLEAN
    BY DEF Readable
  <2> QED BY <2>1, <2>2, <2>3, <2>4
<1>5. CASE AppendOperation
  <2>1. /\ mode = "up" /\ mode' = mode /\ tried' = tried + 1
        /\ live' = Append(live, tried + 1) /\ Write
    BY <1>5 DEF AppendOperation
  <2>2. Readable' = Readable
    BY <1>4, <2>1
  <2>3. Durable!Acknowledge
    BY <2>1, <2>2 DEF Durable!Acknowledge
  <2> QED BY <2>3 DEF Durable!Next
<1>6. CASE FailFlush
  <2>1. /\ mode = "up" /\ mode' = mode /\ tried' = tried + 1
        /\ live' = live /\ Write
    BY <1>6 DEF FailFlush
  <2>2. Readable' = Readable
    BY <1>4, <2>1
  <2>3. Durable!Fail
    BY <2>1, <2>2 DEF Durable!Fail
  <2> QED BY <2>3 DEF Durable!Next
<1>7. CASE FailWrite
  <2>1. /\ mode = "up" /\ mode' = mode /\ tried' = tried + 1
        /\ live' = live /\ file' \in {file, Append(file, Torn)}
    BY <1>7 DEF FailWrite
  <2>2. Readable' = Readable \/ Readable' = FALSE
    <3>1. CASE file' = file
      BY <1>2, <3>1
    <3>2. CASE file' = Append(file, Torn)
      <4>1. Torn \in Record /\ Torn.sequence = 0
        BY DEF Torn, Record
      <4>2. Readable' <=> (Readable /\ Torn.sequence = Len(file) + 1)
        BY ONLY <1>1, <3>2, <4>1, RecordAdded
      <4>3. Readable' \in BOOLEAN
        BY DEF Readable
      <4> QED BY <1>1, <4>1, <4>2, <4>3
    <3> QED BY <2>1, <3>1, <3>2
  <2>3. (~Readable)' \in {~Readable, TRUE}
    BY <2>2
  <2>4. Durable!Fail
    BY <2>1, <2>3 DEF Durable!Fail
  <2> QED BY <2>4 DEF Durable!Next
<1>8. CASE Crash
  <2>1. /\ mode = "up" /\ mode' = "down" /\ tried' = tried /\ live' = live
        /\ Readable' = Readable
    BY <1>2, <1>8 DEF Crash
  <2>2. Durable!Stop
    BY <2>1 DEF Durable!Stop
  <2> QED BY <2>2 DEF Durable!Next
<1>9. CASE Initialize
  <2>1. /\ mode # "up" /\ tried' = tried /\ Readable' = Readable
        /\ file' = file
    BY <1>2, <1>9 DEF Initialize
  <2>2. PICK state \in LoadLatest :
          IF Readable /\ state.sequence <= LastSequence
          THEN /\ mode' = "up"
               /\ last' = LastSequence
               /\ live' = state.tables \o Replay(state.sequence)
          ELSE /\ mode' = "refused"
               /\ UNCHANGED <<last, live>>
    BY <1>9 DEF Initialize
  <2>3. CASE Readable /\ state.sequence <= LastSequence
    <3>1. /\ mode' = "up" /\ live' \in Seq(1..tried) /\ Ascending(live')
          /\ Elements(live) \subseteq Elements(live')
      BY <2>2, <2>3, TablesRebuilt
    <3>2. Durable!Start
      BY <2>1, <2>3, <3>1 DEF Durable!Start, Durable!Ascending, Ascending,
                              Durable!Elements, Elements
    <3> QED BY <3>2 DEF Durable!Next
  <2>4. CASE ~(Readable /\ state.sequence <= LastSequence)
    <3>1. mode' = "refused" /\ live' = live
      BY <2>2, <2>4
    <3>2. ~Readable
      <4> SUFFICES ASSUME Readable PROVE FALSE
        OBVIOUS
      <4>1. state.sequence \in 0..Len(file)
        BY TablesRebuilt
      <4>2. LastSequence = Len(file)
        <5>1. CASE file = <<>>
          BY <5>1 DEF LastSequence
        <5>2. CASE file # <<>>
          <6>1. Len(file) \in DOMAIN file
            BY <1>1, <5>2, EmptySeq
          <6> QED BY <5>2, <6>1 DEF LastSequence, Readable
        <5> QED BY <5>1, <5>2
      <4> QED BY <1>1, <2>4, <4>1, <4>2
    <3>3. Durable!Refuse
      BY <2>1, <3>1, <3>2 DEF Durable!Refuse
    <3> QED BY <3>3 DEF Durable!Next
  <2> QED BY <2>3, <2>4
<1>10. CASE BeginCheckpoint
  BY <1>3, <1>10 DEF BeginCheckpoint
<1>11. CASE InstallCheckpoint
  BY <1>3, <1>11 DEF InstallCheckpoint
<1>12. CASE RemoveOld
  BY <1>3, <1>12 DEF RemoveOld
<1>13. CASE GiveUpCheckpoint
  BY <1>3, <1>13 DEF GiveUpCheckpoint
<1>14. CASE DamageCheckpoint
  BY <1>3, <1>14 DEF DamageCheckpoint
<1>15. CASE UNCHANGED vars
  BY <1>3, <1>15 DEF vars
<1> QED
  BY <1>5, <1>6, <1>7, <1>8, <1>9, <1>10, <1>11, <1>12, <1>13, <1>14, <1>15
  DEF Next

\* The log and the checkpoints implement the promise the handlers rely on:
\* after any crashes, failed appends and lost checkpoints, every acknowledged
\* operation comes back once and in order, or the start is refused.
THEOREM LogImplementsPromise == Spec => RestartsKeepTheTables
<1>1. Init => Durable!Init
  <2> SUFFICES ASSUME Init PROVE Durable!Init
    OBVIOUS
  <2>1. Readable
    BY DEF Init, Readable
  <2> QED BY <2>1 DEF Init, Durable!Init
<1> QED BY <1>1, InvAlways, StepKeepsPromise, PTL
  DEF Spec, RestartsKeepTheTables, Durable!Spec

=============================================================================
