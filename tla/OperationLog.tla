---------------------------- MODULE OperationLog ----------------------------
(***************************************************************************)
(* The files a restart of the master reads: the operation log              *)
(* (master/recovery/operation_log.cpp), the checkpoints                    *)
(* (master/recovery/checkpoint.cpp), and the way master.cpp appends to the *)
(* one, writes the others and rebuilds its tables from both.               *)
(*                                                                         *)
(* An operation is its number in the order of the attempts, and the tables *)
(* are the sequence of the operations applied to them: module Master says  *)
(* what each operation does and which records replay refuses; this one is  *)
(* about which records are there, in which order and how often.            *)
(***************************************************************************)
EXTENDS Naturals, Sequences

CONSTANTS
  MaxOp,      \* bound on the operations attempted
  MaxFaults   \* bound on failed appends, failed renames and lost checkpoints

ASSUME LogAssumption == MaxOp \in Nat /\ MaxFaults \in Nat

VARIABLES
  mode,         \* the process: "up", "down", or "refused" by Initialize
  file,         \* the records of operation.log
  last,         \* OperationLog::last_sequence_
  live,         \* the tables; while the process is down, what they held
  tried,        \* the number of operations attempted
  checkpoints,  \* checkpoint_<n>.bin, for those that Load accepts
  saving,       \* how far Checkpoint::Create has come
  faults        \* the number of faults so far

vars == <<mode, file, last, live, tried, checkpoints, saving, faults>>

Operation == 1..tried
Record == [sequence : Nat, op : Nat]

\* What an append that fails half-way leaves: no record can be read there.
Torn == [sequence |-> 0, op |-> 0]

Elements(s) == {s[i] : i \in DOMAIN s}
Ascending(s) == \A i, j \in DOMAIN s : i < j => s[i] < s[j]

\* The operations of the first n records.
Logged(n) == {file[i].op : i \in 1..n}

\* A first start, in an empty directory.
Init ==
  /\ mode = "up"
  /\ file = <<>>
  /\ last = 0
  /\ live = <<>>
  /\ tried = 0
  /\ checkpoints = [n \in {} |-> <<>>]
  /\ saving = "no"
  /\ faults = 0

Fault ==
  /\ faults < MaxFaults
  /\ faults' = faults + 1

-----------------------------------------------------------------------------
(* Reading the log.                                                        *)

\* ReadRecords: the sequence numbers count up from 1 and every record is
\* whole; otherwise it reads nothing.
Readable == \A i \in DOMAIN file : file[i].sequence = i

\* Variant with a fault: the record the checkpoint ends at is read again.
ReplayFrom(after) ==
  LET records == SubSeq(file, IF after = 0 THEN 1 ELSE after, Len(file))
  IN  [i \in DOMAIN records |-> records[i].op]

\* The records newer than a sequence number, of a readable log.
Replay(after) ==
  LET records == SubSeq(file, after + 1, Len(file))
  IN  [i \in DOMAIN records |-> records[i].op]

LastSequence == IF file = <<>> THEN 0 ELSE file[Len(file)].sequence

-----------------------------------------------------------------------------
(* Appending.                                                              *)

\* The record is in the file, and Append has moved last_sequence_.
Write ==
  /\ file' = Append(file, [sequence |-> last + 1, op |-> tried + 1])
  /\ last' = last + 1

\* AppendOperation, and the handler that applies what it has logged.
AppendOperation ==
  /\ mode = "up"
  /\ saving = "no"
  /\ tried < MaxOp
  /\ Write
  /\ live' = Append(live, tried + 1)
  /\ tried' = tried + 1
  /\ UNCHANGED <<mode, checkpoints, saving, faults>>

\* The record is whole, but Flush cannot open the file: the request fails,
\* with its record in the log.
FailFlush ==
  /\ mode = "up"
  /\ saving = "no"
  /\ tried < MaxOp
  /\ Fault
  /\ Write
  /\ tried' = tried + 1
  /\ UNCHANGED <<mode, live, checkpoints, saving>>

\* WriteRecord fails, after a part of the record or before any of it.
FailWrite ==
  /\ mode = "up"
  /\ saving = "no"
  /\ tried < MaxOp
  /\ Fault
  /\ file' \in {file, Append(file, Torn)}
  /\ tried' = tried + 1
  /\ UNCHANGED <<mode, last, live, checkpoints, saving>>

-----------------------------------------------------------------------------
(* Checkpoints.  Create writes a temporary file, which no start looks at,  *)
(* and renames it to the name with the last sequence number.               *)

Without(n) == [m \in DOMAIN checkpoints \ {n} |-> checkpoints[m]]

With(n, tables) ==
  [m \in DOMAIN checkpoints \cup {n} |->
     IF m = n THEN tables ELSE checkpoints[m]]

BeginCheckpoint ==
  /\ mode = "up"
  /\ saving = "no"
  /\ saving' = "written"
  /\ UNCHANGED <<mode, file, last, live, tried, checkpoints, faults>>

\* Variant with a fault: the checkpoint counts the next record as well.
InstallAhead ==
  /\ saving # "no"
  /\ checkpoints' = With(last + 1, live)
  /\ saving' = "no"
  /\ UNCHANGED <<mode, file, last, live, tried, faults>>

\* The rename, at the first or at the second attempt.
InstallCheckpoint ==
  /\ saving # "no"
  /\ checkpoints' = With(last, live)
  /\ saving' = "no"
  /\ UNCHANGED <<mode, file, last, live, tried, faults>>

\* The rename fails, and Create removes what may be in its way.
RemoveOld ==
  /\ saving = "written"
  /\ Fault
  /\ checkpoints' = Without(last)
  /\ saving' = "removed"
  /\ UNCHANGED <<mode, file, last, live, tried>>

\* The second rename fails too: Create returns false.
GiveUpCheckpoint ==
  /\ saving = "removed"
  /\ Fault
  /\ saving' = "no"
  /\ UNCHANGED <<mode, file, last, live, tried, checkpoints>>

\* A checkpoint becomes one that Load refuses: its checksum, its length or its
\* contents are wrong.
DamageCheckpoint ==
  \E n \in DOMAIN checkpoints :
    /\ Fault
    /\ checkpoints' = Without(n)
    /\ UNCHANGED <<mode, file, last, live, tried, saving>>

\* Variant with a fault: the files are tried in the order of the directory.
LoadAny ==
  IF DOMAIN checkpoints = {}
  THEN {[sequence |-> 0, tables |-> <<>>]}
  ELSE {[sequence |-> n, tables |-> checkpoints[n]] :
          n \in DOMAIN checkpoints}

\* The checkpoint with the highest number among those that can be loaded; the
\* empty tables when there is none.
LoadLatest ==
  IF DOMAIN checkpoints = {}
  THEN {[sequence |-> 0, tables |-> <<>>]}
  ELSE {[sequence |-> n, tables |-> checkpoints[n]] :
          n \in {m \in DOMAIN checkpoints :
                   \A k \in DOMAIN checkpoints : k <= m}}

-----------------------------------------------------------------------------
(* Crashes and restarts.                                                   *)

\* The tables are gone: `live' keeps what they held only to say what a start
\* has to bring back, and Initialize does not read it.
Crash ==
  /\ mode = "up"
  /\ mode' = "down"
  /\ saving' = "no"
  /\ UNCHANGED <<file, last, live, tried, checkpoints, faults>>

\* Open, Validate, LoadLatest, Restore or Clear, and Replay; the server exits
\* when Initialize returns false, and may be started again.
Initialize ==
  /\ mode # "up"
  /\ \E state \in LoadLatest :
       IF Readable /\ state.sequence <= LastSequence
       THEN /\ mode' = "up"
            /\ last' = LastSequence
            /\ live' = state.tables \o Replay(state.sequence)
       ELSE /\ mode' = "refused"
            /\ UNCHANGED <<last, live>>
  /\ UNCHANGED <<file, tried, checkpoints, saving, faults>>

Next ==
  \/ AppendOperation
  \/ FailFlush
  \/ FailWrite
  \/ BeginCheckpoint
  \/ InstallCheckpoint
  \/ RemoveOld
  \/ GiveUpCheckpoint
  \/ DamageCheckpoint
  \/ Crash
  \/ Initialize

Spec == Init /\ [][Next]_vars

-----------------------------------------------------------------------------
(* Properties.                                                             *)

\* Types; the process appends at the end of its own numbering, and every
\* checkpoint is of a sequence number that some record or none had.
TypeOK ==
  /\ mode \in {"up", "down", "refused"}
  /\ file \in Seq(Record)
  /\ last \in 0..Len(file)
  /\ tried \in Nat
  /\ live \in Seq(Operation)
  /\ DOMAIN checkpoints \subseteq 0..Len(file)
  /\ checkpoints \in [DOMAIN checkpoints -> Seq(Operation)]
  /\ saving \in {"no", "written", "removed"}
  /\ faults \in Nat

\* Every checkpoint that can be loaded agrees with the tables on the part of
\* the log it covers.  This is what makes it safe to fall back on an older
\* checkpoint when the newest is damaged or was lost between the removal and
\* the rename, although a record whose flush failed is skipped by the
\* checkpoints taken before a restart and replayed by a start without them.
CheckpointsAgree ==
  Readable =>
    \A n \in DOMAIN checkpoints :
      /\ Ascending(checkpoints[n])
      /\ Elements(checkpoints[n]) = Logged(n) \cap Elements(live)

\* The log and the checkpoints keep the promise the handlers rely on: after
\* any crashes, failed appends and lost checkpoints a restart brings back
\* every acknowledged operation once and in order, or is refused because an
\* append left a part of a record (tests/phase11_test.cpp,
\* RecoversFromCheckpointAndNewerLog and DetectsTruncatedLog).
Durable == INSTANCE DurableLog WITH tables <- live, damaged <- ~Readable

RestartsKeepTheTables == Durable!Spec

=============================================================================
