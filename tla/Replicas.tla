------------------------------ MODULE Replicas ------------------------------
(***************************************************************************)
(* The functions of ReplicaManager on the replica list of one chunk        *)
(* (master/replication/replica_manager.cpp).  The list keeps the order in  *)
(* which servers were registered; its head is promoted when the primary    *)
(* leaves.                                                                 *)
(***************************************************************************)
EXTENDS Naturals, Sequences, SequencesExt

Servers(rs) == {rs[i].server : i \in DOMAIN rs}
Primaries(rs) == {rs[i].server : i \in {j \in DOMAIN rs : rs[j].primary}}

\* Everyone but s is demoted; s is promoted if it is listed.
WithPrimary(rs, s) ==
  [i \in DOMAIN rs |-> [rs[i] EXCEPT !.primary = (rs[i].server = s)]]

\* Variant with a fault: the old primary is not demoted.
RegisteredBeside(rs, s, primary) ==
  IF s \in Servers(rs) THEN rs
  ELSE Append(rs, [server |-> s, primary |-> primary])

Registered(rs, s, primary) ==
  IF s \in Servers(rs)
  THEN IF primary THEN WithPrimary(rs, s) ELSE rs
  ELSE Append(IF primary THEN WithPrimary(rs, s) ELSE rs,
              [server |-> s, primary |-> primary])

\* For a server that is listed.
Unregistered(rs, s) ==
  LET rest == RemoveAt(rs, CHOOSE i \in DOMAIN rs : rs[i].server = s)
  IN  IF rest # <<>> /\ Primaries(rest) = {}
      THEN [rest EXCEPT ![1].primary = TRUE]
      ELSE rest

\* Variant with a fault: nobody is made primary.
RegisteredAllBackups(rs, servers) ==
  rs \o [i \in DOMAIN servers |-> [server |-> servers[i], primary |-> FALSE]]

\* Registers the servers of a sequence one after the other, the first one as
\* the primary, and stops at the first that RegisterReplica refuses.
RegisteredAll(rs, servers) ==
  LET listed == {i \in DOMAIN servers : servers[i] \in Servers(rs)}
      added == IF listed = {} THEN Len(servers)
               ELSE (CHOOSE i \in listed : \A j \in listed : i <= j) - 1
      new == [i \in 1..added |->
                [server |-> servers[i], primary |-> i = 1]]
  IN  IF servers = <<>> THEN rs
      ELSE WithPrimary(rs, servers[1]) \o new

\* A list kept for a chunk is not empty, names a server once and has at most
\* one primary.
IsReplicaList(rs) ==
  /\ rs # <<>>
  /\ \A i, j \in DOMAIN rs : rs[i].server = rs[j].server => i = j
  /\ \A i, j \in DOMAIN rs : rs[i].primary /\ rs[j].primary => i = j

=============================================================================
