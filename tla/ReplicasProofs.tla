--------------------------- MODULE ReplicasProofs ---------------------------
(***************************************************************************)
(* What the functions of Replicas return: lists of the right type that     *)
(* name a server once and have at most one primary.                        *)
(***************************************************************************)
EXTENDS Replicas, TLAPS, SequenceTheorems, WellFoundedInduction

Entry(S) == [server : S, primary : BOOLEAN]

\* Demoting everyone but one server keeps the list.
LEMMA WithPrimarySound ==
  ASSUME NEW S, NEW rs \in Seq(Entry(S)), NEW s
  PROVE  /\ WithPrimary(rs, s) \in Seq(Entry(S))
         /\ Servers(WithPrimary(rs, s)) = Servers(rs)
         /\ IsReplicaList(rs) => IsReplicaList(WithPrimary(rs, s))
         /\ \A i \in DOMAIN rs : WithPrimary(rs, s)[i].server = rs[i].server
         /\ \A i \in DOMAIN rs :
              WithPrimary(rs, s)[i].primary => rs[i].server = s
         /\ Len(WithPrimary(rs, s)) = Len(rs)
<1> DEFINE new == WithPrimary(rs, s)
<1>1. /\ Len(rs) \in Nat /\ DOMAIN rs = 1..Len(rs)
      /\ \A i \in 1..Len(rs) : rs[i] \in Entry(S)
  BY LenProperties, ElementOfSeq
<1>2. new = [i \in 1..Len(rs) |->
               [rs[i] EXCEPT !.primary = (rs[i].server = s)]]
  BY <1>1 DEF WithPrimary
<1>3. \A i \in 1..Len(rs) :
        [rs[i] EXCEPT !.primary = (rs[i].server = s)] \in Entry(S)
  BY <1>1 DEF Entry
<1>4. \A i \in 1..Len(rs) :
        /\ [rs[i] EXCEPT !.primary = (rs[i].server = s)].server = rs[i].server
        /\ [rs[i] EXCEPT !.primary = (rs[i].server = s)].primary
             <=> rs[i].server = s
  BY <1>1 DEF Entry
<1> HIDE DEF new
<1>5. new \in Seq(Entry(S)) /\ Len(new) = Len(rs) /\ DOMAIN new = 1..Len(rs)
  BY <1>1, <1>2, <1>3
<1>6. \A i \in 1..Len(rs) : /\ new[i].server = rs[i].server
                            /\ new[i].primary <=> rs[i].server = s
  BY <1>2, <1>4
<1>7. Servers(new) = Servers(rs)
  BY <1>1, <1>5, <1>6 DEF Servers
<1>8. IsReplicaList(rs) => IsReplicaList(new)
  BY <1>1, <1>5, <1>6 DEF IsReplicaList
<1> QED BY <1>1, <1>5, <1>6, <1>7, <1>8 DEF new

\* RegisterReplica leaves a sound list, whether the server was listed or not
\* and whether it becomes the primary or not.
LEMMA RegisteredSound ==
  ASSUME NEW S, NEW rs \in Seq(Entry(S)), NEW s \in S, NEW primary \in BOOLEAN,
         rs = <<>> \/ IsReplicaList(rs)
  PROVE  /\ Registered(rs, s, primary) \in Seq(Entry(S))
         /\ IsReplicaList(Registered(rs, s, primary))
         /\ Servers(Registered(rs, s, primary)) = Servers(rs) \cup {s}
<1>1. /\ Len(rs) \in Nat /\ DOMAIN rs = 1..Len(rs)
  BY LenProperties
<1>2. CASE s \in Servers(rs)
  <2>1. IsReplicaList(rs)
    BY <1>2 DEF Servers
  <2>2. /\ Registered(rs, s, primary) \in Seq(Entry(S))
        /\ IsReplicaList(Registered(rs, s, primary))
        /\ Servers(Registered(rs, s, primary)) = Servers(rs)
    BY <1>2, <2>1, WithPrimarySound DEF Registered
  <2> QED BY <1>2, <2>2
<1>3. CASE s \notin Servers(rs)
  <2> DEFINE old == IF primary THEN WithPrimary(rs, s) ELSE rs
             e == [server |-> s, primary |-> primary]
  <2>1. /\ old \in Seq(Entry(S)) /\ Len(old) = Len(rs)
        /\ \A i \in DOMAIN rs : old[i].server = rs[i].server
        /\ \A i \in DOMAIN rs : primary /\ old[i].primary => rs[i].server = s
        /\ ~primary => old = rs
    BY WithPrimarySound
  <2>2. \A i \in DOMAIN rs : rs[i].server # s
    BY <1>3 DEF Servers
  <2>3. e \in Entry(S) /\ e.server = s /\ e.primary = primary
    BY DEF Entry
  <2> HIDE DEF old, e
  <2>4. /\ Append(old, e) \in Seq(Entry(S))
        /\ DOMAIN Append(old, e) = 1..(Len(rs) + 1)
        /\ \A i \in 1..Len(rs) : Append(old, e)[i] = old[i]
        /\ Append(old, e)[Len(rs) + 1] = e
    BY <1>1, <2>1, <2>3
  <2>5. \A i, j \in 1..(Len(rs) + 1) :
          Append(old, e)[i].server = Append(old, e)[j].server => i = j
    <3> SUFFICES ASSUME NEW i \in 1..(Len(rs) + 1),
                        NEW j \in 1..(Len(rs) + 1),
                        Append(old, e)[i].server = Append(old, e)[j].server
                 PROVE  i = j
      OBVIOUS
    <3>1. \A m \in 1..Len(rs) : Append(old, e)[m].server = rs[m].server
      BY <1>1, <2>1, <2>4
    <3>2. Append(old, e)[Len(rs) + 1].server = s
      BY <2>3, <2>4
    <3>3. CASE i \in 1..Len(rs) /\ j \in 1..Len(rs)
      <4>1. rs # <<>>
        BY <3>3, EmptySeq
      <4> QED BY <3>1, <3>3, <4>1, <1>1 DEF IsReplicaList
    <3>4. CASE i = Len(rs) + 1 /\ j = Len(rs) + 1
      BY <3>4
    <3>5. CASE i = Len(rs) + 1 /\ j \in 1..Len(rs)
      BY <3>1, <3>2, <3>5, <1>1, <2>2
    <3>6. CASE j = Len(rs) + 1 /\ i \in 1..Len(rs)
      BY <3>1, <3>2, <3>6, <1>1, <2>2
    <3> QED BY <3>3, <3>4, <3>5, <3>6, <1>1
  <2>6. \A i, j \in 1..(Len(rs) + 1) :
          Append(old, e)[i].primary /\ Append(old, e)[j].primary => i = j
    <3> SUFFICES ASSUME NEW i \in 1..(Len(rs) + 1),
                        NEW j \in 1..(Len(rs) + 1),
                        Append(old, e)[i].primary, Append(old, e)[j].primary
                 PROVE  i = j
      OBVIOUS
    <3>1. ASSUME NEW m \in 1..Len(rs), Append(old, e)[m].primary
          PROVE  ~primary /\ rs[m].primary
      BY <3>1, <1>1, <2>1, <2>2, <2>4
    <3>2. Append(old, e)[Len(rs) + 1].primary => primary
      BY <2>3, <2>4
    <3>3. CASE i \in 1..Len(rs) /\ j \in 1..Len(rs)
      BY <3>1, <3>3, <1>1, <2>1 DEF IsReplicaList
    <3>4. CASE i = Len(rs) + 1 /\ j = Len(rs) + 1
      BY <3>4
    <3>5. CASE i = Len(rs) + 1 /\ j \in 1..Len(rs)
      BY <3>1, <3>2, <3>5
    <3>6. CASE j = Len(rs) + 1 /\ i \in 1..Len(rs)
      BY <3>1, <3>2, <3>6
    <3> QED BY <3>3, <3>4, <3>5, <3>6, <1>1
  <2>7. Append(old, e) # <<>>
    BY <1>1, <2>4
  <2>8. Registered(rs, s, primary) = Append(old, e)
    BY <1>3 DEF Registered, old, e
  <2>9. Servers(Append(old, e)) = Servers(rs) \cup {s}
    <3> DEFINE all == Append(old, e)
    <3>1. /\ DOMAIN all = 1..(Len(rs) + 1)
          /\ \A i \in 1..Len(rs) : all[i].server = rs[i].server
          /\ all[Len(rs) + 1].server = s
      BY <1>1, <2>1, <2>3, <2>4
    <3> HIDE DEF all
    <3>2. 1..(Len(rs) + 1) = 1..Len(rs) \cup {Len(rs) + 1}
      BY <1>1
    <3>3. /\ Servers(all) = {all[i].server : i \in 1..(Len(rs) + 1)}
          /\ Servers(rs) = {rs[i].server : i \in 1..Len(rs)}
      BY <1>1, <3>1 DEF Servers
    <3>4. Servers(all) = Servers(rs) \cup {s}
      BY ONLY <3>1, <3>2, <3>3
    <3> QED BY <3>4 DEF all
  <2>10. IsReplicaList(Append(old, e))
    BY <2>4, <2>5, <2>6, <2>7 DEF IsReplicaList
  <2> QED BY ONLY <2>4, <2>8, <2>9, <2>10
<1> QED BY <1>2, <1>3

\* Removing a server leaves a list that is empty or sound; when the primary
\* went, the head of the list is the only primary.
LEMMA UnregisteredSound ==
  ASSUME NEW S, NEW rs \in Seq(Entry(S)), NEW s, s \in Servers(rs),
         IsReplicaList(rs)
  PROVE  /\ Unregistered(rs, s) \in Seq(Entry(S))
         /\ Unregistered(rs, s) = <<>> \/ IsReplicaList(Unregistered(rs, s))
         /\ Servers(Unregistered(rs, s)) \subseteq Servers(rs)
         /\ Servers(rs) \ {s} \subseteq Servers(Unregistered(rs, s))
<1> DEFINE k == CHOOSE i \in DOMAIN rs : rs[i].server = s
           rest == RemoveAt(rs, k)
<1>1. /\ Len(rs) \in Nat /\ DOMAIN rs = 1..Len(rs)
      /\ \A i \in 1..Len(rs) : rs[i] \in Entry(S)
  BY LenProperties, ElementOfSeq
<1>2. k \in 1..Len(rs) /\ rs[k].server = s
  BY <1>1 DEF Servers
<1> HIDE DEF k
<1> DEFINE left == SubSeq(rs, 1, k - 1)
           right == SubSeq(rs, k + 1, Len(rs))
<1>3. /\ left \in Seq(Entry(S)) /\ Len(left) = k - 1
      /\ \A i \in 1..(k - 1) : left[i] = rs[i]
  BY <1>1, <1>2
<1>4. /\ right \in Seq(Entry(S)) /\ Len(right) = Len(rs) - k
      /\ \A i \in 1..(Len(rs) - k) : right[i] = rs[k + i]
  <2>6. k \in Int /\ k <= Len(rs)
    BY <1>1, <1>2
  <2>7. k + 1 \in Int
    BY <2>6
  <2>8. Len(rs) - (k + 1) + 1 = Len(rs) - k
    BY <1>1, <2>6
  <2>9. ASSUME ~(k + 1 <= Len(rs)) PROVE Len(rs) - k = 0
    <3>1. Len(rs) < k + 1
      BY <1>1, <2>6, <2>9
    <3>2. \A m, n \in Int : m <= n /\ n < m + 1 => n = m
      OBVIOUS
    <3>3. Len(rs) \in Int
      BY <1>1
    <3>4. Len(rs) = k
      BY <2>6, <3>1, <3>2, <3>3
    <3> QED BY <2>6, <3>4
  <2>1. /\ k + 1 \in Int /\ Len(rs) \in Int
        /\ Len(rs) - (k + 1) + 1 = Len(rs) - k
        /\ ~(k + 1 <= Len(rs)) => Len(rs) - k = 0
    BY <1>1, <2>7, <2>8, <2>9
  <2>4. \A i \in 1..(Len(rs) - k) : (k + 1) + i - 1 = k + i
    BY <1>1, <1>2
  <2>5. \A i \in (k + 1)..Len(rs) : i \in 1..Len(rs)
    BY <1>1, <1>2
  <2>3. \A i \in (k + 1)..Len(rs) : rs[i] \in Entry(S)
    BY <1>1, <2>5
  <2>2. /\ right \in Seq(Entry(S))
        /\ Len(right) =
             IF k + 1 <= Len(rs) THEN Len(rs) - (k + 1) + 1 ELSE 0
        /\ \A i \in 1..(Len(rs) - (k + 1) + 1) :
             right[i] = rs[(k + 1) + i - 1]
    BY <2>1, <2>3, SubSeqProperties
  <2> QED BY <2>1, <2>2, <2>4
<1> HIDE DEF left, right
<1>5. rest = left \o right
  BY DEF RemoveAt, left, right
<1> HIDE DEF rest
<1>6. /\ rest \in Seq(Entry(S)) /\ Len(rest) = Len(rs) - 1
      /\ \A i \in 1..(Len(rs) - 1) :
           rest[i] = rs[IF i < k THEN i ELSE i + 1]
  <2>1. /\ rest \in Seq(Entry(S)) /\ Len(rest) = Len(left) + Len(right)
        /\ \A i \in 1..(Len(left) + Len(right)) : rest[i] =
             IF i <= Len(left) THEN left[i] ELSE right[i - Len(left)]
    BY <1>3, <1>4, <1>5, ConcatProperties
  <2>2. ASSUME NEW i \in 1..(Len(rs) - 1)
        PROVE  rest[i] = rs[IF i < k THEN i ELSE i + 1]
    <3>1. CASE i < k
      <4>1. /\ i \in 1..(Len(left) + Len(right)) /\ i <= Len(left)
            /\ i \in 1..(k - 1)
        BY <3>1, <1>1, <1>2, <1>3, <1>4
      <4> QED BY <3>1, <4>1, <1>3, <2>1
    <3>2. CASE ~(i < k)
      <4>1. /\ i - (k - 1) \in 1..(Len(rs) - k) /\ k + (i - (k - 1)) = i + 1
            /\ ~(i <= k - 1)
        BY <3>2, <1>1, <1>2
      <4>2. rest[i] = right[i - (k - 1)]
        <5>1. /\ i \in 1..(Len(left) + Len(right)) /\ Len(left) = k - 1
              /\ ~(i <= Len(left))
          BY <4>1, <1>1, <1>2, <1>3, <1>4
        <5>2. rest[i] =
                IF i <= Len(left) THEN left[i] ELSE right[i - Len(left)]
          BY ONLY <5>1, <2>1
        <5> QED BY ONLY <5>1, <5>2
      <4> QED BY <3>2, <4>1, <4>2, <1>4
    <3> QED BY <3>1, <3>2
  <2> QED BY <1>1, <1>2, <1>3, <1>4, <2>1, <2>2
<1>7. \A i \in 1..(Len(rs) - 1) :
        (IF i < k THEN i ELSE i + 1) \in 1..Len(rs)
  BY <1>1, <1>2
<1>8. /\ \A i, j \in 1..(Len(rs) - 1) :
           rest[i].server = rest[j].server => i = j
      /\ \A i, j \in 1..(Len(rs) - 1) :
           rest[i].primary /\ rest[j].primary => i = j
  <2>1. ASSUME NEW i \in 1..(Len(rs) - 1), NEW j \in 1..(Len(rs) - 1),
               \/ rest[i].server = rest[j].server
               \/ rest[i].primary /\ rest[j].primary
        PROVE  i = j
    <3> DEFINE m == IF i < k THEN i ELSE i + 1
               n == IF j < k THEN j ELSE j + 1
    <3>1. m \in DOMAIN rs /\ n \in DOMAIN rs /\ rest[i] = rs[m]
          /\ rest[j] = rs[n]
      BY <1>1, <1>6, <1>7
    <3>2. m = n
      BY <2>1, <3>1 DEF IsReplicaList
    <3> QED BY <3>2, <1>1, <1>2
  <2> QED BY <2>1
<1>9. DOMAIN rest = 1..(Len(rs) - 1)
      /\ \A i \in 1..(Len(rs) - 1) : rest[i] \in Entry(S)
  BY <1>6, LenProperties, ElementOfSeq
<1>12. /\ Servers(rest) \subseteq Servers(rs)
       /\ Servers(rs) \ {s} \subseteq Servers(rest)
  <2>1. ASSUME NEW i \in 1..(Len(rs) - 1)
        PROVE  rest[i].server \in Servers(rs)
    <3>1. /\ (IF i < k THEN i ELSE i + 1) \in DOMAIN rs
          /\ rest[i] = rs[IF i < k THEN i ELSE i + 1]
      BY <1>1, <1>6, <1>7
    <3> QED BY ONLY <3>1 DEF Servers
  <2>2. ASSUME NEW j \in 1..Len(rs), rs[j].server # s
        PROVE  \E i \in 1..(Len(rs) - 1) : rest[i].server = rs[j].server
    <3> DEFINE i == IF j < k THEN j ELSE j - 1
    <3>1. j # k
      BY <1>2, <2>2
    <3>2. i \in 1..(Len(rs) - 1) /\ (IF i < k THEN i ELSE i + 1) = j
      BY <1>1, <1>2, <3>1
    <3> HIDE DEF i
    <3>3. rest[i] = rs[j]
      BY ONLY <1>6, <3>2
    <3> QED BY ONLY <3>2, <3>3
  <2>3. Servers(rest) = {rest[i].server : i \in 1..(Len(rs) - 1)}
    BY ONLY <1>9 DEF Servers
  <2>4. Servers(rs) = {rs[j].server : j \in 1..Len(rs)}
    BY ONLY <1>1 DEF Servers
  <2>5. Servers(rest) \subseteq Servers(rs)
    BY ONLY <2>1, <2>3
  <2>6. Servers(rs) \ {s} \subseteq Servers(rest)
    BY ONLY <2>2, <2>3, <2>4
  <2> QED BY ONLY <2>5, <2>6
<1>10. CASE rest # <<>> /\ Primaries(rest) = {}
  <2> DEFINE new == [rest EXCEPT ![1].primary = TRUE]
  <2>1. Unregistered(rs, s) = new
    BY <1>10 DEF Unregistered, rest, k
  <2>2. 1 \in DOMAIN rest
    BY <1>6, <1>9, <1>10, <1>1, EmptySeq
  <2>3. \A i \in DOMAIN rest : ~rest[i].primary
    BY <1>10 DEF Primaries
  <2>4. [rest[1] EXCEPT !.primary = TRUE] \in Entry(S)
        /\ [rest[1] EXCEPT !.primary = TRUE].server = rest[1].server
    BY <1>9, <2>2 DEF Entry
  <2>5. /\ new \in Seq(Entry(S)) /\ DOMAIN new = DOMAIN rest
        /\ \A i \in DOMAIN rest : i # 1 => new[i] = rest[i]
        /\ new[1] = [rest[1] EXCEPT !.primary = TRUE]
    BY <1>6, <2>2, <2>4, LenProperties
  <2> HIDE DEF new
  <2>6. \A i \in DOMAIN rest : new[i].server = rest[i].server
    BY <2>4, <2>5
  <2>7. \A i \in DOMAIN rest : new[i].primary => i = 1
    BY <2>3, <2>5
  <2>8. new # <<>>
    BY <2>2, <2>5
  <2>9. IsReplicaList(new)
    BY <1>8, <1>9, <2>5, <2>6, <2>7, <2>8 DEF IsReplicaList
  <2>10. Servers(new) = Servers(rest)
    BY ONLY <2>5, <2>6 DEF Servers
  <2> QED BY ONLY <1>12, <2>1, <2>5, <2>9, <2>10
<1>11. CASE ~(rest # <<>> /\ Primaries(rest) = {})
  <2>1. Unregistered(rs, s) = rest
    BY <1>11 DEF Unregistered, rest, k
  <2>2. rest = <<>> \/ IsReplicaList(rest)
    BY <1>6, <1>8, <1>9 DEF IsReplicaList
  <2> QED BY ONLY <1>6, <1>12, <2>1, <2>2
<1> QED BY <1>10, <1>11

\* A set of indices has a least element.
LEMMA LeastIndex ==
  ASSUME NEW T \in SUBSET Nat, T # {}
  PROVE  \E i \in T : \A j \in T : i <= j
<1>1. PICK i \in T : \A j \in T : ~(<<j, i>> \in OpToRel(<, Nat))
  BY NatLessThanWellFounded, WFMin
<1>2. \A j \in T : ~(j < i)
  BY <1>1 DEF OpToRel
<1> QED BY <1>2

\* Registering servers one after the other leaves a sound list in which the
\* first of them, and nobody else, is the primary.
LEMMA RegisteredAllSound ==
  ASSUME NEW S, NEW rs \in Seq(Entry(S)), rs = <<>> \/ IsReplicaList(rs),
         NEW servers \in Seq(S), servers # <<>>, IsInjective(servers)
  PROVE  /\ RegisteredAll(rs, servers) \in Seq(Entry(S))
         /\ IsReplicaList(RegisteredAll(rs, servers))
         /\ Servers(RegisteredAll(rs, servers))
              \subseteq Servers(rs) \cup {servers[i] : i \in DOMAIN servers}
         /\ Servers(rs) \subseteq Servers(RegisteredAll(rs, servers))
<1> DEFINE listed == {i \in DOMAIN servers : servers[i] \in Servers(rs)}
           added == IF listed = {} THEN Len(servers)
                    ELSE (CHOOSE i \in listed : \A j \in listed : i <= j) - 1
           new == [i \in 1..added |->
                     [server |-> servers[i], primary |-> i = 1]]
           old == WithPrimary(rs, servers[1])
           n == Len(rs)
<1>1. /\ n \in Nat /\ DOMAIN rs = 1..n
      /\ Len(servers) \in Nat /\ DOMAIN servers = 1..Len(servers)
      /\ \A i \in 1..Len(servers) : servers[i] \in S
      /\ 1 \in 1..Len(servers)
  <2>1. Len(servers) \in Nat \ {0}
    BY EmptySeq
  <2> QED BY <2>1, LenProperties, ElementOfSeq
<1>2. /\ added \in 0..Len(servers)
      /\ \A i \in 1..added : servers[i] \notin Servers(rs)
      /\ added = 0 => servers[1] \in Servers(rs)
  <2>1. CASE listed = {}
    BY <2>1, <1>1
  <2>2. CASE listed # {}
    <3> DEFINE k == CHOOSE i \in listed : \A j \in listed : i <= j
    <3>1. listed \in SUBSET Nat
      BY <1>1
    <3>2. k \in listed /\ \A j \in listed : k <= j
      BY <2>2, <3>1, LeastIndex
    <3>3. added = k - 1
      BY <2>2
    <3>4. k \in 1..Len(servers) /\ servers[k] \in Servers(rs)
      BY <1>1, <3>2
    <3> HIDE DEF k, added
    <3>5. added \in 0..Len(servers) /\ (added = 0 => k = 1)
      BY <1>1, <3>3, <3>4
    <3>6. ASSUME NEW i \in 1..added PROVE servers[i] \notin Servers(rs)
      <4>1. i \in 1..Len(servers) /\ ~(k <= i)
        BY <1>1, <3>3, <3>4, <3>5
      <4> QED BY <4>1, <3>2, <1>1
    <3> QED BY <3>4, <3>5, <3>6
  <2> QED BY <2>1, <2>2
<1> HIDE DEF listed, added
<1>3. /\ old \in Seq(Entry(S)) /\ Len(old) = n
      /\ \A i \in 1..n : old[i].server = rs[i].server
      /\ \A i \in 1..n : old[i].primary => rs[i].server = servers[1]
      /\ rs # <<>> => IsReplicaList(old)
  BY <1>1, WithPrimarySound
<1>4. \A i \in 1..n : old[i].server \in Servers(rs)
  BY <1>1, <1>3 DEF Servers
<1>5. /\ new \in Seq(Entry(S)) /\ Len(new) = added
      /\ \A i \in 1..added : new[i].server = servers[i]
      /\ \A i \in 1..added : new[i].primary => i = 1
  <2>1. added \in Nat /\ \A i \in 1..added : i \in 1..Len(servers)
    BY <1>1, <1>2
  <2>2. \A i \in 1..added :
          [server |-> servers[i], primary |-> i = 1] \in Entry(S)
    BY <1>1, <2>1 DEF Entry
  <2>3. new \in Seq(Entry(S)) /\ Len(new) = added
    BY <2>1, <2>2
  <2> QED BY <2>3
<1> DEFINE all == old \o new
<1>6. RegisteredAll(rs, servers) = all
  BY DEF RegisteredAll, listed, added
<1> HIDE DEF new, old
<1>7. /\ all \in Seq(Entry(S)) /\ Len(all) = n + added
      /\ \A i \in 1..(n + added) :
           all[i] = IF i <= n THEN old[i] ELSE new[i - n]
  <2>1. /\ all \in Seq(Entry(S)) /\ Len(all) = Len(old) + Len(new)
        /\ \A i \in 1..(Len(old) + Len(new)) :
             all[i] = IF i <= Len(old) THEN old[i] ELSE new[i - Len(old)]
    <3>1. old \in Seq(Entry(S)) /\ new \in Seq(Entry(S))
      BY <1>3, <1>5
    <3>2. all = old \o new
      OBVIOUS
    <3> HIDE DEF all
    <3>3. /\ old \o new \in Seq(Entry(S))
          /\ Len(old \o new) = Len(old) + Len(new)
          /\ \A i \in 1..(Len(old) + Len(new)) : (old \o new)[i] =
               IF i <= Len(old) THEN old[i] ELSE new[i - Len(old)]
      BY <3>1, ConcatProperties, Zenon
    <3> QED BY <3>2, <3>3
  <2> HIDE DEF all
  <2> QED BY <2>1, <1>3, <1>5
<1> HIDE DEF all
<1>8. DOMAIN all = 1..(n + added) /\ added \in Nat
  BY <1>1, <1>2, <1>7, LenProperties
<1> HIDE DEF n
<1>9. \A i \in 1..(n + added) : i <= n => i \in 1..n
  BY <1>1, <1>8
<1>10. \A i \in 1..(n + added) : ~(i <= n) => i - n \in 1..added
  BY <1>1, <1>8
<1>11. n # 0 => rs # <<>>
  BY EmptySeq DEF n
<1>12. ASSUME NEW i \in 1..(n + added), NEW j \in 1..(n + added),
              all[i].server = all[j].server
       PROVE  i = j
  <2>1. CASE i <= n /\ j <= n
    <3>1. all[i] = old[i] /\ all[j] = old[j]
      BY ONLY <2>1, <1>7, <1>12
    <3>2. i \in 1..n /\ j \in 1..n /\ old[i].server = old[j].server
      BY ONLY <2>1, <3>1, <1>9, <1>12
    <3>3. IsReplicaList(old)
      BY <3>2, <1>1, <1>3, <1>11
    <3>4. DOMAIN old = 1..n
      BY ONLY <1>3, LenProperties
    <3> QED BY ONLY <3>2, <3>3, <3>4 DEF IsReplicaList
  <2>2. CASE ~(i <= n) /\ ~(j <= n)
    <3>1. all[i] = new[i - n] /\ all[j] = new[j - n]
      BY ONLY <2>2, <1>7, <1>12
    <3>2. servers[i - n] = servers[j - n]
      BY ONLY <2>2, <3>1, <1>5, <1>10, <1>12
    <3>3. i - n \in DOMAIN servers /\ j - n \in DOMAIN servers
      BY <2>2, <1>1, <1>2, <1>10
    <3>4. i - n = j - n
      BY <3>2, <3>3 DEF IsInjective
    <3> QED BY <3>4, <1>1, <1>8
  <2>3. CASE i <= n /\ ~(j <= n)
    <3>1. i \in 1..n /\ j - n \in 1..added
      BY ONLY <2>3, <1>9, <1>10, <1>12
    <3>2. all[i] = old[i] /\ all[j] = new[j - n]
      BY ONLY <2>3, <1>7, <1>12
    <3>3. servers[j - n] = old[i].server
      BY ONLY <3>1, <3>2, <1>5, <1>12
    <3> QED BY ONLY <3>1, <3>3, <1>2, <1>4
  <2>4. CASE ~(i <= n) /\ j <= n
    <3>1. i - n \in 1..added /\ j \in 1..n
      BY ONLY <2>4, <1>9, <1>10, <1>12
    <3>2. all[i] = new[i - n] /\ all[j] = old[j]
      BY ONLY <2>4, <1>7, <1>12
    <3>3. servers[i - n] = old[j].server
      BY ONLY <3>1, <3>2, <1>5, <1>12
    <3> QED BY ONLY <3>1, <3>3, <1>2, <1>4
  <2> QED BY <2>1, <2>2, <2>3, <2>4
<1>13. ASSUME NEW i \in 1..(n + added), NEW j \in 1..(n + added),
              all[i].primary, all[j].primary
       PROVE  i = j
  <2>1. ASSUME added # 0, NEW k \in 1..(n + added), all[k].primary
        PROVE  k = n + 1
    <3>1. 1 \in 1..added
      BY <2>1, <1>8
    <3>2. \A l \in 1..n : ~old[l].primary
      BY <3>1, <1>1, <1>2, <1>3 DEF Servers
    <3>3. ~(k <= n)
      BY <3>2, <2>1, <1>7, <1>9
    <3>4. new[k - n].primary /\ k - n \in 1..added
      BY <3>3, <2>1, <1>7, <1>10
    <3>5. k - n = 1
      BY <3>4, <1>5
    <3> QED BY <3>5, <1>1, <1>8
  <2>2. CASE added = 0
    <3>1. i \in 1..n /\ j \in 1..n /\ all[i] = old[i] /\ all[j] = old[j]
      BY <2>2, <1>1, <1>7
    <3>2. IsReplicaList(old)
      BY <3>1, <1>1, <1>3, <1>11
    <3> QED BY <3>1, <3>2, <1>1, <1>3, <1>13, LenProperties DEF IsReplicaList
  <2>3. CASE added # 0
    BY <2>1, <2>3, <1>13
  <2> QED BY <2>2, <2>3
<1>14. all # <<>>
  <2>1. CASE added = 0
    <3>1. rs # <<>>
      BY <2>1, <1>2 DEF Servers
    <3>2. n # 0
      BY <3>1, EmptySeq DEF n
    <3> QED BY <3>2, <1>1, <1>7, <1>8, EmptySeq
  <2>2. CASE added # 0
    BY <2>2, <1>1, <1>7, <1>8, EmptySeq
  <2> QED BY <2>1, <2>2
<1>15. \A i \in 1..added : i \in 1..Len(servers)
  BY <1>1, <1>2
<1>16. Servers(all) \subseteq Servers(rs) \cup {servers[i] : i \in DOMAIN servers}
  <2>1. ASSUME NEW i \in 1..(n + added)
        PROVE  all[i].server \in Servers(rs) \cup
                                {servers[j] : j \in DOMAIN servers}
    <3>1. CASE i <= n
      BY <3>1, <1>4, <1>7, <1>9
    <3>2. CASE ~(i <= n)
      <4>1. i - n \in 1..added /\ all[i] = new[i - n]
        BY ONLY <3>2, <1>7, <1>10, i \in 1..(n + added)
      <4>2. all[i].server = servers[i - n] /\ i - n \in DOMAIN servers
        BY <4>1, <1>1, <1>5, <1>15
      <4> QED BY ONLY <4>2
    <3> QED BY <3>1, <3>2
  <2> QED BY ONLY <2>1, <1>8 DEF Servers
<1>17. Servers(rs) \subseteq Servers(all)
  <2>1. ASSUME NEW i \in 1..n
        PROVE  i \in DOMAIN all /\ all[i].server = rs[i].server
    <3>1. i \in 1..(n + added) /\ i <= n
      BY <1>1, <1>8
    <3>2. all[i] = old[i]
      BY ONLY <3>1, <1>7
    <3> QED BY <3>1, <3>2, <1>3, <1>8
  <2> QED BY ONLY <2>1, <1>1 DEF Servers
<1>18. IsReplicaList(all)
  BY <1>7, <1>8, <1>12, <1>13, <1>14 DEF IsReplicaList
<1> QED BY ONLY <1>6, <1>7, <1>16, <1>17, <1>18

\* Servers that are not listed are all added, and the first of them becomes
\* the one primary.
LEMMA RegisteredAllFresh ==
  ASSUME NEW S, NEW rs \in Seq(Entry(S)),
         NEW servers \in Seq(S), servers # <<>>,
         \A i \in DOMAIN servers : servers[i] \notin Servers(rs)
  PROVE  LET all == RegisteredAll(rs, servers)
         IN  /\ {servers[i] : i \in DOMAIN servers} \subseteq Servers(all)
             /\ Primaries(all) = {servers[1]}
<1> DEFINE m == Len(servers)
           n == Len(rs)
           old == WithPrimary(rs, servers[1])
           new == [i \in 1..m |-> [server |-> servers[i], primary |-> i = 1]]
           all == old \o new
<1>1. /\ n \in Nat /\ DOMAIN rs = 1..n
      /\ m \in Nat /\ DOMAIN servers = 1..m /\ 1 \in 1..m
      /\ \A i \in 1..m : servers[i] \in S
  <2>1. Len(servers) \in Nat \ {0}
    BY EmptySeq
  <2> QED BY <2>1, LenProperties, ElementOfSeq
<1>2. RegisteredAll(rs, servers) = all
  BY DEF RegisteredAll
<1>3. /\ old \in Seq(Entry(S)) /\ Len(old) = n
      /\ \A i \in 1..n : old[i].server = rs[i].server
      /\ \A i \in 1..n : old[i].primary => rs[i].server = servers[1]
  BY <1>1, WithPrimarySound
<1>4. \A i \in 1..n : ~old[i].primary
  BY <1>1, <1>3 DEF Servers
<1>5. /\ new \in Seq(Entry(S)) /\ Len(new) = m
      /\ \A i \in 1..m : new[i].server = servers[i]
      /\ \A i \in 1..m : new[i].primary <=> i = 1
  <2>1. \A i \in 1..m : [server |-> servers[i], primary |-> i = 1] \in Entry(S)
    BY <1>1 DEF Entry
  <2>2. new \in Seq(Entry(S)) /\ Len(new) = m
    BY <1>1, <2>1
  <2> QED BY <2>2
<1> HIDE DEF old, new, n, m
<1>6. /\ all \in Seq(Entry(S)) /\ Len(all) = n + m
      /\ \A i \in 1..(n + m) : all[i] = IF i <= n THEN old[i] ELSE new[i - n]
  <2>1. old \in Seq(Entry(S)) /\ new \in Seq(Entry(S))
    BY <1>3, <1>5
  <2>2. /\ old \o new \in Seq(Entry(S))
        /\ Len(old \o new) = Len(old) + Len(new)
        /\ \A i \in 1..(Len(old) + Len(new)) : (old \o new)[i] =
             IF i <= Len(old) THEN old[i] ELSE new[i - Len(old)]
    BY <2>1, ConcatProperties, Zenon
  <2>3. Len(old) = n /\ Len(new) = m
    BY <1>3, <1>5
  <2> QED BY <2>2, <2>3
<1> HIDE DEF all
<1>7. DOMAIN all = 1..(n + m)
  BY <1>6, LenProperties
<1>8. \A i \in 1..m : n + i \in 1..(n + m) /\ all[n + i] = new[i]
  BY <1>1, <1>6
<1>9. {servers[i] : i \in DOMAIN servers} \subseteq Servers(all)
  <2>1. ASSUME NEW i \in 1..m
        PROVE  n + i \in DOMAIN all /\ all[n + i].server = servers[i]
    BY <1>5, <1>7, <1>8
  <2> QED BY ONLY <2>1, <1>1 DEF Servers
<1>10. \A i \in 1..(n + m) : all[i].primary <=> i = n + 1
  <2> SUFFICES ASSUME NEW i \in 1..(n + m)
               PROVE  all[i].primary <=> i = n + 1
    OBVIOUS
  <2>1. CASE i <= n
    BY <2>1, <1>1, <1>4, <1>6
  <2>2. CASE ~(i <= n)
    <3>1. i - n \in 1..m /\ all[i] = new[i - n]
      BY <2>2, <1>1, <1>6
    <3>2. all[i].primary <=> i - n = 1
      BY <3>1, <1>5
    <3> QED BY <3>2, <1>1
  <2> QED BY <2>1, <2>2
<1>11. n + 1 \in DOMAIN all /\ all[n + 1].server = servers[1]
  BY <1>1, <1>5, <1>7, <1>8
<1>12. Primaries(all) = {servers[1]}
  BY ONLY <1>7, <1>10, <1>11 DEF Primaries
<1> QED BY <1>2, <1>9, <1>12

=============================================================================
