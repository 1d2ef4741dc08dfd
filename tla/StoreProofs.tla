---------------------------- MODULE StoreProofs -----------------------------
(* Proofs about counter-graft (CounterGraft), mint-graft and guard-graft       *)
(* (RootGrafts), registry-graft (RegistryGraft) and audit-write (AuditedWrites).*)
EXTENDS CounterGraft, RootGrafts, AuditedWrites, Inductions

-----------------------------------------------------------------------------
(* CounterGraft *)

\* Every counter stands at the last number it gave out, the absent ones at zero.
CountersStand ==
  \A n \in Names : Current(n) \in Nat /\ Current(n) = base[n] + Len(issued[n])

CounterInv ==
  /\ issued \in [Names -> Seq(Nat)] /\ base \in [Names -> Nat]
  /\ CountersStand
  /\ IncrementsCountOn

\* What Append adds to a sequence of numbers.
LEMMA NumberAppended ==
  ASSUME NEW s \in Seq(Nat), NEW v \in Nat
  PROVE  /\ Append(s, v) \in Seq(Nat)
         /\ Len(s) \in Nat /\ Len(Append(s, v)) = Len(s) + 1
         /\ DOMAIN s = 1..Len(s)
         /\ DOMAIN Append(s, v) = 1..(Len(s) + 1)
         /\ \A i \in 1..Len(s) : Append(s, v)[i] = s[i]
         /\ Append(s, v)[Len(s) + 1] = v
  OBVIOUS

\* What put leaves each counter at.
LEMMA PutCounter ==
  ASSUME NEW name \in Names, NEW value, counters' = Counted(name, value), NEW n \in Names
  PROVE  Current(n)' = IF n = name THEN value ELSE Current(n)
  BY DEF Counted, Current

\* An increment goes on from where the counter stands.
LEMMA IncrementKeeps ==
  ASSUME CounterInv, NEW name \in Names, CounterIncrement(name)
  PROVE  CounterInv'
<1> DEFINE v == Current(name) + 1
<1>1. /\ counters' = Counted(name, v)
      /\ issued' = [issued EXCEPT ![name] = Append(issued[name], v)]
      /\ base' = base
  BY DEF CounterIncrement
<1>2. /\ v \in Nat /\ issued[name] \in Seq(Nat) /\ base[name] \in Nat
      /\ v = base[name] + Len(issued[name]) + 1
  BY DEF CounterInv, CountersStand
<1>3. v < Bex64
  BY <1>2, CounterAssumption DEF CounterIncrement, Saturated
<1> HIDE DEF v
<1>4. /\ issued'[name] \in Seq(Nat)
      /\ Len(issued[name]) \in Nat /\ Len(issued'[name]) = Len(issued[name]) + 1
      /\ DOMAIN issued[name] = 1..Len(issued[name])
      /\ DOMAIN issued'[name] = 1..(Len(issued[name]) + 1)
      /\ \A i \in 1..Len(issued[name]) : issued'[name][i] = issued[name][i]
      /\ issued'[name][Len(issued[name]) + 1] = v
  <2>1. issued'[name] = Append(issued[name], v)
    BY <1>1 DEF CounterInv
  <2>2. QED
    BY <1>2, <2>1, NumberAppended
<1>5. \A n \in Names : n # name => issued'[n] = issued[n] /\ Current(n)' = Current(n)
  BY <1>1, PutCounter DEF CounterInv
<1>6. Current(name)' = v
  BY <1>1, PutCounter
<1>7. issued' \in [Names -> Seq(Nat)] /\ base' \in [Names -> Nat]
  BY <1>1, <1>4, <1>5 DEF CounterInv
<1>8. CountersStand'
  BY <1>1, <1>2, <1>4, <1>5, <1>6 DEF CounterInv, CountersStand
<1>9. ASSUME NEW n \in Names, NEW i \in DOMAIN issued'[n]
      PROVE  issued'[n][i] = base'[n] + i /\ issued'[n][i] < Bex64
  <2>1. CASE n # name
    BY <1>1, <1>5, <2>1 DEF CounterInv, IncrementsCountOn
  <2>2. CASE n = name /\ i = Len(issued[name]) + 1
    BY <1>1, <1>2, <1>3, <1>4, <2>2
  <2>3. CASE n = name /\ i # Len(issued[name]) + 1
    <3>1. i \in 1..Len(issued[name])
      BY <1>4, <2>3
    <3>2. QED
      BY <1>1, <1>4, <2>3, <3>1 DEF CounterInv, IncrementsCountOn
  <2>4. QED
    BY <2>1, <2>2, <2>3
<1>10. ASSUME NEW n \in Names, n \in DOMAIN counters'
       PROVE  counters'[n] = base'[n] + Len(issued'[n])
  BY <1>8, <1>10 DEF CountersStand, Current
<1>11. QED
  BY <1>7, <1>8, <1>9, <1>10 DEF CounterInv, IncrementsCountOn

\* A set or a reset starts a new count.
LEMMA WriteKeeps ==
  ASSUME CounterInv, NEW name \in Names, NEW value \in Nat, NEW effect,
         CounterWrite(name, value, effect)
  PROVE  CounterInv'
<1>1. /\ counters' = Counted(name, value)
      /\ issued' = [issued EXCEPT ![name] = <<>>]
      /\ base' = [base EXCEPT ![name] = value]
  BY DEF CounterWrite
<1>2. /\ issued'[name] = <<>> /\ base'[name] = value
      /\ \A n \in Names : n # name => issued'[n] = issued[n] /\ base'[n] = base[n]
      /\ issued' \in [Names -> Seq(Nat)] /\ base' \in [Names -> Nat]
  BY <1>1 DEF CounterInv
<1>3. \A n \in Names : Current(n)' = IF n = name THEN value ELSE Current(n)
  BY <1>1, PutCounter
<1>4. Len(<<>>) = 0 /\ DOMAIN <<>> = {}
  OBVIOUS
<1>5. CountersStand'
  BY <1>2, <1>3, <1>4 DEF CounterInv, CountersStand
<1>6. \A n \in Names : n \in DOMAIN counters' => counters'[n] = base'[n] + Len(issued'[n])
  BY <1>5 DEF CountersStand, Current
<1>7. \A n \in Names : \A i \in DOMAIN issued'[n] :
        issued'[n][i] = base'[n] + i /\ issued'[n][i] < Bex64
  BY <1>2, <1>4 DEF CounterInv, IncrementsCountOn
<1>8. QED
  BY <1>2, <1>5, <1>6, <1>7 DEF CounterInv, IncrementsCountOn

\* For any caps, names and settable values: the numbers given out go on one by one and
\* fit a u64, and the counter stands at the last of them.
THEOREM IncrementsCountOnCorrect == CounterSpec => []IncrementsCountOn
<1>1. CounterInit => CounterInv
  <2> SUFFICES ASSUME CounterInit PROVE CounterInv
    OBVIOUS
  <2>1. \A n \in Names : /\ issued[n] = <<>> /\ base[n] = 0 /\ Current(n) = 0
                         /\ n \notin DOMAIN counters
    BY DEF CounterInit, Current
  <2>2. issued \in [Names -> Seq(Nat)] /\ base \in [Names -> Nat]
    BY DEF CounterInit
  <2>3. QED
    BY <2>1, <2>2 DEF CounterInv, CountersStand, IncrementsCountOn
<1>2. CounterInv /\ [CounterNext]_counterVars => CounterInv'
  <2> SUFFICES ASSUME CounterInv, [CounterNext]_counterVars PROVE CounterInv'
    OBVIOUS
  <2>1. ASSUME UNCHANGED <<counters, issued, base>> PROVE CounterInv'
    BY <2>1 DEF CounterInv, CountersStand, IncrementsCountOn, Current
  <2>2. ASSUME NEW name \in Names, CounterReset(name) PROVE CounterInv'
    BY <2>2, WriteKeeps DEF CounterReset
  <2>3. ASSUME NEW name \in Names, NEW value \in Settable, CounterSet(name, value)
        PROVE  CounterInv'
    BY <2>3, WriteKeeps, CounterAssumption DEF CounterSet
  <2>4. QED
    BY <2>1, <2>2, <2>3, IncrementKeeps DEF CounterNext, counterVars, CounterRefused
<1>3. CounterInv => IncrementsCountOn
  BY DEF CounterInv
<1>4. QED
  BY <1>1, <1>2, <1>3, PTL DEF CounterSpec

-----------------------------------------------------------------------------
(* RootGrafts *)

\* For any hash, cap and number of hulls: a root is given to a hull once and never
\* taken away, so what was announced or checked stays true.
THEOREM ToldStaysTrueCorrect == RootsSpec => []ToldStaysTrue
<1>1. RootsInit => ToldStaysTrue
  BY DEF RootsInit, ToldStaysTrue
<1>2. ToldStaysTrue /\ [RootsNext]_rootVars => ToldStaysTrue'
  <2> SUFFICES ASSUME ToldStaysTrue, [RootsNext]_rootVars PROVE ToldStaysTrue'
    OBVIOUS
  <2>1. ASSUME NEW hull \in RootHulls, NEW root \in LeafRoots, MintCommit(hull, root)
        PROVE  ToldStaysTrue'
    BY <2>1 DEF MintCommit, RootRefused, WithRoot, ToldStaysTrue
  <2>2. ASSUME NEW hull \in RootHulls, NEW root \in LeafRoots, GuardRegister(hull, root)
        PROVE  ToldStaysTrue'
    BY <2>2 DEF GuardRegister, RootRefused, WithRoot, ToldStaysTrue
  <2>3. ASSUME NEW hull \in RootHulls, NEW datum \in Data, GuardCheck(hull, datum)
        PROVE  ToldStaysTrue'
    <3> DEFINE told == <<hull, datum, HashLeaf(datum) = guardRoots[hull]>>
    <3>1. /\ told[1] = hull /\ told[2] = datum
          /\ told[3] = (HashLeaf(datum) = guardRoots[hull])
      OBVIOUS
    <3>2. checked' = checked \cup {told} /\ UNCHANGED <<commits, announced, guardRoots>>
      BY <2>3 DEF GuardCheck
    <3>3. hull \in DOMAIN guardRoots
      BY <2>3 DEF GuardCheck
    <3> HIDE DEF told
    <3>4. \A c \in checked' :
            c[1] \in DOMAIN guardRoots' /\ c[3] = (HashLeaf(c[2]) = guardRoots'[c[1]])
      <4>1. ASSUME NEW c \in checked
            PROVE  c[1] \in DOMAIN guardRoots' /\ c[3] = (HashLeaf(c[2]) = guardRoots'[c[1]])
        BY <3>2, Zenon DEF ToldStaysTrue
      <4>2. told[1] \in DOMAIN guardRoots' /\ told[3] = (HashLeaf(told[2]) = guardRoots'[told[1]])
        BY <3>1, <3>2, <3>3, Zenon
      <4>3. \A c \in checked' : c \in checked \/ c = told
        BY <3>2, Zenon
      <4>4. QED
        BY <4>1, <4>2, <4>3, Zenon
    <3>5. \A c, d \in checked' : c[1] = d[1] /\ c[3] /\ d[3] => HashLeaf(c[2]) = HashLeaf(d[2])
      <4>1. ASSUME NEW c \in checked', c[3] PROVE HashLeaf(c[2]) = guardRoots'[c[1]]
        <5>1. c[3] = (HashLeaf(c[2]) = guardRoots'[c[1]])
          BY <3>4, Zenon
        <5>2. QED
          BY <4>1, <5>1, Zenon
      <4>2. QED
        BY <4>1, Zenon
    <3>6. QED
      BY <3>2, <3>4, <3>5 DEF ToldStaysTrue
  <2>4. ASSUME UNCHANGED <<commits, announced, guardRoots, checked>> PROVE ToldStaysTrue'
    BY <2>4 DEF ToldStaysTrue
  <2>5. QED
    BY <2>1, <2>2, <2>3, <2>4
    DEF RootsNext, rootVars, MintCommitRefused, GuardRegisterRefused, GuardCheckRefused
<1>3. QED
  BY <1>1, <1>2, PTL DEF RootsSpec

-----------------------------------------------------------------------------
(* RegistryGraft *)

FeedEntries ==
  [tag : {"registry-stored", "registry-updated", "registry-deleted"},
   key : RecordKeys, old : JammedAtoms, new : JammedAtoms]

\* No effect on its key comes after effect i.
Latest(i) == \A n \in DOMAIN feed : i < n => feed[n].key # feed[i].key

\* A key that the feed names has a latest effect there, one that it does not name has no
\* record, and the record of a key is as its latest effect left it.
TableAsFed ==
  /\ \A j \in DOMAIN feed : \E i \in DOMAIN feed : feed[i].key = feed[j].key /\ Latest(i)
  /\ \A k \in DOMAIN records : \E i \in DOMAIN feed : feed[i].key = k /\ Latest(i)
  /\ \A i \in DOMAIN feed : Latest(i) =>
       /\ feed[i].key \in DOMAIN records <=> feed[i].tag # "registry-deleted"
       /\ feed[i].key \in DOMAIN records => records[feed[i].key] = feed[i].new

RegistryInv == feed \in Seq(FeedEntries) /\ TableAsFed /\ RecordLife

\* What Append adds to the feed.
LEMMA FeedAppended ==
  ASSUME NEW S, NEW s \in Seq(S), NEW e \in S
  PROVE  /\ Append(s, e) \in Seq(S)
         /\ Len(s) \in Nat /\ DOMAIN s = 1..Len(s)
         /\ DOMAIN Append(s, e) = 1..(Len(s) + 1)
         /\ \A i \in 1..Len(s) : Append(s, e)[i] = s[i]
         /\ Append(s, e)[Len(s) + 1] = e
  OBVIOUS

\* An entry of the feed is one of those it was typed to hold.
LEMMA FeedTyped ==
  ASSUME NEW S, NEW s \in Seq(S), NEW i \in DOMAIN s
  PROVE  s[i] \in S
  OBVIOUS

\* What one more effect does to the feed and the table: a put is of an absent key and
\* any other of a present one, an update names the record that it found, no other key
\* is touched, and the table holds what the effect says.
LEMMA FeedGrows ==
  ASSUME RegistryInv,
         NEW e \in FeedEntries, feed' = Append(feed, e),
         e.tag = "registry-stored" <=> e.key \notin DOMAIN records,
         e.tag = "registry-updated" => e.old = records[e.key],
         \A k : k # e.key => (k \in DOMAIN records' <=> k \in DOMAIN records),
         \A k \in DOMAIN records : k # e.key => records'[k] = records[k],
         e.key \in DOMAIN records' <=> e.tag # "registry-deleted",
         e.key \in DOMAIN records' => records'[e.key] = e.new
  PROVE  RegistryInv'
<1>0. PICK n \in Nat : n = Len(feed)
  BY FeedAppended DEF RegistryInv
<1>1. /\ n \in Nat /\ DOMAIN feed = 1..n /\ DOMAIN feed' = 1..(n + 1)
      /\ feed' \in Seq(FeedEntries)
      /\ \A i \in 1..n : feed'[i] = feed[i]
      /\ feed'[n + 1] = e
  BY <1>0, FeedAppended DEF RegistryInv
<1>2. n + 1 \in 1..(n + 1) /\ \A i \in 1..(n + 1) : i = n + 1 \/ (i \in 1..n /\ i < n + 1)
  BY <1>1
<1>3. Latest(n + 1)'
  BY <1>1 DEF Latest
<1>4. \A i \in 1..n : Latest(i)' <=> Latest(i) /\ feed[i].key # e.key
  <2>1. ASSUME NEW i \in 1..n, Latest(i)' PROVE Latest(i) /\ feed[i].key # e.key
    BY <1>1, <2>1 DEF Latest
  <2>2. ASSUME NEW i \in 1..n, Latest(i), feed[i].key # e.key PROVE Latest(i)'
    BY <1>1, <1>2, <2>2 DEF Latest
  <2>3. QED
    BY <2>1, <2>2
<1>5. \A i, j \in 1..n : Follows(i, j)' <=> Follows(i, j)
  BY <1>1, <1>2 DEF Follows
<1>6. \A i \in 1..n : Follows(i, n + 1)' <=> Latest(i) /\ feed[i].key = e.key
  <2>1. ASSUME NEW i \in 1..n, Follows(i, n + 1)' PROVE Latest(i) /\ feed[i].key = e.key
    BY <1>1, <2>1 DEF Follows, Latest
  <2>2. ASSUME NEW i \in 1..n, Latest(i), feed[i].key = e.key PROVE Follows(i, n + 1)'
    BY <1>1, <1>2, <2>2 DEF Follows, Latest
  <2>3. QED
    BY <2>1, <2>2
<1>7. TableAsFed'
  <2>1. ASSUME NEW j \in 1..(n + 1)
        PROVE  \E i \in 1..(n + 1) : feed'[i].key = feed'[j].key /\ Latest(i)'
    <3>1. CASE feed'[j].key = e.key
      BY <1>1, <1>2, <1>3, <3>1
    <3>2. CASE feed'[j].key # e.key
      <4>1. j \in 1..n
        BY <1>1, <1>2, <3>2
      <4>2. PICK i \in 1..n : feed[i].key = feed[j].key /\ Latest(i)
        BY <1>1, <4>1 DEF RegistryInv, TableAsFed
      <4>3. i \in 1..(n + 1) /\ feed'[i].key = feed'[j].key /\ Latest(i)'
        BY <1>1, <1>4, <3>2, <4>1, <4>2
      <4>4. QED
        BY <4>3
    <3>3. QED
      BY <3>1, <3>2
  <2>2. ASSUME NEW k \in DOMAIN records'
        PROVE  \E i \in 1..(n + 1) : feed'[i].key = k /\ Latest(i)'
    <3>1. CASE k = e.key
      BY <1>1, <1>2, <1>3, <3>1
    <3>2. CASE k # e.key
      <4>1. k \in DOMAIN records
        BY <2>2, <3>2
      <4>2. PICK i \in 1..n : feed[i].key = k /\ Latest(i)
        BY <1>1, <4>1 DEF RegistryInv, TableAsFed
      <4>3. i \in 1..(n + 1) /\ feed'[i].key = k /\ Latest(i)'
        BY <1>1, <1>4, <3>2, <4>2
      <4>4. QED
        BY <4>3
    <3>3. QED
      BY <3>1, <3>2
  <2>3. ASSUME NEW i \in 1..(n + 1), Latest(i)'
        PROVE  /\ feed'[i].key \in DOMAIN records' <=> feed'[i].tag # "registry-deleted"
               /\ feed'[i].key \in DOMAIN records' => records'[feed'[i].key] = feed'[i].new
    <3>1. CASE i = n + 1
      BY <1>1, <3>1
    <3>2. CASE i # n + 1
      <4>1. i \in 1..n /\ Latest(i) /\ feed[i].key # e.key /\ feed'[i] = feed[i]
        BY <1>1, <1>2, <1>4, <2>3, <3>2
      <4>2. /\ feed[i].key \in DOMAIN records <=> feed[i].tag # "registry-deleted"
            /\ feed[i].key \in DOMAIN records => records[feed[i].key] = feed[i].new
        BY <1>1, <4>1 DEF RegistryInv, TableAsFed
      <4>3. QED
        BY <4>1, <4>2
    <3>3. QED
      BY <3>1, <3>2
  <2>4. QED
    BY <1>1, <2>1, <2>2, <2>3 DEF TableAsFed
<1>8. ASSUME NEW j \in 1..(n + 1), feed'[j].tag # "registry-stored"
      PROVE  \E i \in 1..(n + 1) : Follows(i, j)'
  <2>1. CASE j = n + 1
    <3>1. PICK i \in 1..n : feed[i].key = e.key /\ Latest(i)
      BY <1>1, <1>8, <2>1 DEF RegistryInv, TableAsFed
    <3>2. Follows(i, n + 1)' /\ i \in 1..(n + 1)
      BY <1>1, <1>6, <3>1
    <3>3. QED
      BY <2>1, <3>2
  <2>2. CASE j # n + 1
    <3>1. j \in 1..n
      BY <1>2, <2>2
    <3>2. PICK i \in 1..n : Follows(i, j)
      BY <1>1, <1>8, <3>1 DEF RegistryInv, RecordLife
    <3>3. Follows(i, j)' /\ i \in 1..(n + 1)
      BY <1>1, <1>5, <3>1, <3>2
    <3>4. QED
      BY <3>3
  <2>3. QED
    BY <2>1, <2>2
<1>9. ASSUME NEW i \in 1..(n + 1), NEW j \in 1..(n + 1), Follows(i, j)'
      PROVE  /\ feed'[j].tag = "registry-stored" <=> feed'[i].tag = "registry-deleted"
             /\ feed'[j].tag = "registry-updated" => feed'[j].old = feed'[i].new
  <2>1. i \in 1..n /\ feed'[i] = feed[i]
    BY <1>1, <1>9 DEF Follows
  <2>2. CASE j = n + 1
    <3>1. Latest(i) /\ feed[i].key = e.key
      BY <1>6, <1>9, <2>1, <2>2
    <3>2. /\ e.key \in DOMAIN records <=> feed[i].tag # "registry-deleted"
          /\ e.key \in DOMAIN records => records[e.key] = feed[i].new
      BY <1>1, <2>1, <3>1 DEF RegistryInv, TableAsFed
    <3>3. QED
      BY <1>1, <2>1, <2>2, <3>2
  <2>3. CASE j # n + 1
    <3>1. j \in 1..n /\ feed'[j] = feed[j]
      BY <1>1, <1>2, <2>3
    <3>2. Follows(i, j)
      BY <1>5, <1>9, <2>1, <3>1
    <3>3. QED
      BY <1>1, <2>1, <3>1, <3>2 DEF RegistryInv, RecordLife
  <2>4. QED
    BY <2>2, <2>3
<1>10. RecordLife'
  BY <1>1, <1>8, <1>9 DEF RecordLife
<1>11. QED
  BY <1>1, <1>7, <1>10 DEF RegistryInv

\* For any number of keys and records: the effects on a key tell its life, and each
\* update gives as old what the effect before it left.
THEOREM RecordLifeCorrect == RegistrySpec => []RecordLife
<1>1. RegistryInit => RegistryInv
  BY DEF RegistryInit, RegistryInv, TableAsFed, RecordLife
<1>2. RegistryInv /\ [RegistryNext]_registryVars => RegistryInv'
  <2> SUFFICES ASSUME RegistryInv, [RegistryNext]_registryVars PROVE RegistryInv'
    OBVIOUS
  <2>1. ASSUME UNCHANGED <<records, feed>> PROVE RegistryInv'
    BY <2>1 DEF RegistryInv, TableAsFed, RecordLife, Follows, Latest
  <2>2. \A k \in DOMAIN records : records[k] \in JammedAtoms
    <3> SUFFICES ASSUME NEW k \in DOMAIN records PROVE records[k] \in JammedAtoms
      OBVIOUS
    <3>1. PICK i \in DOMAIN feed : feed[i].key = k /\ Latest(i)
      BY DEF RegistryInv, TableAsFed
    <3>2. records[k] = feed[i].new
      BY <3>1 DEF RegistryInv, TableAsFed
    <3>3. feed[i] \in FeedEntries
      BY FeedTyped DEF RegistryInv
    <3>4. QED
      BY <3>2, <3>3 DEF FeedEntries
  <2>3. Malformed \in JammedAtoms
    BY DEF JammedAtoms
  <2>4. ASSUME NEW key \in RecordKeys, NEW payload \in JammedAtoms, RegistryPut(key, payload)
        PROVE  RegistryInv'
    <3> DEFINE e == [tag |-> "registry-stored", key |-> key, old |-> Malformed, new |-> payload]
    <3>1. /\ key \notin DOMAIN records /\ feed' = Append(feed, e)
          /\ records' = WithRecord(key, payload)
      BY <2>4 DEF RegistryPut, Registered, Recorded
    <3>2. e \in FeedEntries
      BY <2>3 DEF FeedEntries
    <3>3. /\ e.tag = "registry-stored" /\ e.key = key /\ e.new = payload
      OBVIOUS
    <3>4. /\ DOMAIN records' = DOMAIN records \cup {key} /\ records'[key] = payload
          /\ \A k \in DOMAIN records : k # key => records'[k] = records[k]
      BY <3>1 DEF WithRecord
    <3> HIDE DEF e
    <3>5. QED
      BY <3>1, <3>2, <3>3, <3>4, FeedGrows
  <2>5. ASSUME NEW key \in RecordKeys, NEW payload \in JammedAtoms, RegistryUpdate(key, payload)
        PROVE  RegistryInv'
    <3> DEFINE e == [tag |-> "registry-updated", key |-> key, old |-> records[key], new |-> payload]
    <3>1. /\ key \in DOMAIN records /\ feed' = Append(feed, e)
          /\ records' = WithRecord(key, payload)
      BY <2>5 DEF RegistryUpdate, Registered, Recorded
    <3>2. e \in FeedEntries
      BY <2>2, <3>1 DEF FeedEntries
    <3>3. /\ e.tag = "registry-updated" /\ e.key = key /\ e.new = payload /\ e.old = records[key]
      OBVIOUS
    <3>4. /\ DOMAIN records' = DOMAIN records \cup {key} /\ records'[key] = payload
          /\ \A k \in DOMAIN records : k # key => records'[k] = records[k]
      BY <3>1 DEF WithRecord
    <3> HIDE DEF e
    <3>5. QED
      BY <3>1, <3>2, <3>3, <3>4, FeedGrows
  <2>6. ASSUME NEW key \in RecordKeys, RegistryDel(key) PROVE RegistryInv'
    <3> DEFINE e == [tag |-> "registry-deleted", key |-> key, old |-> Malformed, new |-> Malformed]
    <3>1. /\ key \in DOMAIN records /\ feed' = Append(feed, e)
          /\ records' = [k \in DOMAIN records \ {key} |-> records[k]]
      BY <2>6 DEF RegistryDel, Registered, Recorded
    <3>2. e \in FeedEntries
      BY <2>3 DEF FeedEntries
    <3>3. /\ e.tag = "registry-deleted" /\ e.key = key
      OBVIOUS
    <3>4. /\ DOMAIN records' = DOMAIN records \ {key}
          /\ \A k \in DOMAIN records : k # key => records'[k] = records[k]
      BY <3>1
    <3> HIDE DEF e
    <3>5. QED
      BY <3>1, <3>2, <3>3, <3>4, FeedGrows
  <2>7. QED
    BY <2>1, <2>4, <2>5, <2>6
    DEF RegistryNext, registryVars, RegistryPutRefused, RegistryUpdateRefused,
        RegistryDelRefused, RegistryRefuse
<1>3. RegistryInv => RecordLife
  BY DEF RegistryInv
<1>4. QED
  BY <1>1, <1>2, <1>3, PTL DEF RegistrySpec

-----------------------------------------------------------------------------
(* AuditedWrites *)

KvOps == {"kv-set", "kv-delete"}
RegistryOps == {"registry-put", "registry-update", "registry-del"}
QueueOps == {"queue-push", "queue-pop", "queue-clear"}

\* What an audited cause leaves in the trail.
Audits ==
  [op : KvOps \cup RegistryOps \cup QueueOps, key : KvKeys \cup RecordKeys \cup JammedAtoms,
   value : KvKeys \cup RecordKeys \cup Values \cup JammedAtoms, good : BOOLEAN,
   body : JammedAtoms, entry : BOOLEAN]

\* A cause is of one store, and its body is logged iff it can be decoded.
TrailSound ==
  \A i \in DOMAIN trail :
    /\ trail[i].op \in KvOps => trail[i].key \in KvKeys
    /\ trail[i].op \in RegistryOps => trail[i].key \in RecordKeys
    /\ trail[i].entry <=> trail[i].body # Malformed

AuditInv == nextSeq \in Nat /\ trail \in Seq(Audits) /\ TrailSound /\ LogTellsStores

\* The last evidence on a key is one of them, and none is later.
LEMMA LastOnIsLast ==
  ASSUME NEW t \in Seq(Audits), NEW k, NEW ops, On(t, k, ops) # {}
  PROVE  /\ LastOn(t, k, ops) \in On(t, k, ops)
         /\ \A j \in On(t, k, ops) : j <= LastOn(t, k, ops)
<1>1. On(t, k, ops) \subseteq 1..Len(t) /\ Len(t) \in Nat
  BY DEF On, Evidence
<1>2. \E i \in On(t, k, ops) : \A j \in On(t, k, ops) : j <= i
  BY <1>1, Greatest
<1>3. QED
  BY <1>2 DEF LastOn

\* The trail after one more cause, and a cause that is evidence on k.
OneMore(t, e, u) == t \in Seq(Audits) /\ e \in Audits /\ u = Append(t, e)
Bears(e, k, ops) == e.good /\ e.entry /\ e.key = k /\ e.op \in ops

\* The evidence on k is the same in two trails, and so is the last of it.
SameEvidence(t, u, k, ops) ==
  /\ On(u, k, ops) = On(t, k, ops)
  /\ LastOn(u, k, ops) = LastOn(t, k, ops)
  /\ On(t, k, ops) # {} => u[LastOn(t, k, ops)] = t[LastOn(t, k, ops)]

\* One more cause is evidence if it was accepted and logged, and comes last.
LEMMA EvidenceAdded ==
  ASSUME NEW t, NEW e, NEW u, NEW k, NEW ops, OneMore(t, e, u), Bears(e, k, ops)
  PROVE  On(u, k, ops) # {} /\ u[LastOn(u, k, ops)] = e
<1> DEFINE n == Len(t)
           last == LastOn(u, k, ops)
<1>1. u \in Seq(Audits) /\ n \in Nat /\ DOMAIN u = 1..(n + 1) /\ u[n + 1] = e
  BY FeedAppended DEF OneMore
<1>2. n + 1 \in On(u, k, ops) /\ On(u, k, ops) \subseteq 1..(n + 1)
  BY <1>1 DEF On, Evidence, Bears
<1>3. last \in On(u, k, ops) /\ \A j \in On(u, k, ops) : j <= last
  BY <1>1, <1>2, LastOnIsLast
<1>4. last \in 1..(n + 1) /\ n + 1 <= last
  BY <1>2, <1>3
<1>5. last = n + 1
  BY <1>1, <1>4
<1>6. QED
  BY <1>1, <1>2, <1>5

\* Otherwise the evidence is what it was.
LEMMA EvidenceKept ==
  ASSUME NEW t, NEW e, NEW u, NEW k, NEW ops, OneMore(t, e, u), ~Bears(e, k, ops)
  PROVE  SameEvidence(t, u, k, ops)
<1> DEFINE n == Len(t)
<1>1. /\ n \in Nat /\ DOMAIN t = 1..n /\ DOMAIN u = 1..(n + 1)
      /\ \A i \in 1..n : u[i] = t[i]
      /\ u[n + 1] = e
  BY FeedAppended DEF OneMore
<1>0. t \in Seq(Audits)
  BY DEF OneMore
<1> HIDE DEF n
<1>2. \A i \in 1..(n + 1) : i \in 1..n \/ i = n + 1
  BY <1>1
<1>3. On(u, k, ops) = On(t, k, ops)
  BY <1>1, <1>2 DEF On, Evidence, Bears
<1>4. LastOn(u, k, ops) = LastOn(t, k, ops)
  BY <1>3 DEF LastOn
<1>5. ASSUME On(t, k, ops) # {}
      PROVE  u[LastOn(t, k, ops)] = t[LastOn(t, k, ops)]
  <2>1. LastOn(t, k, ops) \in 1..n
    BY <1>0, <1>1, <1>5, LastOnIsLast DEF On, Evidence
  <2>2. QED
    BY <1>1, <2>1
<1>6. QED
  BY <1>3, <1>4, <1>5 DEF SameEvidence

\* What one more cause does to one key of a rebuilt table.
LEMMA RebuiltAt ==
  ASSUME NEW t \in Seq(Audits), NEW e \in Audits, NEW keys, NEW writes, NEW removals,
         NEW k \in keys
  PROVE  LET R == Rebuilt(t, keys, writes, removals)
             U == Rebuilt(Append(t, e), keys, writes, removals)
             news == e.good /\ e.entry /\ e.key = k /\ e.op \in writes \cup removals
         IN  /\ news => /\ k \in DOMAIN U <=> e.op \in writes
                        /\ k \in DOMAIN U => U[k] = e.value
             /\ ~news => /\ k \in DOMAIN U <=> k \in DOMAIN R
                         /\ k \in DOMAIN R => U[k] = R[k]
<1> DEFINE u == Append(t, e)
           R == Rebuilt(t, keys, writes, removals)
           U == Rebuilt(u, keys, writes, removals)
<1>0. PICK ops : ops = writes \cup removals
  OBVIOUS
<1>1. /\ R = [x \in { x \in keys : On(t, x, ops) # {} /\ t[LastOn(t, x, ops)].op \in writes } |->
                t[LastOn(t, x, ops)].value]
      /\ U = [x \in { x \in keys : On(u, x, ops) # {} /\ u[LastOn(u, x, ops)].op \in writes } |->
                u[LastOn(u, x, ops)].value]
  BY <1>0, Zenon DEF Rebuilt
<1>9. OneMore(t, e, u)
  BY DEF OneMore
<1> HIDE DEF R, U, u
<1>2. /\ k \in DOMAIN R <=> On(t, k, ops) # {} /\ t[LastOn(t, k, ops)].op \in writes
      /\ k \in DOMAIN R => R[k] = t[LastOn(t, k, ops)].value
      /\ k \in DOMAIN U <=> On(u, k, ops) # {} /\ u[LastOn(u, k, ops)].op \in writes
      /\ k \in DOMAIN U => U[k] = u[LastOn(u, k, ops)].value
  BY <1>1
<1>3. CASE Bears(e, k, ops)
  <2>1. On(u, k, ops) # {} /\ u[LastOn(u, k, ops)] = e
    BY <1>9, <1>3, EvidenceAdded
  <2>2. (k \in DOMAIN U <=> e.op \in writes) /\ (k \in DOMAIN U => U[k] = e.value)
    BY <1>2, <2>1
  <2>3. QED
    BY <1>0, <1>3, <2>2 DEF R, U, u, Bears
<1>4. CASE ~Bears(e, k, ops)
  <2>1. SameEvidence(t, u, k, ops)
    BY <1>9, <1>4, EvidenceKept
  <2>2. (k \in DOMAIN U <=> k \in DOMAIN R) /\ (k \in DOMAIN R => U[k] = R[k])
    BY <1>2, <2>1 DEF SameEvidence
  <2>3. QED
    BY <1>0, <1>4, <2>2 DEF R, U, u, Bears
<1>5. QED
  BY <1>3, <1>4

\* A rebuilt table is a function on some of the keys.
LEMMA RebuiltIsTable ==
  ASSUME NEW t, NEW keys, NEW writes, NEW removals
  PROVE  LET R == Rebuilt(t, keys, writes, removals)
         IN  DOMAIN R \subseteq keys /\ R = [k \in DOMAIN R |-> R[k]]
BY DEF Rebuilt

\* What one more cause does to a rebuilt table: nothing, a write or a removal.
LEMMA RebuiltSame ==
  ASSUME NEW t \in Seq(Audits), NEW e \in Audits, NEW keys, NEW writes, NEW removals,
         ~(e.good /\ e.entry /\ e.op \in writes \cup removals)
  PROVE  Rebuilt(Append(t, e), keys, writes, removals) = Rebuilt(t, keys, writes, removals)
<1> DEFINE R == Rebuilt(t, keys, writes, removals)
           U == Rebuilt(Append(t, e), keys, writes, removals)
<1>1. \A k \in keys : /\ k \in DOMAIN U <=> k \in DOMAIN R
                      /\ k \in DOMAIN R => U[k] = R[k]
  BY RebuiltAt
<1>2. /\ DOMAIN R \subseteq keys /\ R = [k \in DOMAIN R |-> R[k]]
      /\ DOMAIN U \subseteq keys /\ U = [k \in DOMAIN U |-> U[k]]
  BY RebuiltIsTable
<1> HIDE DEF R, U
<1>3. DOMAIN U = DOMAIN R /\ \A k \in DOMAIN R : U[k] = R[k]
  BY <1>1, <1>2
<1>4. U = R
  BY <1>2, <1>3
<1>5. QED
  BY <1>4 DEF R, U

\* A table that a trail tells is told by one cause more, if the cause does to it what
\* the trail will say.
LEMMA StillTold ==
  ASSUME NEW t \in Seq(Audits), NEW e \in Audits, NEW keys, NEW writes, NEW removals,
         NEW table, table = Rebuilt(t, keys, writes, removals),
         NEW after, after = [k \in DOMAIN after |-> after[k]],
         e.entry, writes \cap removals = {},
         e.op \in writes \cup removals => e.key \in keys,
         ~(e.good /\ e.op \in writes \cup removals) => after = table,
         e.good /\ e.op \in writes =>
           /\ \A k : k \in DOMAIN after <=> k \in DOMAIN table \/ k = e.key
           /\ after[e.key] = e.value
           /\ \A k \in DOMAIN table : k # e.key => after[k] = table[k],
         e.good /\ e.op \in removals =>
           /\ \A k : k \in DOMAIN after <=> k \in DOMAIN table /\ k # e.key
           /\ \A k \in DOMAIN table : k # e.key => after[k] = table[k]
  PROVE  after = Rebuilt(Append(t, e), keys, writes, removals)
<1> DEFINE R == Rebuilt(t, keys, writes, removals)
           U == Rebuilt(Append(t, e), keys, writes, removals)
<1>1. \A k \in keys :
        LET news == e.good /\ e.entry /\ e.key = k /\ e.op \in writes \cup removals
        IN  /\ news => /\ k \in DOMAIN U <=> e.op \in writes
                       /\ k \in DOMAIN U => U[k] = e.value
            /\ ~news => /\ k \in DOMAIN U <=> k \in DOMAIN R
                        /\ k \in DOMAIN R => U[k] = R[k]
  BY RebuiltAt
<1>2. DOMAIN R \subseteq keys /\ DOMAIN U \subseteq keys /\ U = [k \in DOMAIN U |-> U[k]]
  BY RebuiltIsTable
<1>3. R = table
  OBVIOUS
<1> HIDE DEF R, U
<1>4. CASE ~(e.good /\ e.op \in writes \cup removals)
  BY <1>4, RebuiltSame DEF U
<1>5. CASE e.good /\ e.op \in writes
  <2>1. e.key \in keys
    BY <1>5
  <2>2. e.key \in DOMAIN U /\ U[e.key] = e.value
    BY <1>1, <1>5, <2>1
  <2>3. \A k \in keys : k # e.key => /\ k \in DOMAIN U <=> k \in DOMAIN table
                                     /\ k \in DOMAIN table => U[k] = table[k]
    BY <1>1, <1>3
  <2>4. DOMAIN U = DOMAIN after /\ \A k \in DOMAIN U : U[k] = after[k]
    BY <1>2, <1>3, <1>5, <2>1, <2>2, <2>3
  <2>5. QED
    BY <1>2, <2>4 DEF U
<1>6. CASE e.good /\ e.op \in removals
  <2>1. e.key \in keys /\ e.op \notin writes
    BY <1>6
  <2>2. e.key \notin DOMAIN U
    BY <1>1, <1>6, <2>1
  <2>3. \A k \in keys : k # e.key => /\ k \in DOMAIN U <=> k \in DOMAIN table
                                     /\ k \in DOMAIN table => U[k] = table[k]
    BY <1>1, <1>3
  <2>4. DOMAIN U = DOMAIN after /\ \A k \in DOMAIN U : U[k] = after[k]
    BY <1>2, <1>3, <1>6, <2>1, <2>2, <2>3
  <2>5. QED
    BY <1>2, <2>4 DEF U
<1>7. QED
  BY <1>4, <1>5, <1>6

\* An audited cause keeps the invariant if its store does what the trail will say of it.
LEMMA AuditedKeeps ==
  ASSUME AuditInv, NEW op \in KvOps \cup RegistryOps \cup QueueOps, NEW key, NEW value,
         NEW good \in BOOLEAN, NEW body \in JammedAtoms, Audited(op, key, value, good, body),
         key \in KvKeys \cup RecordKeys \cup JammedAtoms,
         value \in KvKeys \cup RecordKeys \cup Values \cup JammedAtoms,
         op \in KvOps => key \in KvKeys,
         op \in RegistryOps => key \in RecordKeys,
         ~good \/ op \notin KvOps => store' = store,
         ~good \/ op \notin RegistryOps => records' = records,
         good /\ op = "kv-set" =>
           store' = [k \in DOMAIN store \cup {key} |-> IF k = key THEN value ELSE store[k]],
         good /\ op = "kv-delete" => store' = [k \in DOMAIN store \ {key} |-> store[k]],
         good /\ op \in {"registry-put", "registry-update"} =>
           records' = [k \in DOMAIN records \cup {key} |->
                         IF k = key THEN value ELSE records[k]],
         good /\ op = "registry-del" =>
           records' = [k \in DOMAIN records \ {key} |-> records[k]],
         bypassed' = bypassed
  PROVE  AuditInv'
<1> DEFINE e == [op |-> op, key |-> key, value |-> value, good |-> good, body |-> body,
                 entry |-> nextSeq' # nextSeq]
<1>1. /\ nextSeq' \in Nat
      /\ nextSeq' # nextSeq <=> body # Malformed
  BY DEF Audited, Logged, LogAppend, LogAppendRefused, AuditInv
<1>2. e \in Audits /\ trail' = Append(trail, e) /\ trail \in Seq(Audits)
  BY DEF Audits, Audited, AuditInv
<1>3. /\ e.op = op /\ e.key = key /\ e.value = value /\ e.good = good /\ e.body = body
      /\ e.entry <=> body # Malformed
  BY <1>1
<1> HIDE DEF e
<1>4. PICK n \in Nat :
        /\ DOMAIN trail = 1..n /\ DOMAIN trail' = 1..(n + 1)
        /\ trail' \in Seq(Audits)
        /\ \A i \in 1..n : trail'[i] = trail[i]
        /\ trail'[n + 1] = e
  BY <1>2, FeedAppended
<1>5. \A i \in 1..(n + 1) : i \in 1..n \/ i = n + 1
  OBVIOUS
<1>6. TrailSound'
  <2> SUFFICES ASSUME NEW i \in 1..(n + 1)
               PROVE  /\ trail'[i].op \in KvOps => trail'[i].key \in KvKeys
                      /\ trail'[i].op \in RegistryOps => trail'[i].key \in RecordKeys
                      /\ trail'[i].entry <=> trail'[i].body # Malformed
    BY <1>4 DEF TrailSound
  <2>1. CASE i \in 1..n
    BY <1>4, <2>1 DEF AuditInv, TrailSound
  <2>2. CASE i = n + 1
    BY <1>3, <1>4, <2>2
  <2>3. QED
    BY <1>5, <2>1, <2>2
<1>7. ASSUME ~bypassed', \A i \in DOMAIN trail' : trail'[i].body # Malformed
      PROVE  /\ store' = Rebuilt(trail', KvKeys, {"kv-set"}, {"kv-delete"})
             /\ records' = Rebuilt(trail', RecordKeys, {"registry-put", "registry-update"},
                                   {"registry-del"})
  <2>1. body # Malformed /\ \A i \in DOMAIN trail : trail[i].body # Malformed
    <3>1. n + 1 \in 1..(n + 1) /\ 1..n \subseteq 1..(n + 1)
      OBVIOUS
    <3>2. QED
      BY <1>3, <1>4, <1>7, <3>1
  <2>2. /\ store = Rebuilt(trail, KvKeys, {"kv-set"}, {"kv-delete"})
        /\ records = Rebuilt(trail, RecordKeys, {"registry-put", "registry-update"},
                             {"registry-del"})
    BY <1>7, <2>1 DEF AuditInv, LogTellsStores
  <2>3. e.entry
    BY <1>3, <2>1
  <2>4. store' = Rebuilt(trail', KvKeys, {"kv-set"}, {"kv-delete"})
    <3>1. PICK writes, removals : writes = {"kv-set"} /\ removals = {"kv-delete"}
      OBVIOUS
    <3>2. /\ store = Rebuilt(trail, KvKeys, writes, removals)
          /\ writes \cap removals = {}
          /\ e.op \in writes \cup removals <=> op \in KvOps
          /\ e.op \in writes \cup removals => e.key \in KvKeys
      BY <1>3, <2>2, <3>1 DEF KvOps
    <3>3. /\ store' = [k \in DOMAIN store' |-> store'[k]]
          /\ ~(e.good /\ e.op \in writes \cup removals) => store' = store
          /\ e.good /\ e.op \in writes =>
               /\ \A k : k \in DOMAIN store' <=> k \in DOMAIN store \/ k = e.key
               /\ store'[e.key] = e.value
               /\ \A k \in DOMAIN store : k # e.key => store'[k] = store[k]
          /\ e.good /\ e.op \in removals =>
               /\ \A k : k \in DOMAIN store' <=> k \in DOMAIN store /\ k # e.key
               /\ \A k \in DOMAIN store : k # e.key => store'[k] = store[k]
      <4>1. store = [k \in DOMAIN store |-> store[k]]
        BY <3>2, RebuiltIsTable
      <4>2. QED
        BY <1>3, <3>1, <3>2, <4>1
    <3>4. store' = Rebuilt(Append(trail, e), KvKeys, writes, removals)
      BY <1>2, <2>3, <3>2, <3>3, StillTold
    <3>5. QED
      BY <1>2, <3>1, <3>4
  <2>5. records' = Rebuilt(trail', RecordKeys, {"registry-put", "registry-update"},
                           {"registry-del"})
    <3>1. PICK writes, removals : writes = {"registry-put", "registry-update"}
                                 /\ removals = {"registry-del"}
      OBVIOUS
    <3>2. /\ records = Rebuilt(trail, RecordKeys, writes, removals)
          /\ writes \cap removals = {}
          /\ e.op \in writes \cup removals <=> op \in RegistryOps
          /\ e.op \in writes \cup removals => e.key \in RecordKeys
      BY <1>3, <2>2, <3>1 DEF RegistryOps
    <3>3. /\ records' = [k \in DOMAIN records' |-> records'[k]]
          /\ ~(e.good /\ e.op \in writes \cup removals) => records' = records
          /\ e.good /\ e.op \in writes =>
               /\ \A k : k \in DOMAIN records' <=> k \in DOMAIN records \/ k = e.key
               /\ records'[e.key] = e.value
               /\ \A k \in DOMAIN records : k # e.key => records'[k] = records[k]
          /\ e.good /\ e.op \in removals =>
               /\ \A k : k \in DOMAIN records' <=> k \in DOMAIN records /\ k # e.key
               /\ \A k \in DOMAIN records : k # e.key => records'[k] = records[k]
      <4>1. records = [k \in DOMAIN records |-> records[k]]
        BY <3>2, RebuiltIsTable
      <4>2. QED
        BY <1>3, <3>1, <3>2, <4>1
    <3>4. records' = Rebuilt(Append(trail, e), RecordKeys, writes, removals)
      BY <1>2, <2>3, <3>2, <3>3, StillTold
    <3>5. QED
      BY <1>2, <3>1, <3>4
  <2>6. QED
    BY <2>4, <2>5
<1>8. QED
  BY <1>1, <1>4, <1>6, <1>7 DEF AuditInv, LogTellsStores

\* For any keys, values, caps and bodies: while every write of the stores is audited and
\* every body can be decoded, the log with the effects gives the contents of the stores.
THEOREM LogTellsStoresCorrect == AuditSpec => []LogTellsStores
<1>1. AuditInit => AuditInv
  <2> SUFFICES ASSUME AuditInit PROVE AuditInv
    OBVIOUS
  <2>1. trail = <<>> /\ trail \in Seq(Audits) /\ nextSeq \in Nat
    BY LogAssumption DEF AuditInit, LogInit
  <2>2. \A k, ops : On(trail, k, ops) = {}
    BY <2>1 DEF On, Evidence
  <2>3. store = [k \in {} |-> {}] /\ records = [k \in {} |-> {}]
    BY DEF AuditInit, KvInit, RegistryInit
  <2>4. ASSUME NEW keys, NEW writes, NEW removals
        PROVE  Rebuilt(trail, keys, writes, removals) = [k \in {} |-> {}]
    BY <2>2 DEF Rebuilt
  <2>5. QED
    BY <2>1, <2>3, <2>4 DEF AuditInv, TrailSound, LogTellsStores
<1>2. AuditInv /\ [AuditNext]_auditVars => AuditInv'
  <2> SUFFICES ASSUME AuditInv, [AuditNext]_auditVars PROVE AuditInv'
    OBVIOUS
  <2>1. ASSUME NEW body \in LogBodies, AuditKv(body), UNCHANGED bypassed
        PROVE  AuditInv'
    <3> PICK key \in KvKeys :
          /\ \/ \E value \in Values : KvSet(key, value) /\ Audited("kv-set", key, value, TRUE, body)
             \/ \E value \in Values : KvSetRefused(key) /\ Audited("kv-set", key, value, FALSE, body)
             \/ KvDelete(key) /\ Audited("kv-delete", key, key, TRUE, body)
          /\ UNCHANGED <<registryVars, queueVars>>
      BY <2>1 DEF AuditKv
    <3>1. body \in JammedAtoms /\ records' = records
      BY AuditAssumption DEF registryVars
    <3>2. CASE \E value \in Values : KvSet(key, value) /\ Audited("kv-set", key, value, TRUE, body)
      BY <2>1, <3>1, <3>2, AuditedKeeps DEF KvSet, KvOps, RegistryOps
    <3>3. CASE \E value \in Values :
                 KvSetRefused(key) /\ Audited("kv-set", key, value, FALSE, body)
      BY <2>1, <3>1, <3>3, AuditedKeeps DEF KvSetRefused, KvOps, RegistryOps
    <3>4. CASE KvDelete(key) /\ Audited("kv-delete", key, key, TRUE, body)
      BY <2>1, <3>1, <3>4, AuditedKeeps DEF KvDelete, KvOps, RegistryOps
    <3>5. QED
      BY <3>2, <3>3, <3>4
  <2>2. ASSUME NEW body \in LogBodies, AuditRegistry(body), UNCHANGED bypassed
        PROVE  AuditInv'
    <3> PICK key \in RecordKeys :
          /\ \/ \E payload \in JammedAtoms :
                  \/ RegistryPut(key, payload) /\ Audited("registry-put", key, payload, TRUE, body)
                  \/ RegistryPutRefused(key, payload)
                       /\ Audited("registry-put", key, payload, FALSE, body)
                  \/ RegistryUpdate(key, payload)
                       /\ Audited("registry-update", key, payload, TRUE, body)
                  \/ RegistryUpdateRefused(key, payload)
                       /\ Audited("registry-update", key, payload, FALSE, body)
             \/ RegistryDel(key) /\ Audited("registry-del", key, key, TRUE, body)
             \/ RegistryDelRefused(key) /\ Audited("registry-del", key, key, FALSE, body)
          /\ UNCHANGED <<kvVars, queueVars>>
      BY <2>2 DEF AuditRegistry
    <3>1. body \in JammedAtoms /\ store' = store
      BY AuditAssumption DEF kvVars
    <3>2. ASSUME NEW payload \in JammedAtoms,
                 RegistryPut(key, payload), Audited("registry-put", key, payload, TRUE, body)
          PROVE  AuditInv'
      <4>1. records' = [k \in DOMAIN records \cup {key} |->
                          IF k = key THEN payload ELSE records[k]]
        BY <3>2 DEF RegistryPut, Registered, WithRecord
      <4>2. QED
        BY <2>2, <3>1, <3>2, <4>1, AuditedKeeps DEF KvOps, RegistryOps
    <3>3. ASSUME NEW payload \in JammedAtoms, RegistryUpdate(key, payload),
                 Audited("registry-update", key, payload, TRUE, body)
          PROVE  AuditInv'
      <4>1. records' = [k \in DOMAIN records \cup {key} |->
                          IF k = key THEN payload ELSE records[k]]
        BY <3>3 DEF RegistryUpdate, Registered, WithRecord
      <4>2. QED
        BY <2>2, <3>1, <3>3, <4>1, AuditedKeeps DEF KvOps, RegistryOps
    <3>4. ASSUME NEW payload \in JammedAtoms, NEW op \in {"registry-put", "registry-update"},
                 records' = records, Audited(op, key, payload, FALSE, body)
          PROVE  AuditInv'
      BY <2>2, <3>1, <3>4, AuditedKeeps DEF KvOps, RegistryOps
    <3>5. CASE RegistryDel(key) /\ Audited("registry-del", key, key, TRUE, body)
      <4>1. records' = [k \in DOMAIN records \ {key} |-> records[k]]
        BY <3>5 DEF RegistryDel, Registered
      <4>2. QED
        BY <2>2, <3>1, <3>5, <4>1, AuditedKeeps DEF KvOps, RegistryOps
    <3>6. CASE RegistryDelRefused(key) /\ Audited("registry-del", key, key, FALSE, body)
      <4>1. records' = records
        BY <3>6 DEF RegistryDelRefused, RegistryRefuse
      <4>2. QED
        BY <2>2, <3>1, <3>6, <4>1, AuditedKeeps DEF KvOps, RegistryOps
    <3>7. QED
      BY <3>2, <3>3, <3>4, <3>5, <3>6
         DEF RegistryPutRefused, RegistryUpdateRefused, RegistryRefuse
  <2>3. ASSUME NEW body \in LogBodies, AuditQueue(body), UNCHANGED bypassed
        PROVE  AuditInv'
    <3>1. body \in JammedAtoms /\ store' = store /\ records' = records
      BY <2>3, AuditAssumption DEF AuditQueue, kvVars, registryVars
    <3>2. ASSUME NEW op \in QueueOps, NEW payload \in JammedAtoms, NEW good \in BOOLEAN,
                 Audited(op, payload, payload, good, body)
          PROVE  AuditInv'
      BY <2>3, <3>1, <3>2, AuditedKeeps DEF KvOps, RegistryOps, QueueOps
    <3>3. QED
      BY <2>3, <3>1, <3>2 DEF AuditQueue, QueueOps
  <2>4. CASE Bypass
    BY <2>4 DEF Bypass, AuditInv, TrailSound, LogTellsStores, logVars
  <2>5. CASE UNCHANGED auditVars
    BY <2>5 DEF auditVars, kvVars, registryVars, logVars, AuditInv, TrailSound, LogTellsStores
  <2>6. QED
    BY <2>1, <2>2, <2>3, <2>4, <2>5 DEF AuditNext, AuditWrite
<1>3. AuditInv => LogTellsStores
  BY DEF AuditInv
<1>4. QED
  BY <1>1, <1>2, <1>3, PTL DEF AuditSpec

=============================================================================
