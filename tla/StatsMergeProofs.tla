-------------------------- MODULE StatsMergeProofs --------------------------
(***************************************************************************)
(* Proofs about module StatsMerge, for logs of any length, any clock and   *)
(* any number of resets.  First that StableSort is a stable sort, which    *)
(* rests on the ranks of the records being a permutation of their indices, *)
(* then what that means for the stamps the peers have written.             *)
(***************************************************************************)
EXTENDS StatsMerge, FiniteSetTheorems, SequenceTheorems, TLAPS

Records == [node : Roles, time : Nat, place : Nat, era : Nat]

\* Record i is to be put before record j.
Precedes(seq, i, j) ==
    \/ seq[i].time < seq[j].time
    \/ seq[i].time = seq[j].time /\ i < j

\* The records that have to come before record i, and itself.
UpTo(seq, i) ==
    { j \in 1..Len(seq) :
        \/ Before(seq[j].time, seq[i].time)
        \/ ~Before(seq[i].time, seq[j].time) /\ j <= i }

-----------------------------------------------------------------------------
(* Ranks.                                                                  *)

LEMMA TimeType ==
    ASSUME NEW seq \in Seq(Records)
    PROVE  Len(seq) \in Nat /\ \A i \in 1..Len(seq) : seq[i].time \in Nat
<1>1. ASSUME NEW i \in 1..Len(seq) PROVE seq[i].time \in Nat
  <2>1. seq[i] \in Records
    OBVIOUS
  <2> QED
    BY <2>1 DEF Records
<1> QED
  BY <1>1

\* Of two records one precedes the other.
LEMMA PrecedesTotal ==
    ASSUME NEW seq \in Seq(Records), NEW i \in 1..Len(seq), NEW j \in 1..Len(seq), i # j
    PROVE  Precedes(seq, i, j) \/ Precedes(seq, j, i)
  BY TimeType DEF Precedes

LEMMA UpToFinite ==
    ASSUME NEW seq \in Seq(Records), NEW i \in 1..Len(seq)
    PROVE  /\ UpTo(seq, i) \in SUBSET (1..Len(seq)) /\ i \in UpTo(seq, i)
           /\ IsFiniteSet(UpTo(seq, i))
           /\ Rank(seq, i) = Cardinality(UpTo(seq, i))
           /\ Rank(seq, i) \in 1..Len(seq)
<1>1. UpTo(seq, i) \in SUBSET (1..Len(seq)) /\ i \in UpTo(seq, i)
  BY TimeType DEF UpTo, Before
<1>2. Len(seq) \in Nat /\ IsFiniteSet(1..Len(seq)) /\ Cardinality(1..Len(seq)) = Len(seq)
  BY FS_Interval
<1>3. IsFiniteSet(UpTo(seq, i)) /\ Cardinality(UpTo(seq, i)) <= Len(seq)
  BY <1>1, <1>2, FS_Subset
<1>4. Cardinality(UpTo(seq, i)) \in Nat /\ Cardinality(UpTo(seq, i)) # 0
  BY <1>1, <1>3, FS_CardinalityType, FS_EmptySet
<1>5. Rank(seq, i) = Cardinality(UpTo(seq, i))
  BY DEF Rank, UpTo
<1> QED
  BY <1>1, <1>2, <1>3, <1>4, <1>5

\* What precedes has the lower rank.
LEMMA RankMonotone ==
    ASSUME NEW seq \in Seq(Records), NEW i \in 1..Len(seq), NEW j \in 1..Len(seq),
           Precedes(seq, i, j)
    PROVE  Rank(seq, i) < Rank(seq, j)
<1>1. UpTo(seq, i) \subseteq UpTo(seq, j) /\ j \notin UpTo(seq, i)
  BY TimeType, SMTT(30) DEF UpTo, Before, Precedes
<1>2. UpTo(seq, i) # UpTo(seq, j)
  BY <1>1, UpToFinite
<1>3. /\ Cardinality(UpTo(seq, i)) <= Cardinality(UpTo(seq, j))
      /\ Cardinality(UpTo(seq, i)) # Cardinality(UpTo(seq, j))
  BY <1>1, <1>2, UpToFinite, FS_Subset
<1> QED
  BY <1>3, UpToFinite

\* The order is total, so that ranks tell records apart and tell their order.
LEMMA RankOrder ==
    ASSUME NEW seq \in Seq(Records), NEW i \in 1..Len(seq), NEW j \in 1..Len(seq),
           Rank(seq, i) < Rank(seq, j)
    PROVE  Precedes(seq, i, j)
<1>1. Rank(seq, i) \in Nat /\ Rank(seq, j) \in Nat
  BY UpToFinite
<1>2. i # j /\ ~Precedes(seq, j, i)
  BY <1>1, RankMonotone
<1> QED
  BY <1>2, PrecedesTotal

\* Every place of the sorted sequence is the rank of exactly one record.
LEMMA RankOnto ==
    ASSUME NEW seq \in Seq(Records), NEW k \in 1..Len(seq)
    PROVE  \E i \in 1..Len(seq) : Rank(seq, i) = k
<1> DEFINE S == 1..Len(seq)
           rank == [i \in S |-> Rank(seq, i)]
<1>1. rank \in [S -> S]
  BY UpToFinite
<1>2. ASSUME NEW i \in S, NEW j \in S, i # j PROVE rank[i] # rank[j]
  <2>1. Precedes(seq, i, j) \/ Precedes(seq, j, i)
    BY <1>2, PrecedesTotal
  <2>2. Rank(seq, i) # Rank(seq, j)
    BY <2>1, RankMonotone, UpToFinite
  <2> QED
    BY <2>2
<1>3. rank \in Injection(S, S)
  BY <1>1, <1>2 DEF Injection, IsInjective
<1>4. IsFiniteSet(S)
  BY FS_Interval
<1>5. rank \in Surjection(S, S)
  BY <1>3, <1>4, FS_Injection
<1> QED
  BY <1>5 DEF Surjection

\* StableSort permutes a sequence: the k-th record is the one of rank k, and
\* each record is found at its rank.
LEMMA SortedBy ==
    ASSUME NEW seq \in Seq(Records)
    PROVE  /\ StableSort(seq) \in Seq(Records)
           /\ Len(StableSort(seq)) = Len(seq)
           /\ \A k \in 1..Len(seq) : \E i \in 1..Len(seq) :
                Rank(seq, i) = k /\ StableSort(seq)[k] = seq[i]
           /\ \A i \in 1..Len(seq) : StableSort(seq)[Rank(seq, i)] = seq[i]
<1> DEFINE at(k) == CHOOSE i \in 1..Len(seq) : Rank(seq, i) = k
<1>1. ASSUME NEW k \in 1..Len(seq)
      PROVE  at(k) \in 1..Len(seq) /\ Rank(seq, at(k)) = k
  BY RankOnto
<1>2. StableSort(seq) = [k \in 1..Len(seq) |-> seq[at(k)]]
  BY DEF StableSort
<1> HIDE DEF at
<1>3. StableSort(seq) \in Seq(Records) /\ Len(StableSort(seq)) = Len(seq)
  BY <1>1, <1>2
<1>4. ASSUME NEW k \in 1..Len(seq)
      PROVE  \E i \in 1..Len(seq) : Rank(seq, i) = k /\ StableSort(seq)[k] = seq[i]
  BY <1>1, <1>2
<1>5. ASSUME NEW i \in 1..Len(seq) PROVE StableSort(seq)[Rank(seq, i)] = seq[i]
  <2>1. Rank(seq, i) \in 1..Len(seq)
    BY UpToFinite
  <2>2. PICK j \in 1..Len(seq) :
          Rank(seq, j) = Rank(seq, i) /\ StableSort(seq)[Rank(seq, i)] = seq[j]
    BY <2>1, <1>4
  <2>3. i = j
    <3>1. i # j => Precedes(seq, i, j) \/ Precedes(seq, j, i)
      BY PrecedesTotal
    <3> QED
      BY <2>2, <3>1, RankMonotone, UpToFinite
  <2> QED
    BY <2>2, <2>3
<1> QED
  BY <1>3, <1>4, <1>5

-----------------------------------------------------------------------------
(* The inductive invariant.                                                *)

MergeTypes ==
    /\ clock \in Nat /\ resets \in Nat /\ done \in BOOLEAN
    /\ logs \in [Roles -> Seq(Records)]

\* A record tells who took it, and neither its place nor the state of the clock
\* it tells of is ahead of the present.
Stamped ==
    \A r \in Roles : \A i \in 1..Len(logs[r]) :
        /\ logs[r][i].node = r
        /\ logs[r][i].place \in 1..Written
        /\ logs[r][i].era <= resets
        /\ logs[r][i].era = resets => logs[r][i].time <= clock

\* No two records have the same place, a log is in the order of its places,
\* and without a reset between them the later record has no earlier stamp.
InOrder ==
    \A q, r \in Roles : \A i \in 1..Len(logs[q]), j \in 1..Len(logs[r]) :
        /\ logs[q][i].place = logs[r][j].place => q = r /\ i = j
        /\ q = r /\ i < j => logs[q][i].place < logs[r][j].place
        /\ logs[q][i].place < logs[r][j].place /\ logs[q][i].era = logs[r][j].era
              => logs[q][i].time <= logs[r][j].time

\* What has been merged is everything: nobody logs afterwards.
MergedAll ==
    done =>
        /\ merged = StableSort(AllRecords)
        /\ \A r \in Roles : Len(logs[r]) = Samples

MergeInv == MergeTypes /\ Stamped /\ InOrder /\ MergedAll

LEMMA InitMerge == Init => MergeInv
<1> SUFFICES ASSUME Init PROVE MergeInv
  OBVIOUS
<1>1. \A r \in Roles : logs[r] = <<>> /\ Len(logs[r]) = 0
  BY DEF Init
<1>2. MergeTypes
  <2>1. <<>> \in Seq(Records)
    OBVIOUS
  <2> QED
    BY <2>1 DEF Init, MergeTypes
<1>3. Stamped /\ InOrder /\ MergedAll
  BY <1>1 DEF Init, Stamped, InOrder, MergedAll
<1> QED
  BY <1>2, <1>3 DEF MergeInv

\* What Sample adds to the logs: everything else stays where it was.
LEMMA Sampled ==
    ASSUME MergeTypes, NEW p \in Roles, Sample(p)
    PROVE  LET new == [node |-> p, time |-> clock, place |-> Written + 1, era |-> resets]
           IN  /\ new \in Records /\ Written \in Nat /\ Written' = Written + 1
               /\ logs' \in [Roles -> Seq(Records)]
               /\ \A r \in Roles : Len(logs[r]) \in Nat /\ Len(logs'[r]) \in Nat
               /\ \A r \in Roles : \A i \in 1..Len(logs'[r]) :
                    \/ i \in 1..Len(logs[r]) /\ logs'[r][i] = logs[r][i]
                    \/ r = p /\ i = Len(logs[r]) + 1 /\ logs'[r][i] = new
<1> DEFINE new == [node |-> p, time |-> clock, place |-> Written + 1, era |-> resets]
<1>1. Written \in Nat
  BY DEF MergeTypes, Written, Roles
<1>2. new \in Records
  BY <1>1 DEF MergeTypes, Records
<1>3. logs' = [logs EXCEPT ![p] = Append(logs[p], new)]
  BY DEF Sample
<1> HIDE DEF new
<1>4. /\ logs' \in [Roles -> Seq(Records)]
      /\ Len(logs'[p]) = Len(logs[p]) + 1
      /\ \A r \in Roles \ {p} : logs'[r] = logs[r]
  BY <1>2, <1>3 DEF MergeTypes
<1>5. Written' = Written + 1
  BY <1>4, SMTT(30) DEF Written, MergeTypes, Roles
<1>6. ASSUME NEW r \in Roles, NEW i \in 1..Len(logs'[r])
      PROVE  \/ i \in 1..Len(logs[r]) /\ logs'[r][i] = logs[r][i]
             \/ r = p /\ i = Len(logs[r]) + 1 /\ logs'[r][i] = new
  BY <1>2, <1>3 DEF MergeTypes
<1>7. \A r \in Roles : Len(logs[r]) \in Nat /\ Len(logs'[r]) \in Nat
  BY <1>4 DEF MergeTypes
<1> QED
  BY <1>1, <1>2, <1>4, <1>5, <1>6, <1>7 DEF new

LEMMA SampleKeeps ==
    ASSUME MergeInv, NEW p \in Roles, Sample(p)
    PROVE  MergeInv'
<1> DEFINE new == [node |-> p, time |-> clock, place |-> Written + 1, era |-> resets]
<1>0. MergeTypes /\ Stamped /\ InOrder /\ MergedAll /\ UNCHANGED <<clock, resets, merged, done>>
  BY DEF MergeInv, Sample
<1>1. /\ new \in Records /\ Written \in Nat /\ Written' = Written + 1
      /\ logs' \in [Roles -> Seq(Records)]
      /\ \A r \in Roles : Len(logs[r]) \in Nat /\ Len(logs'[r]) \in Nat
      /\ \A r \in Roles : \A i \in 1..Len(logs'[r]) :
           \/ i \in 1..Len(logs[r]) /\ logs'[r][i] = logs[r][i]
           \/ r = p /\ i = Len(logs[r]) + 1 /\ logs'[r][i] = new
  BY <1>0, Sampled
<1>2. /\ new.node = p /\ new.time = clock /\ new.place = Written + 1 /\ new.era = resets
  OBVIOUS
<1> HIDE DEF new
<1>3. MergeTypes'
  BY <1>0, <1>1 DEF MergeTypes
<1>4. Stamped'
  <2> SUFFICES ASSUME NEW r \in Roles, NEW i \in 1..Len(logs'[r])
               PROVE  /\ logs'[r][i].node = r
                      /\ logs'[r][i].place \in 1..Written'
                      /\ logs'[r][i].era <= resets'
                      /\ logs'[r][i].era = resets' => logs'[r][i].time <= clock'
    BY DEF Stamped
  <2>1. CASE i \in 1..Len(logs[r]) /\ logs'[r][i] = logs[r][i]
    BY <1>0, <1>1, <2>1 DEF Stamped
  <2>2. CASE r = p /\ logs'[r][i] = new
    BY <1>0, <1>1, <1>2, <2>2 DEF MergeTypes
  <2> QED
    BY <1>1, <2>1, <2>2
<1>5. InOrder'
  <2> SUFFICES ASSUME NEW q \in Roles, NEW r \in Roles,
                      NEW i \in 1..Len(logs'[q]), NEW j \in 1..Len(logs'[r])
               PROVE  /\ logs'[q][i].place = logs'[r][j].place => q = r /\ i = j
                      /\ q = r /\ i < j => logs'[q][i].place < logs'[r][j].place
                      /\ /\ logs'[q][i].place < logs'[r][j].place
                         /\ logs'[q][i].era = logs'[r][j].era
                         => logs'[q][i].time <= logs'[r][j].time
    BY DEF InOrder
  <2>1. /\ \/ i \in 1..Len(logs[q]) /\ logs'[q][i] = logs[q][i]
           \/ q = p /\ i = Len(logs[q]) + 1 /\ logs'[q][i] = new
        /\ \/ j \in 1..Len(logs[r]) /\ logs'[r][j] = logs[r][j]
           \/ r = p /\ j = Len(logs[r]) + 1 /\ logs'[r][j] = new
    BY <1>1
  <2>2. CASE /\ i \in 1..Len(logs[q]) /\ logs'[q][i] = logs[q][i]
             /\ j \in 1..Len(logs[r]) /\ logs'[r][j] = logs[r][j]
    BY <1>0, <2>2 DEF InOrder
  <2>3. CASE /\ i \in 1..Len(logs[q]) /\ logs'[q][i] = logs[q][i]
             /\ r = p /\ j = Len(logs[r]) + 1 /\ logs'[r][j] = new
    <3>1. /\ logs[q][i].place \in 1..Written
          /\ logs[q][i].era = resets => logs[q][i].time <= clock
          /\ q = r => i < j
      BY <1>0, <1>1, <2>3 DEF Stamped
    <3> QED
      BY <1>1, <1>2, <2>3, <3>1, SMTT(30)
  <2>4. CASE /\ q = p /\ i = Len(logs[q]) + 1 /\ logs'[q][i] = new
             /\ j \in 1..Len(logs[r]) /\ logs'[r][j] = logs[r][j]
    <3>1. logs[r][j].place \in 1..Written /\ (q = r => j < i)
      BY <1>0, <1>1, <2>4 DEF Stamped
    <3> QED
      BY <1>1, <1>2, <2>4, <3>1
  <2>5. CASE /\ q = p /\ i = Len(logs[q]) + 1 /\ logs'[q][i] = new
             /\ r = p /\ j = Len(logs[r]) + 1 /\ logs'[r][j] = new
    BY <1>0, <1>1, <1>2, <2>5 DEF MergeTypes
  <2> QED
    BY <2>1, <2>2, <2>3, <2>4, <2>5
<1>6. MergedAll'
  <2>1. ~done
    BY <1>0 DEF MergedAll, Sample, MergeTypes
  <2> QED
    BY <1>0, <2>1 DEF MergedAll
<1> QED
  BY <1>3, <1>4, <1>5, <1>6 DEF MergeInv

LEMMA MergeStep == MergeInv /\ [Next]_vars => MergeInv'
<1> SUFFICES ASSUME MergeInv, [Next]_vars PROVE MergeInv'
  OBVIOUS
<1>0. MergeTypes /\ Stamped /\ InOrder /\ MergedAll
  BY DEF MergeInv
<1>written. UNCHANGED logs => Written' = Written
  BY DEF Written
<1>1. CASE Time
  <2>1. MergeTypes' /\ clock' > clock
    BY <1>0, <1>1, MergeAssumption DEF Time, MergeTypes
  <2>2. Stamped'
    <3>1. \A r \in Roles : \A i \in 1..Len(logs[r]) : logs[r][i].time \in Nat
      BY <1>0, TimeType DEF MergeTypes
    <3> QED
      BY <1>0, <1>1, <1>written, <2>1, <3>1 DEF Time, Stamped, MergeTypes
  <2> QED
    BY <1>0, <1>1, <2>1, <2>2 DEF Time, InOrder, MergedAll, AllRecords, MergeInv
<1>2. CASE SetBack
  <2>1. MergeTypes' /\ resets' > resets
    BY <1>0, <1>2 DEF SetBack, MergeTypes
  <2>2. Stamped'
    <3>1. \A r \in Roles : \A i \in 1..Len(logs[r]) : logs[r][i].era \in Nat
      <4>1. \A r \in Roles : \A i \in 1..Len(logs[r]) : logs[r][i] \in Records
        BY <1>0 DEF MergeTypes
      <4> QED
        BY <4>1 DEF Records
    <3> QED
      BY <1>0, <1>2, <1>written, <2>1, <3>1 DEF SetBack, Stamped, MergeTypes
  <2> QED
    BY <1>0, <1>2, <2>1, <2>2 DEF SetBack, InOrder, MergedAll, AllRecords, MergeInv
<1>3. CASE Merge
  <2>1. MergeTypes' /\ InOrder' /\ Stamped'
    BY <1>0, <1>3, <1>written, SMTT(30) DEF Merge, MergeTypes, InOrder, Stamped
  <2>2. MergedAll'
    BY <1>3 DEF Merge, MergedAll, AllRecords
  <2> QED
    BY <2>1, <2>2 DEF MergeInv
<1>4. CASE UNCHANGED vars
  BY <1>0, <1>4, <1>written
  DEF vars, MergeInv, MergeTypes, Stamped, InOrder, MergedAll, AllRecords
<1>5. ASSUME NEW r \in Roles, Sample(r) PROVE MergeInv'
  BY <1>5, SampleKeeps
<1> QED
  BY <1>1, <1>2, <1>3, <1>4, <1>5 DEF Next, Over

LEMMA MergeInvariant == Spec => []MergeInv
  BY InitMerge, MergeStep, PTL DEF Spec

-----------------------------------------------------------------------------
(* The properties.                                                         *)

\* The log of the offerer comes first in what is sorted, each in its order.
LEMMA AllRecordsAre ==
    ASSUME MergeTypes
    PROVE  /\ AllRecords \in Seq(Records) /\ Len(AllRecords) = Written
           /\ \A i \in 1..Len(AllRecords) :
                AllRecords[i] = IF i <= Len(logs["offerer"])
                                THEN logs["offerer"][i]
                                ELSE logs["answerer"][i - Len(logs["offerer"])]
<1>1. ASSUME NEW u \in Seq(Records), NEW v \in Seq(Records)
      PROVE  /\ u \o v \in Seq(Records) /\ Len(u \o v) = Len(u) + Len(v)
             /\ \A i \in 1..Len(u \o v) :
                  (u \o v)[i] = IF i <= Len(u) THEN u[i] ELSE v[i - Len(u)]
  BY ConcatProperties
<1>2. logs["offerer"] \in Seq(Records) /\ logs["answerer"] \in Seq(Records)
  BY DEF MergeTypes, Roles
<1> QED
  BY <1>1, <1>2 DEF AllRecords, Written

\* The merged log has every record of both peers and no others, whatever the
\* clock did while they were taken.
THEOREM NothingLostCorrect == Spec => []NothingLost
<1>1. MergeInv => NothingLost
  <2> SUFFICES ASSUME MergeInv, done PROVE
               /\ Len(merged) = 2 * Samples
               /\ \A r \in Roles : \A i \in 1..Len(logs[r]) :
                    \E k \in 1..Len(merged) : merged[k] = logs[r][i]
    BY DEF NothingLost
  <2>0. /\ MergeTypes /\ merged = StableSort(AllRecords)
        /\ Len(logs["offerer"]) = Samples /\ Len(logs["answerer"]) = Samples
    BY DEF MergeInv, MergedAll, Roles
  <2>1. Len(merged) = Len(AllRecords) /\ Len(AllRecords) = 2 * Samples
    BY <2>0, AllRecordsAre, SortedBy, MergeAssumption DEF Written
  <2>2. ASSUME NEW r \in Roles, NEW i \in 1..Len(logs[r])
        PROVE  \E m \in 1..Len(AllRecords) : AllRecords[m] = logs[r][i]
    <3>1. CASE r = "offerer"
      <4>1. i \in 1..Len(AllRecords) /\ AllRecords[i] = logs[r][i]
        BY <2>0, <2>1, <2>2, <3>1, AllRecordsAre, MergeAssumption
      <4> QED
        BY <4>1
    <3>2. CASE r = "answerer"
      <4>1. /\ Samples + i \in 1..Len(AllRecords)
            /\ AllRecords[Samples + i] = logs[r][i]
        BY <2>0, <2>1, <2>2, <3>2, AllRecordsAre, MergeAssumption
      <4> QED
        BY <4>1
    <3> QED
      BY <3>1, <3>2 DEF Roles
  <2>3. ASSUME NEW m \in 1..Len(AllRecords)
        PROVE  \E k \in 1..Len(merged) : merged[k] = AllRecords[m]
    <3>1. AllRecords \in Seq(Records)
      BY <2>0, AllRecordsAre
    <3>2. Rank(AllRecords, m) \in 1..Len(AllRecords)
      BY <3>1, UpToFinite
    <3>3. merged[Rank(AllRecords, m)] = AllRecords[m]
      BY <2>0, <3>1, SortedBy
    <3> QED
      BY <2>1, <3>2, <3>3
  <2>4. ASSUME NEW r \in Roles, NEW i \in 1..Len(logs[r])
        PROVE  \E k \in 1..Len(merged) : merged[k] = logs[r][i]
    <3>1. PICK m \in 1..Len(AllRecords) : AllRecords[m] = logs[r][i]
      BY <2>2
    <3> QED
      BY <2>3, <3>1
  <2> QED
    BY <2>1, <2>4
<1> QED
  BY <1>1, MergeInvariant, PTL

\* Only a clock that was set back between them puts a later record first.
THEOREM OnlyResetsReorderCorrect == Spec => []OnlyResetsReorder
<1>1. MergeInv => OnlyResetsReorder
  <2> SUFFICES ASSUME MergeInv, done,
                      NEW j \in 1..Len(merged), NEW k \in 1..Len(merged),
                      j < k, merged[j].era = merged[k].era
               PROVE  \/ merged[j].place < merged[k].place
                      \/ /\ merged[j].time = merged[k].time
                         /\ merged[j].node = "offerer" /\ merged[k].node = "answerer"
    BY DEF OnlyResetsReorder
  <2> DEFINE o == Len(logs["offerer"])
             who(m) == IF m <= o THEN "offerer" ELSE "answerer"
             pos(m) == IF m <= o THEN m ELSE m - o
  <2>0. /\ MergeTypes /\ Stamped /\ InOrder /\ merged = StableSort(AllRecords)
        /\ AllRecords \in Seq(Records) /\ Len(merged) = Len(AllRecords)
    BY AllRecordsAre, SortedBy DEF MergeInv, MergedAll
  <2>a. PICK a \in 1..Len(AllRecords) :
          Rank(AllRecords, a) = j /\ merged[j] = AllRecords[a]
    <3>1. j \in 1..Len(AllRecords)
      BY <2>0
    <3> QED
      BY <2>0, <3>1, SortedBy
  <2>b. PICK b \in 1..Len(AllRecords) :
          Rank(AllRecords, b) = k /\ merged[k] = AllRecords[b]
    <3>1. k \in 1..Len(AllRecords)
      BY <2>0
    <3> QED
      BY <2>0, <3>1, SortedBy
  <2>1. Rank(AllRecords, a) < Rank(AllRecords, b)
    BY <2>a, <2>b
  <2>2. Precedes(AllRecords, a, b)
    BY <2>0, <2>1, RankOrder
  <2>3. ASSUME NEW m \in 1..Len(AllRecords)
        PROVE  /\ who(m) \in Roles /\ pos(m) \in 1..Len(logs[who(m)])
               /\ AllRecords[m] = logs[who(m)][pos(m)]
    BY <2>0, AllRecordsAre, SMTT(30) DEF MergeTypes, Written, Roles
  <2>4. /\ who(a) = who(b) /\ a < b => pos(a) < pos(b)
        /\ who(a) = who(b) /\ pos(a) = pos(b) => a = b
        /\ who(a) # who(b) /\ a < b => who(a) = "offerer" /\ who(b) = "answerer"
    BY <2>0 DEF MergeTypes, Roles
  <2> HIDE DEF who, pos
  <2>5. /\ who(a) \in Roles /\ pos(a) \in 1..Len(logs[who(a)])
        /\ who(b) \in Roles /\ pos(b) \in 1..Len(logs[who(b)])
        /\ merged[j] = logs[who(a)][pos(a)]
        /\ merged[k] = logs[who(b)][pos(b)]
    BY <2>a, <2>b, <2>3
  <2>6. merged[j] \in Records /\ merged[k] \in Records
    BY <2>0, <2>a, <2>b
  <2>7. /\ merged[j].node = who(a) /\ merged[k].node = who(b)
        /\ merged[j].place \in Nat /\ merged[k].place \in Nat
        /\ merged[j].time \in Nat /\ merged[k].time \in Nat
    BY <2>0, <2>5, <2>6 DEF Stamped, Records
  <2>8. /\ merged[j].place = merged[k].place => a = b
        /\ who(a) = who(b) /\ a < b => merged[j].place < merged[k].place
        /\ merged[k].place < merged[j].place => merged[k].time <= merged[j].time
    <3>1. ASSUME NEW q \in Roles, NEW r \in Roles,
                 NEW x \in 1..Len(logs[q]), NEW y \in 1..Len(logs[r])
          PROVE  /\ logs[q][x].place = logs[r][y].place => q = r /\ x = y
                 /\ q = r /\ x < y => logs[q][x].place < logs[r][y].place
                 /\ logs[q][x].place < logs[r][y].place /\ logs[q][x].era = logs[r][y].era
                       => logs[q][x].time <= logs[r][y].time
      BY <2>0 DEF InOrder
    <3> DEFINE A == logs[who(a)][pos(a)]
               B == logs[who(b)][pos(b)]
    <3>2. /\ A.place = B.place => who(a) = who(b) /\ pos(a) = pos(b)
          /\ who(a) = who(b) /\ pos(a) < pos(b) => A.place < B.place
      BY <3>1, <2>5, SMTT(30)
    <3>4. B.place < A.place /\ B.era = A.era => B.time <= A.time
      BY <3>1, <2>5
    <3>3. merged[j] = A /\ merged[k] = B /\ B.era = A.era
      BY <2>5
    <3> HIDE DEF A, B
    <3> QED
      BY <2>4, <3>2, <3>3, <3>4
  <2>9. CASE merged[j].time < merged[k].time
    <3>1. merged[j].place # merged[k].place /\ ~(merged[k].place < merged[j].place)
      BY <2>7, <2>8, <2>9, <2>a, <2>b
    <3> QED
      BY <2>7, <3>1
  <2>10. CASE merged[j].time = merged[k].time /\ a < b
    BY <2>4, <2>7, <2>8, <2>10
  <2> QED
    BY <2>2, <2>9, <2>10, <2>a, <2>b DEF Precedes
<1> QED
  BY <1>1, MergeInvariant, PTL

=============================================================================
