---------------------------- MODULE ShardingProof ----------------------------
(***************************************************************************)
(* For any target, any packing and any number of evaluations: the shards   *)
(* are a partition with distinct identities, evaluations keep what is      *)
(* assigned, and tasks have the files of their shards.                     *)
(***************************************************************************)
EXTENDS Sharding, FiniteSetTheorems, WellFoundedInduction, TLAPS

\* What shards are, by themselves and to each other.
Partition(S) ==
    \A s, t \in S : s.id = t.id \/ s.files \cap t.files # {} => s = t

Inv ==
    /\ TypeOK
    /\ IsFiniteSet(shards)
    /\ ShardsArePartition
    \* A task's identity is in the array, or has been.
    /\ DOMAIN task \subseteq Ids(shards) \cup dropped
    /\ compiled => Ids(shards) \subseteq DOMAIN task
    /\ \A s \in shards :
          s.id \in DOMAIN task => s.id \in dropped \/ s.files \subseteq task[s.id].files

-----------------------------------------------------------------------------
(* Numbers                                                                 *)

\* A finite set of numbers has a greatest one: of the sets of numbers above one
\* of them, one has no other below it.
LEMMA Greatest ==
    ASSUME NEW T \in SUBSET Nat, IsFiniteSet(T), T # {}
    PROVE  \E m \in T : \A n \in T : n <= m
<1> DEFINE Above(i) == {j \in T : j > i}
           A == {Above(i) : i \in T}
<1>1. A \subseteq SUBSET T /\ A # {}
  OBVIOUS
<1>2. PICK x \in A : \A y \in A : <<y, x>> \notin StrictSubsetOrdering(T)
  <2>1. IsWellFoundedOn(StrictSubsetOrdering(T), SUBSET T)
    BY FS_FiniteSubsetsOfFinite, FS_StrictSubsetOrderingWellFounded
  <2> HIDE DEF A
  <2> QED
    BY <1>1, <2>1, WFMin
<1>3. PICK m \in T : x = Above(m)
  BY <1>2
<1>4. ASSUME NEW n \in T, n > m PROVE FALSE
  <2>1. \A j \in T : j > n => j > m
    BY <1>4
  <2>2. n \in Above(m) /\ n \notin Above(n)
    BY <1>4
  <2>3. <<Above(n), Above(m)>> \in StrictSubsetOrdering(T)
    BY <2>1, <2>2 DEF StrictSubsetOrdering
  <2> QED
    BY <2>3, <1>2, <1>3
<1> QED
  BY <1>4

\* The set of the values of a function on a finite set is finite.
LEMMA ImageFinite ==
    ASSUME NEW S, IsFiniteSet(S), NEW f, DOMAIN f = S
    PROVE  IsFiniteSet({f[x] : x \in S})
<1> DEFINE T == {f[x] : x \in S}
<1>1. [x \in S |-> f[x]] \in Surjection(S, T)
  BY DEF Surjection
<1> QED
  BY <1>1, FS_Surjection

LEMMA ChunkType ==
    ASSUME NEW S \in SUBSET File, NEW f \in S
    PROVE  Chunk(f, S) \in Nat
<1>1. IsFiniteSet(S) /\ IsFiniteSet({g \in S : g < f})
  BY ShardingAssumption, FS_Subset
<1>2. Cardinality(S) \in Nat /\ Cardinality({g \in S : g < f}) \in Nat
  BY <1>1, FS_CardinalityType
<1>3. Cardinality(S) # 0
  BY <1>1, FS_EmptySet
<1> DEFINE chunk == Cardinality({g \in S : g < f}) \div MaxFiles
           last == (Cardinality(S) - 1) \div MaxFiles
<1>4. chunk \in Nat /\ last \in Nat
  <2>1. Cardinality(S) - 1 \in Nat
    BY <1>2, <1>3
  <2>2. \A n \in Nat, m \in Nat \ {0} : n \div m \in Nat
    BY SMT
  <2> QED
    BY <1>2, <2>1, <2>2, ShardingAssumption
<1>5. last > 0 => last - 1 \in Nat
  BY <1>4
<1> QED
  BY <1>4, <1>5 DEF Chunk

-----------------------------------------------------------------------------
(* What is packed                                                          *)

LEMMA ShardOfType ==
    ASSUME NEW S \in SUBSET File, NEW first \in [Group -> Nat], NEW f \in S
    PROVE  /\ ShardOf(f, S, first) \in Shard
           /\ f \in ShardOf(f, S, first).files
           /\ ShardOf(f, S, first).files \subseteq S
           /\ ShardOf(f, S, first).id.index >= first[GroupOf[f]]
           /\ ShardOf(f, S, first).id.group = GroupOf[f]
<1> DEFINE g == GroupOf[f]
           N == InGroup(S, g)
<1>1. g \in Group /\ N \in SUBSET File /\ f \in N
  BY ShardingAssumption DEF InGroup
<1>2. Chunk(f, N) \in Nat /\ first[g] \in Nat
  BY <1>1, ChunkType
<1>3. first[g] + Chunk(f, N) \in Nat /\ first[g] + Chunk(f, N) >= first[g]
  BY <1>2
<1>4. \A groups : Prefix(g, groups) \in Prefixes
  <2> HIDE DEF g
  <2> QED
    BY <1>1 DEF Prefix, Prefixes
<1>5. {h \in N : Chunk(h, N) = Chunk(f, N)} \subseteq S
  BY DEF InGroup
<1> HIDE DEF N
<1>6. ShardOf(f, S, first) =
        [id |-> [prefix |-> Prefix(g, {GroupOf[h] : h \in S}),
                 index |-> first[g] + Chunk(f, N), group |-> g],
         files |-> {h \in N : Chunk(h, N) = Chunk(f, N)}]
  BY DEF ShardOf, N
<1> QED
  BY <1>1, <1>3, <1>4, <1>5, <1>6 DEF Shard, Identity

\* Files are in one shard if they have the same group and chunk, and so has the
\* identity.
LEMMA ShardOfSame ==
    ASSUME NEW S \in SUBSET File, NEW first \in [Group -> Nat],
           NEW f \in S, NEW h \in S,
           \/ ShardOf(f, S, first).id = ShardOf(h, S, first).id
           \/ ShardOf(f, S, first).files \cap ShardOf(h, S, first).files # {}
    PROVE  ShardOf(f, S, first) = ShardOf(h, S, first)
<1> DEFINE N(g) == InGroup(S, g)
<1>1. /\ N(GroupOf[f]) \in SUBSET File /\ f \in N(GroupOf[f])
      /\ N(GroupOf[h]) \in SUBSET File /\ h \in N(GroupOf[h])
      /\ GroupOf[f] \in Group /\ GroupOf[h] \in Group
  BY ShardingAssumption DEF InGroup
<1>2. SUFFICES GroupOf[f] = GroupOf[h] /\ Chunk(f, N(GroupOf[f])) = Chunk(h, N(GroupOf[f]))
  BY DEF ShardOf
<1>3. CASE ShardOf(f, S, first).id = ShardOf(h, S, first).id
  <2>1. GroupOf[f] = GroupOf[h]
    BY <1>3 DEF ShardOf
  <2>2. first[GroupOf[f]] + Chunk(f, N(GroupOf[f])) = first[GroupOf[f]] + Chunk(h, N(GroupOf[f]))
    BY <1>3, <2>1 DEF ShardOf
  <2>3. /\ first[GroupOf[f]] \in Nat /\ Chunk(f, N(GroupOf[f])) \in Nat
        /\ Chunk(h, N(GroupOf[f])) \in Nat
    BY <1>1, <2>1, ChunkType
  <2> QED
    BY <2>1, <2>2, <2>3
<1>4. CASE ShardOf(f, S, first).files \cap ShardOf(h, S, first).files # {}
  <2>1. PICK k : /\ k \in N(GroupOf[f]) /\ Chunk(k, N(GroupOf[f])) = Chunk(f, N(GroupOf[f]))
                 /\ k \in N(GroupOf[h]) /\ Chunk(k, N(GroupOf[h])) = Chunk(h, N(GroupOf[h]))
    BY <1>4 DEF ShardOf
  <2>2. GroupOf[f] = GroupOf[h]
    BY <2>1 DEF InGroup
  <2> QED
    BY <2>1, <2>2
<1> QED
  BY <1>3, <1>4

\* Packing yields a partition of what is packed.
LEMMA PackedPartition ==
    ASSUME NEW S \in SUBSET File, NEW first \in [Group -> Nat]
    PROVE  /\ Packed(S, first) \subseteq Shard
           /\ IsFiniteSet(Packed(S, first))
           /\ Files(Packed(S, first)) = S
           /\ \A s \in Packed(S, first) :
                 s.files # {} /\ s.id.index >= first[s.id.group]
           /\ Partition(Packed(S, first))
<1>1. IsFiniteSet(Packed(S, first))
  <2>1. IsFiniteSet(S)
    BY ShardingAssumption, FS_Subset
  <2> DEFINE F == [f \in S |-> ShardOf(f, S, first)]
  <2>2. IsFiniteSet({F[f] : f \in S})
    <3>1. DOMAIN F = S
      OBVIOUS
    <3> HIDE DEF F
    <3> QED
      BY <2>1, <3>1, ImageFinite
  <2>3. {F[f] : f \in S} = Packed(S, first)
    BY DEF Packed
  <2> QED
    BY <2>2, <2>3
<1>2. \A f \in S : /\ ShardOf(f, S, first) \in Shard
                   /\ f \in ShardOf(f, S, first).files
                   /\ ShardOf(f, S, first).files \subseteq S
                   /\ ShardOf(f, S, first).id.index >= first[ShardOf(f, S, first).id.group]
  BY ShardOfType
<1>3. Files(Packed(S, first)) = S
  BY <1>2 DEF Files, Packed
<1>4. Partition(Packed(S, first))
  BY ShardOfSame DEF Partition, Packed
<1>5. /\ Packed(S, first) \subseteq Shard
      /\ \A s \in Packed(S, first) : s.files # {} /\ s.id.index >= first[s.id.group]
  BY <1>2 DEF Packed
<1> QED
  BY <1>1, <1>3, <1>4, <1>5

-----------------------------------------------------------------------------
(* An evaluation                                                           *)

\* New shards of a group are numbered after all of before.
LEMMA NextIndexAbove ==
    ASSUME shards \subseteq Shard, IsFiniteSet(shards), NEW g \in Group
    PROVE  /\ NextIndex(g) \in Nat
           /\ \A s \in shards : s.id.group = g => s.id.index < NextIndex(g)
<1> DEFINE inGroup == {t \in shards : t.id.group = g}
           used == {s.id.index : s \in inGroup}
<1>1. used \subseteq Nat
  BY DEF Shard, Identity
<1>2. IsFiniteSet(used)
  <2>1. IsFiniteSet(inGroup)
    BY FS_Subset
  <2> DEFINE index == [s \in inGroup |-> s.id.index]
  <2>2. used = {index[s] : s \in inGroup}
    OBVIOUS
  <2>3. DOMAIN index = inGroup
    OBVIOUS
  <2>4. IsFiniteSet({index[s] : s \in inGroup})
    <3> HIDE DEF index, inGroup
    <3> QED
      BY <2>1, <2>3, ImageFinite
  <2> QED
    BY <2>2, <2>4
<1>3. CASE used = {}
  BY <1>3 DEF NextIndex
<1>4. CASE used # {}
  <2> DEFINE top == CHOOSE n \in used : \A m \in used : m <= n
  <2>1. \E n \in used : \A m \in used : m <= n
    <3> HIDE DEF used
    <3> QED
      BY <1>1, <1>2, <1>4, Greatest
  <2>2. top \in used /\ \A m \in used : m <= top
    <3> HIDE DEF used
    <3> QED
      BY <2>1
  <2>3. NextIndex(g) = 1 + top
    BY <1>4 DEF NextIndex
  <2>4. \A s \in shards : s.id.group = g => s.id.index \in used
    OBVIOUS
  <2> HIDE DEF top, used
  <2>5. top \in Nat /\ \A m \in used : m \in Nat /\ m < 1 + top
    BY <1>1, <2>2
  <2> QED
    BY <2>3, <2>4, <2>5
<1> QED
  BY <1>3, <1>4

LEMMA KeptShards ==
    ASSUME Inv
    PROVE  /\ Kept \subseteq Shard
           /\ IsFiniteSet(Kept)
           /\ Files(Kept) \subseteq eligible
           /\ Partition(Kept)
           /\ \A s \in Kept : s.files # {} /\ \E t \in shards : t.id = s.id
           /\ \A t \in shards : t.files \cap eligible # {} =>
                 [t EXCEPT !.files = @ \cap eligible] \in Kept
<1> DEFINE left == {t \in shards : t.files \cap eligible # {}}
           cut == [t \in left |-> [t EXCEPT !.files = @ \cap eligible]]
<1>1. Kept = {cut[t] : t \in left}
  BY DEF Kept
<1>2. IsFiniteSet(Kept)
  <2>1. IsFiniteSet(left)
    BY FS_Subset DEF Inv
  <2>2. DOMAIN cut = left
    OBVIOUS
  <2> HIDE DEF cut, left
  <2> QED
    BY <1>1, <2>1, <2>2, ImageFinite
<1>3. \A t \in left : /\ cut[t] \in Shard
                      /\ cut[t].id = t.id
                      /\ cut[t].files = t.files \cap eligible
  BY DEF Inv, TypeOK, Shard
<1>4. Partition(Kept)
  <2>1. \A s, t \in left :
            cut[s].id = cut[t].id \/ cut[s].files \cap cut[t].files # {} => s = t
    BY <1>3 DEF Inv, ShardsArePartition
  <2> HIDE DEF cut, left
  <2> QED
    BY <1>1, <2>1 DEF Partition
<1>5. \A t \in left : t \in shards /\ cut[t].files # {} /\ cut[t].files \subseteq eligible
  BY <1>3
<1>6. /\ Kept \subseteq Shard /\ Files(Kept) \subseteq eligible
      /\ \A s \in Kept : s.files # {} /\ \E t \in shards : t.id = s.id
  <2> HIDE DEF cut, left
  <2> QED
    BY <1>1, <1>3, <1>5 DEF Files
<1>7. \A t \in shards : t.files \cap eligible # {} =>
          [t EXCEPT !.files = @ \cap eligible] \in Kept
  BY DEF Kept
<1> QED
  BY <1>2, <1>4, <1>6, <1>7

\* What an evaluation writes, and what is new in it.
LEMMA Evaluated ==
    ASSUME Inv, Evaluate
    PROVE  /\ shards' \subseteq Shard
           /\ IsFiniteSet(shards')
           /\ Files(shards') = eligible
           /\ \A s \in shards' : s.files # {}
           /\ Partition(shards')
           /\ \A s \in shards : s.files \cap eligible # {} =>
                 \E t \in shards' : t.id = s.id /\ t.files = s.files \cap eligible
           /\ \A t \in shards' :
                 \/ t.id \notin Ids(shards)
                 \/ \E s \in shards : t.id = s.id /\ t.files \subseteq s.files
<1>0. eligible \in SUBSET File /\ shards \subseteq Shard /\ IsFiniteSet(shards)
  BY DEF Inv, TypeOK
<1>1. CASE shards = {}
  <2> DEFINE zero == [g \in Group |-> 0]
  <2>1. zero \in [Group -> Nat] /\ shards' = Packed(eligible, zero)
    BY <1>1 DEF Evaluate, Fresh
  <2> HIDE DEF zero
  <2> QED
    BY <1>0, <1>1, <2>1, PackedPartition DEF Ids
<1>2. CASE shards # {}
  <2> DEFINE first == [g \in Group |-> NextIndex(g)]
             new == eligible \ Files(Kept)
             Added == Packed(new, first)
  <2>1. /\ first \in [Group -> Nat]
        /\ \A s \in shards : s.id.index < first[s.id.group]
    BY <1>0, NextIndexAbove DEF Shard, Identity
  <2>2. new \in SUBSET File /\ shards' = Kept \cup Added
    BY <1>0, <1>2 DEF Evaluate, Incremental
  <2>3. /\ Added \subseteq Shard
        /\ IsFiniteSet(Added)
        /\ Files(Added) = new
        /\ \A s \in Added : s.files # {} /\ s.id.index >= first[s.id.group]
        /\ Partition(Added)
    <3> HIDE DEF first, new
    <3> QED
      BY <2>1, <2>2, PackedPartition
  <2> HIDE DEF first, Added
  <2>4. Kept \subseteq Shard /\ IsFiniteSet(Kept) /\ Partition(Kept)
    BY KeptShards
  <2>5. /\ Files(Kept) \subseteq eligible
        /\ \A s \in Kept : s.files # {} /\ \E t \in shards : t.id = s.id
    BY KeptShards
  <2>6. \A s \in Added : s.id \notin Ids(shards)
    <3> SUFFICES ASSUME NEW s \in Added, NEW t \in shards, s.id = t.id PROVE FALSE
      BY DEF Ids
    <3>1. s.id.index >= first[s.id.group] /\ t.id.index < first[t.id.group]
      BY <2>1, <2>3
    <3>2. t.id.index \in Nat /\ first[t.id.group] \in Nat
      BY <1>0, <2>1 DEF Shard, Identity
    <3> QED
      BY <3>1, <3>2
  <2>7. \A s \in Kept, t \in Added : s.id # t.id /\ s.files \cap t.files = {}
    <3>1. \A s \in Kept, t \in Added : s.id # t.id
      BY <2>5, <2>6 DEF Ids
    <3>2. \A s \in Kept, t \in Added : s.files \cap t.files = {}
      <4>1. \A s \in Kept : s.files \subseteq Files(Kept)
        BY DEF Files
      <4>2. \A t \in Added : t.files \subseteq new
        BY <2>3 DEF Files
      <4> QED
        BY <4>1, <4>2
    <3> QED
      BY <3>1, <3>2
  <2>8. Files(shards') = eligible
    BY <2>2, <2>3, <2>5 DEF Files
  <2>9. Partition(shards')
    BY <2>2, <2>3, <2>4, <2>7 DEF Partition
  <2>10. shards' \subseteq Shard /\ IsFiniteSet(shards')
    BY <2>2, <2>3, <2>4, FS_Union
  <2>11. \A s \in shards : s.files \cap eligible # {} =>
             \E t \in shards' : t.id = s.id /\ t.files = s.files \cap eligible
    <3> SUFFICES ASSUME NEW s \in shards, s.files \cap eligible # {}
                 PROVE  \E t \in shards' : t.id = s.id /\ t.files = s.files \cap eligible
      OBVIOUS
    <3> DEFINE t == [s EXCEPT !.files = @ \cap eligible]
    <3>1. t \in shards'
      BY <2>2, KeptShards
    <3>2. t.id = s.id /\ t.files = s.files \cap eligible
      BY <1>0 DEF Shard
    <3> QED
      BY <3>1, <3>2
  <2>12. \A t \in Kept : \E s \in shards : t.id = s.id /\ t.files \subseteq s.files
    BY <1>0 DEF Kept, Shard
  <2> QED
    BY <2>2, <2>3, <2>5, <2>6, <2>8, <2>9, <2>10, <2>11, <2>12
<1> QED
  BY <1>1, <1>2

-----------------------------------------------------------------------------
(* The invariant                                                           *)

LEMMA InvInit ==
    ASSUME Init
    PROVE  Inv
<1>1. TypeOK
  BY ShardingAssumption DEF Init, TypeOK
<1>2. IsFiniteSet(shards)
  BY FS_EmptySet DEF Init
<1>3. ShardsArePartition
  BY DEF Init, ShardsArePartition, Files
<1> QED
  BY <1>1, <1>2, <1>3 DEF Init, Inv, Ids

LEMMA InvEvaluate ==
    ASSUME Inv, Evaluate
    PROVE  Inv'
<1>1. TypeOK'
  <2>1. evaluations' \in 0 .. MaxEvaluations
    BY ShardingAssumption DEF Inv, TypeOK, Evaluate
  <2>2. Ids(shards) \subseteq Identity
    BY DEF Inv, TypeOK, Ids, Shard
  <2> QED
    BY <2>1, <2>2, Evaluated DEF Inv, TypeOK, Evaluate
<1>2. ShardsArePartition'
  BY Evaluated DEF Partition, ShardsArePartition, Evaluate, Files
<1>3. (DOMAIN task \subseteq Ids(shards) \cup dropped)'
  BY DEF Inv, Evaluate
<1>4. ASSUME NEW t \in shards', t.id \in DOMAIN task
      PROVE  t.id \in dropped' \/ t.files \subseteq task[t.id].files
  <2>1. CASE t.id \notin Ids(shards)
    BY <1>4, <2>1 DEF Inv, Evaluate
  <2>2. CASE \E s \in shards : t.id = s.id /\ t.files \subseteq s.files
    BY <1>4, <2>2 DEF Inv, Evaluate
  <2> QED
    BY <2>1, <2>2, Evaluated
<1> QED
  BY <1>1, <1>2, <1>3, <1>4, Evaluated DEF Inv, Evaluate

LEMMA InvRecompile ==
    ASSUME Inv, Recompile
    PROVE  Inv'
<1> DEFINE listed == Ids(shards)
<1>1. DOMAIN task' = DOMAIN task \cup listed
  BY DEF Recompile, Recompiled
\* A task of before keeps its files, and a new one has those of its shard.
<1>2. \A i \in DOMAIN task : task'[i] \in Task /\ task'[i].files = task[i].files
  <2> SUFFICES ASSUME NEW i \in DOMAIN task
               PROVE  task'[i] \in Task /\ task'[i].files = task[i].files
    OBVIOUS
  <2>1. \/ task'[i] = task[i]
        \/ task'[i] = [task[i] EXCEPT !.status = "WontDo"]
    BY DEF Recompile, Recompiled
  <2>2. task[i] \in Task
    BY DEF Inv, TypeOK
  <2> QED
    BY <2>1, <2>2 DEF Task, Status
<1>3. \A s \in shards : s.id \notin DOMAIN task =>
          task'[s.id] = [status |-> "Pending", files |-> s.files]
  <2> SUFFICES ASSUME NEW s \in shards, s.id \notin DOMAIN task
               PROVE  task'[s.id] = [status |-> "Pending", files |-> s.files]
    OBVIOUS
  <2>1. s.id \in listed
    BY DEF Ids
  <2>2. (CHOOSE t \in shards : t.id = s.id) = s
    BY DEF Inv, ShardsArePartition
  <2> QED
    BY <2>1, <2>2 DEF Recompile, Recompiled
<1>4. TypeOK'
  <2>1. listed \subseteq Identity
    BY DEF Inv, TypeOK, Ids, Shard
  <2>2. \A s \in shards : s.id \notin DOMAIN task => task'[s.id] \in Task
    <3>1. \A s \in shards : s.files \in SUBSET File
      BY DEF Inv, TypeOK, Shard
    <3>2. \A F \in SUBSET File : [status |-> "Pending", files |-> F] \in Task
      BY DEF Task, Status
    <3> QED
      BY <1>3, <3>1, <3>2
  <2>3. \A i \in DOMAIN task' : task'[i] \in Task
    BY <1>1, <1>2, <2>2 DEF Ids
  <2> QED
    BY <1>1, <2>1, <2>3 DEF Inv, TypeOK, Recompile
<1>5. \A s \in shards : s.id \in dropped \/ s.files \subseteq task'[s.id].files
  <2> SUFFICES ASSUME NEW s \in shards
               PROVE  s.id \in dropped \/ s.files \subseteq task'[s.id].files
    OBVIOUS
  <2>1. CASE s.id \in DOMAIN task
    BY <1>2, <2>1 DEF Inv
  <2>2. CASE s.id \notin DOMAIN task
    <3>1. task'[s.id] = [status |-> "Pending", files |-> s.files]
      BY <1>3, <2>2
    <3>2. task'[s.id].files = s.files
      BY <3>1
    <3> QED
      BY <3>2
  <2> QED
    BY <2>1, <2>2
<1> QED
  BY <1>1, <1>4, <1>5 DEF Inv, Recompile, ShardsArePartition, Files, Ids

LEMMA InvWork ==
    ASSUME Inv, NEW i \in DOMAIN task, Work(i)
    PROVE  Inv'
<1>1. PICK S \in SUBSET (task[i].files \cap eligible) :
          /\ eligible' = eligible \ S
          /\ task' = [task EXCEPT ![i].status =
                IF S = task[i].files \cap eligible THEN "Completed" ELSE "Failed"]
  BY DEF Work
<1>2. DOMAIN task' = DOMAIN task
  BY <1>1
<1>3. \A j \in DOMAIN task : task'[j] \in Task /\ task'[j].files = task[j].files
  BY <1>1 DEF Inv, TypeOK, Task, Status
<1>4. TypeOK'
  BY <1>1, <1>2, <1>3 DEF Inv, TypeOK, Work
<1> QED
  BY <1>2, <1>3, <1>4 DEF Inv, Work, ShardsArePartition, Files, Ids

LEMMA InvNext ==
    ASSUME Inv, [Next]_vars
    PROVE  Inv'
<1>1. CASE Evaluate
  BY <1>1, InvEvaluate
<1>2. CASE Recompile
  BY <1>2, InvRecompile
<1>3. CASE Change
  BY <1>3 DEF Inv, TypeOK, Change, ShardsArePartition, Files, Ids
<1>4. CASE \E i \in DOMAIN task : Work(i)
  BY <1>4, InvWork
<1>5. CASE UNCHANGED vars
  BY <1>5 DEF Inv, TypeOK, vars, ShardsArePartition, Files, Ids
<1> QED
  BY <1>1, <1>2, <1>3, <1>4, <1>5 DEF Next

LEMMA InvAlways == Spec => []Inv
<1> QED
  BY InvInit, InvNext, PTL DEF Spec

-----------------------------------------------------------------------------
(* The theorems                                                            *)

\* The type invariant: what is written to the array are shards, and tasks are
\* made of them.
THEOREM ShardingTypeCorrect == Spec => []TypeOK
<1>1. Inv => TypeOK
  BY DEF Inv
<1> QED
  BY <1>1, InvAlways, PTL

\* After any number of evaluations, of any files, the shards are a partition of
\* what was eligible, without empty ones and without two of one identity.
THEOREM PartitionCorrect == Spec => []ShardsArePartition
<1>1. Inv => ShardsArePartition
  BY DEF Inv
<1> QED
  BY <1>1, InvAlways, PTL

\* The files of a shard are among those of the task of its identity, whatever
\* was evaluated, compiled and run in between, if the identity is not one that
\* an earlier evaluation dropped.
THEOREM TasksCorrect == Spec => []FilesHaveTheirTask
<1>1. Inv => FilesHaveTheirTask
  BY DEF Inv, FilesHaveTheirTask, Ids
<1> QED
  BY <1>1, InvAlways, PTL

\* No evaluation moves a file that is still eligible to another shard.
THEOREM AssignmentsCorrect == Spec => AssignmentsAreKept
<1> DEFINE Kept1 == \A s \in shards : s.files \cap eligible # {} /\ shards' # shards =>
              \E t \in shards' : t.id = s.id /\ t.files = s.files \cap eligible
<1>1. ASSUME Inv, [Next]_vars PROVE [Kept1]_vars
  <2>1. CASE Evaluate
    BY <1>1, <2>1, Evaluated
  <2>2. CASE shards' = shards
    BY <2>2
  <2> QED
    BY <1>1, <2>1, <2>2 DEF Next, vars, Recompile, Change, Work
<1> QED
  BY <1>1, InvAlways, PTL DEF Spec, AssignmentsAreKept

=============================================================================
