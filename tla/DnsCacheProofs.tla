--------------------------- MODULE DnsCacheProofs ---------------------------
(***************************************************************************)
(* What the operations of the answer cache return and preserve, for every  *)
(* capacity.  The theorems about the server are in DnsServerProofs.        *)
(***************************************************************************)
EXTENDS DnsCache, FiniteSetTheorems, WellFoundedInduction, TLAPS

\* A list whose length is what s_cache_count says, with an order.
Counted(C) ==
    /\ IsFiniteSet(C.list)
    /\ C.count = Cardinality(C.list)
    /\ \A e \in C.list : e.seq \in Nat
    /\ \A e, f \in C.list : e.seq = f.seq => e = f

UniqueKeys(C) == \A e, f \in C.list : e.key = f.key => e = f

\* Freeing entries keeps the counter right.
LEMMA DropCounted ==
    ASSUME NEW C, Counted(C), NEW D, D \subseteq C.list
    PROVE  /\ Counted(Drop(C, D))
           /\ Drop(C, D).list = C.list \ D
           /\ Drop(C, D).count = C.count - Cardinality(D)
           /\ Cardinality(D) \in Nat /\ C.count \in Nat
<1>1. IsFiniteSet(C.list \ D) /\ Cardinality(C.list \ D) = Cardinality(C.list) - Cardinality(C.list \cap D)
  BY FS_Difference DEF Counted
<1>2. C.list \cap D = D
  OBVIOUS
<1>3. IsFiniteSet(D) /\ Cardinality(D) \in Nat /\ Cardinality(C.list) \in Nat
  BY FS_Subset, FS_CardinalityType DEF Counted
<1> QED
  BY <1>1, <1>2, <1>3 DEF Drop, Counted

\* A list that is not empty has a head.
LEMMA HeadExists ==
    ASSUME NEW L, IsFiniteSet(L), L # {}, \A e \in L : e.seq \in Nat
    PROVE  \E e \in L : \A f \in L : f.seq <= e.seq
<1> DEFINE HasHead(U) == \E e \in U : \A f \in U : f.seq <= e.seq
           Bad == {U \in FiniteSubsetsOf(L) : U # {} /\ ~HasHead(U)}
<1> SUFFICES ASSUME Bad # {} PROVE FALSE
  <2>1. L \in FiniteSubsetsOf(L)
    BY DEF FiniteSubsetsOf
  <2> QED
    BY <2>1
<1>1. PICK U \in Bad : \A V \in Bad : <<V, U>> \notin StrictSubsetOrdering(L)
  <2>1. IsWellFoundedOn(StrictSubsetOrdering(L), FiniteSubsetsOf(L))
    BY FS_StrictSubsetOrderingWellFounded
  <2>2. Bad \subseteq FiniteSubsetsOf(L)
    OBVIOUS
  <2> HIDE DEF Bad
  <2> QED
    BY <2>1, <2>2, WFMin
<1>2. U \subseteq L /\ IsFiniteSet(U) /\ U # {} /\ ~HasHead(U)
  BY DEF FiniteSubsetsOf
<1>3. PICK x \in U : TRUE
  BY <1>2
<1>4. U \ {x} \notin Bad
  <2>1. <<U \ {x}, U>> \in StrictSubsetOrdering(L)
    BY <1>2, <1>3 DEF StrictSubsetOrdering
  <2> QED
    BY <1>1, <2>1
<1>5. U \ {x} = {} \/ HasHead(U \ {x})
  <2>1. U \ {x} \in FiniteSubsetsOf(L)
    BY <1>2, FS_RemoveElement DEF FiniteSubsetsOf
  <2> QED
    BY <1>4, <2>1
<1>6. CASE U \ {x} = {}
  <2>1. \A f \in U : f = x
    BY <1>6
  <2>2. \A f \in U : f.seq <= x.seq
    BY <1>2, <2>1
  <2> QED
    BY <1>2, <1>3, <2>2
<1>7. CASE HasHead(U \ {x})
  <2>1. PICK e \in U \ {x} : \A f \in U \ {x} : f.seq <= e.seq
    BY <1>7
  <2>2. CASE x.seq <= e.seq
    BY <1>2, <2>1, <2>2
  <2>3. CASE e.seq <= x.seq
    BY <1>2, <1>3, <2>1, <2>3
  <2>4. x.seq \in Nat /\ e.seq \in Nat
    BY <1>2, <1>3, <2>1
  <2> QED
    BY <2>2, <2>3, <2>4
<1> QED
  BY <1>5, <1>6, <1>7

\* Purging drops entries that are not live, and only those.
LEMMA PurgeFact ==
    ASSUME NEW C, Counted(C), NEW now
    PROVE  /\ Counted(Purge(C, now))
           /\ Purge(C, now).list = {e \in C.list : Live(e, now)}
           /\ Purge(C, now).count <= C.count /\ Purge(C, now).count \in Nat
<1> DEFINE D == {e \in C.list : ~Live(e, now)}
<1>1. D \subseteq C.list /\ C.list \ D = {e \in C.list : Live(e, now)}
  OBVIOUS
<1>2. Purge(C, now) = Drop(C, D)
  BY DEF Purge
<1>3. Counted(Purge(C, now)) => Purge(C, now).count \in Nat
  BY FS_CardinalityType DEF Counted
<1> HIDE DEF D
<1> QED
  BY <1>1, <1>2, <1>3, DropCounted

\* Removing drops the one entry there was for the key.
LEMMA RemoveFact ==
    ASSUME NEW C, Counted(C), UniqueKeys(C), NEW k
    PROVE  /\ Counted(Remove(C, k))
           /\ Remove(C, k).list = {e \in C.list : e.key # k}
           /\ Remove(C, k).count <= C.count /\ Remove(C, k).count \in Nat
<1>1. First(C, k) \subseteq C.list
  BY DEF First
<1>2. First(C, k) = {e \in C.list : e.key = k}
  <2> SUFFICES ASSUME NEW e \in C.list, e.key = k, NEW f \in C.list, f.key = k PROVE f.seq <= e.seq
    BY DEF First
  <2> QED
    BY DEF UniqueKeys, Counted
<1>3. C.list \ First(C, k) = {e \in C.list : e.key # k}
  BY <1>2
<1>4. Counted(Remove(C, k)) => Remove(C, k).count \in Nat
  BY FS_CardinalityType DEF Counted
<1> QED
  BY <1>1, <1>3, <1>4, DropCounted DEF Remove

\* Evicting leaves room for one entry.
LEMMA EvictFact ==
    ASSUME NEW C, Counted(C), C.count <= MaxEntries
    PROVE  /\ Counted(Evict(C))
           /\ Evict(C).list \subseteq C.list
           /\ Evict(C).count < MaxEntries /\ Evict(C).count \in Nat
<1> DEFINE D == {e \in C.list : Cardinality(Newer(C, e)) + MaxEntries <= C.count}
<1>1. D \subseteq C.list
  OBVIOUS
<1>2. Evict(C) = Drop(C, D)
  BY DEF Evict
<1>3. C.count = MaxEntries => D # {}
  <2> SUFFICES ASSUME C.count = MaxEntries PROVE D # {}
    OBVIOUS
  <2>1. C.list # {}
    BY FS_EmptySet, MaxEntriesAssumption DEF Counted
  <2>2. PICK e \in C.list : \A f \in C.list : f.seq <= e.seq
    BY <2>1, HeadExists DEF Counted
  <2>3. Newer(C, e) = {}
    BY <2>2 DEF Newer, Counted
  <2>4. Cardinality(Newer(C, e)) = 0
    BY <2>3, FS_EmptySet
  <2> QED
    BY <2>4, MaxEntriesAssumption
<1>4. Cardinality(D) \in Nat /\ (D # {} => Cardinality(D) > 0)
  <2>1. IsFiniteSet(D)
    BY <1>1, FS_Subset DEF Counted
  <2> HIDE DEF D
  <2> QED
    BY <2>1, FS_EmptySet, FS_CardinalityType
<1>5. Counted(Evict(C)) => Evict(C).count \in Nat
  BY FS_CardinalityType DEF Counted
<1> HIDE DEF D
<1> QED
  BY <1>1, <1>2, <1>3, <1>4, <1>5, DropCounted, MaxEntriesAssumption

\* Linking an entry newer than all others counts it.
LEMMA LinkFact ==
    ASSUME NEW C, Counted(C), NEW e, e.seq \in Nat, \A f \in C.list : f.seq < e.seq
    PROVE  /\ Counted(Link(C, e))
           /\ Link(C, e).list = C.list \cup {e}
           /\ Link(C, e).count = C.count + 1
<1>1. e \notin C.list
  BY DEF Counted
<1>2. IsFiniteSet(C.list \cup {e}) /\ Cardinality(C.list \cup {e}) = Cardinality(C.list) + 1
  BY <1>1, FS_AddElement DEF Counted
<1>3. \A f, g \in C.list \cup {e} : f.seq = g.seq => f = g
  BY DEF Counted
<1> QED
  BY <1>2, <1>3 DEF Counted, Link

\* When cache_insert comes to its first malloc there is room, nothing has been
\* added and no entry for the key is left.
LEMMA MakeRoomFact ==
    ASSUME NEW C, Counted(C), UniqueKeys(C), C.count <= MaxEntries, NEW k, NEW now
    PROVE  /\ Counted(MakeRoom(C, k, now))
           /\ MakeRoom(C, k, now).list \subseteq {e \in C.list : e.key # k}
           /\ MakeRoom(C, k, now).count < MaxEntries
           /\ MakeRoom(C, k, now).count \in Nat
<1> DEFINE P == Purge(C, now)
           R == Remove(P, k)
<1>1. Counted(P) /\ P.list \subseteq C.list /\ P.count <= C.count /\ P.count \in Nat /\ UniqueKeys(P)
  BY PurgeFact DEF UniqueKeys
<1>2. C.count \in Nat
  BY FS_CardinalityType DEF Counted
<1> HIDE DEF P
<1>3. /\ Counted(R) /\ R.list = {e \in P.list : e.key # k}
      /\ R.count <= P.count /\ R.count \in Nat
  BY <1>1, RemoveFact
<1>4. R.count <= MaxEntries
  BY <1>1, <1>2, <1>3, MaxEntriesAssumption
<1> HIDE DEF R
<1>5. /\ Counted(Evict(R)) /\ Evict(R).list \subseteq R.list
      /\ Evict(R).count < MaxEntries /\ Evict(R).count \in Nat
  BY <1>3, <1>4, EvictFact
<1>6. MakeRoom(C, k, now) = Evict(R)
  BY DEF MakeRoom, P, R
<1> QED
  BY <1>1, <1>3, <1>5, <1>6
=============================================================================
