--------------------------- MODULE MdnsServiceProofs ---------------------------
(***************************************************************************)
(* Proofs about MdnsService, for every set of names, instances, types,     *)
(* lists of items, delegated hosts and callers, every table size and every *)
(* length of the action queue.                                             *)
(***************************************************************************)
EXTENDS MdnsService, TLAPS, FiniteSetTheorems, SequenceTheorems, WellFoundedInduction

(* The operators of the model *)

\* A set of natural numbers that is not empty has a least element.
LEMMA MinIs ==
    ASSUME NEW S \in SUBSET Nat, S # {}
    PROVE  Min(S) \in S /\ \A y \in S : Min(S) <= y
<1> DEFINE R == {pair \in Nat \X Nat : pair[1] < pair[2]}
<1>1. IsWellFoundedOn(R, Nat)
  <2>1. R = OpToRel(<, Nat)
    BY Zenon DEF OpToRel
  <2> QED BY <2>1, NatLessThanWellFounded, Zenon
<1>2. PICK x \in S : \A y \in S : <<y, x>> \notin R
  <2> HIDE DEF R
  <2> QED BY <1>1, WFMin, Zenon
<1>3. \A y \in S : x <= y
  <2> SUFFICES ASSUME NEW y \in S PROVE x <= y
    OBVIOUS
  <2>1. x \in Nat /\ y \in Nat
    OBVIOUS
  <2>2. ~(y < x)
    BY <1>2, <2>1
  <2> QED BY <2>1, <2>2
<1> QED BY <1>3 DEF Min

\* Induction, for a set of natural numbers.
LEMMA AllNat ==
    ASSUME NEW S \in SUBSET Nat, 0 \in S, \A k \in S : k + 1 \in S
    PROVE  S = Nat
<1> SUFFICES ASSUME Nat \ S # {}
             PROVE  FALSE
  OBVIOUS
<1> DEFINE n == Min(Nat \ S)
<1>1. n \in Nat \ S /\ \A y \in Nat \ S : n <= y
  BY MinIs
<1> HIDE DEF n
<1>2. n # 0 /\ n - 1 \in Nat
  BY <1>1
<1>3. n - 1 \in S
  BY <1>1, <1>2
<1>4. (n - 1) + 1 = n
  BY <1>1
<1> QED
  BY <1>1, <1>3, <1>4

\* A search gives 0 or the position of a service.
LEMMA FindIs ==
    ASSUME services \in Seq(Service), NEW q, Find(q) # 0
    PROVE  Find(q) \in 1..Len(services)
<1> DEFINE I == {i \in 1..Len(services) : Match(services[i], q)}
<1>1. Find(q) = IF I # {} THEN Min(I) ELSE 0
  BY DEF Find, SelectInSeq
<1>2. I \subseteq 1..Len(services) /\ I \in SUBSET Nat
  BY LenProperties
<1> QED BY <1>1, <1>2, MinIs

\* The same of an item in a list of TXT items.
LEMMA KeyAtIs ==
    ASSUME NEW txt \in Seq(Items), NEW key, KeyAt(txt, key) # 0
    PROVE  KeyAt(txt, key) \in 1..Len(txt)
<1> DEFINE I == {i \in 1..Len(txt) : txt[i].key = key}
<1>1. KeyAt(txt, key) = IF I # {} THEN Min(I) ELSE 0
  BY DEF KeyAt, SelectInSeq
<1>2. I \subseteq 1..Len(txt) /\ I \in SUBSET Nat
  BY LenProperties
<1> QED BY <1>1, <1>2, MinIs

\* Taking the element at i out of a sequence moves those behind it forward.
LEMMA RemoveAtIs ==
    ASSUME NEW S, NEW t \in Seq(S), NEW i \in 1..Len(t)
    PROVE  /\ RemoveAt(t, i) \in Seq(S)
           /\ Len(RemoveAt(t, i)) = Len(t) - 1
           /\ \A j \in 1..Len(t) - 1 : RemoveAt(t, i)[j] = t[IF j < i THEN j ELSE j + 1]
<1> DEFINE a == SubSeq(t, 1, i - 1)
           b == SubSeq(t, i + 1, Len(t))
<1>1. Len(t) \in Nat /\ \A j \in 1..Len(t) : t[j] \in S
  BY LenProperties, ElementOfSeq
<1>2. a \in Seq(S) /\ Len(a) = i - 1 /\ \A j \in 1..i - 1 : a[j] = t[j]
  BY <1>1, SubSeqProperties
<1>3. /\ b \in Seq(S) /\ Len(b) = Len(t) - i
      /\ \A j \in 1..Len(t) - i : b[j] = t[j + i]
  BY <1>1, SubSeqProperties
<1>4. RemoveAt(t, i) = a \o b
  BY DEF RemoveAt
<1> HIDE DEF a, b
<1>5. /\ a \o b \in Seq(S) /\ Len(a \o b) = Len(a) + Len(b)
      /\ \A j \in 1..Len(a) + Len(b) : (a \o b)[j] = IF j <= Len(a) THEN a[j] ELSE b[j - Len(a)]
  BY <1>2, <1>3, ConcatProperties
<1>6. Len(a) + Len(b) = Len(t) - 1
  BY <1>1, <1>2, <1>3
<1>7. ASSUME NEW j \in 1..Len(t) - 1
      PROVE  (a \o b)[j] = t[IF j < i THEN j ELSE j + 1]
  <2>1. CASE j < i
    BY <1>1, <1>2, <1>5, <1>6, <2>1
  <2>2. CASE ~(j < i)
    <3>1. j - Len(a) \in 1..Len(t) - i /\ (j - Len(a)) + i = j + 1 /\ ~(j <= Len(a))
      BY <1>1, <1>2, <2>2
    <3>2. b[j - Len(a)] = t[j + 1]
      BY <1>3, <3>1
    <3> QED BY <1>5, <1>6, <2>2, <3>1, <3>2
  <2> QED BY <2>1, <2>2
<1> QED BY <1>4, <1>5, <1>6, <1>7

\* A linked list built from the first n items of an array.
LEMMA LinkedIs ==
    ASSUME NEW S, NEW items \in Seq(S), NEW n \in 0..Len(items)
    PROVE  Linked(items, n) \in Seq(S)
<1> DEFINE a == SubSeq(items, 1, n)
<1>1. a \in Seq(S)
  BY LenProperties, ElementOfSeq, SubSeqProperties
<1>2. Linked(items, n) = [i \in 1..Len(a) |-> a[(Len(a) - i) + 1]]
  BY DEF Linked, Reverse
<1> HIDE DEF a
<1>3. Len(a) \in Nat /\ \A i \in 1..Len(a) : a[(Len(a) - i) + 1] \in S
  BY <1>1, LenProperties, ElementOfSeq
<1> QED BY <1>2, <1>3, IsASeq

\* Putting one element in front of a sequence.
LEMMA InFrontIs ==
    ASSUME NEW S, NEW t \in Seq(S), NEW e \in S
    PROVE  /\ <<e>> \o t \in Seq(S) /\ Len(<<e>> \o t) = Len(t) + 1
           /\ \A j \in 1..Len(t) + 1 : (<<e>> \o t)[j] = IF j = 1 THEN e ELSE t[j - 1]
<1>1. <<e>> \in Seq(S) /\ Len(<<e>>) = 1 /\ <<e>>[1] = e
  OBVIOUS
<1>2. Len(t) \in Nat
  BY LenProperties
<1> DEFINE u == <<e>>
<1> HIDE DEF u
<1>3. /\ u \o t \in Seq(S) /\ Len(u \o t) = 1 + Len(t)
      /\ \A j \in 1..1 + Len(t) : (u \o t)[j] = IF j <= 1 THEN u[j] ELSE t[j - 1]
  BY <1>1, ConcatProperties DEF u
<1>4. \A j \in 1..Len(t) + 1 : (u \o t)[j] = IF j = 1 THEN e ELSE t[j - 1]
  BY <1>1, <1>2, <1>3 DEF u
<1> QED BY <1>2, <1>3, <1>4 DEF u

-----------------------------------------------------------------------------
(* The table of services *)

\* The positions of a sequence of length n.
LEMMA IntervalIs ==
    ASSUME NEW n \in Nat
    PROVE  IsFiniteSet(1..n) /\ Cardinality(1..n) = n
<1>1. 1 \in Int /\ n \in Int
  OBVIOUS
<1>2. IsFiniteSet(1..n) /\ Cardinality(1..n) = IF 1 > n THEN 0 ELSE n - 1 + 1
  BY <1>1, FS_Interval
<1> QED BY <1>2

\* What TypeOK says of the table of services, for any table.
Table(t) ==
    /\ t \in Seq(Service) /\ Len(t) <= MaxServices
    /\ \A i, j \in DOMAIN t : t[i].at = t[j].at => i = j

\* A table whose services stand at addresses of the old table, no two at the
\* same, is a table.
LEMMA TableOfOld ==
    ASSUME NEW t, Table(t), NEW u \in Seq(Service), NEW old \in [1..Len(u) -> 1..Len(t)],
           \A i, j \in 1..Len(u) : old[i] = old[j] => i = j,
           \A i \in 1..Len(u) : u[i].at = t[old[i]].at
    PROVE  Table(u)
<1>1. Len(t) \in Nat /\ Len(u) \in Nat /\ DOMAIN t = 1..Len(t) /\ DOMAIN u = 1..Len(u)
  BY LenProperties DEF Table
<1>2. old \in Injection(1..Len(u), 1..Len(t))
  BY DEF Injection, IsInjective
<1>3. /\ IsFiniteSet(1..Len(t)) /\ Cardinality(1..Len(t)) = Len(t)
      /\ Cardinality(1..Len(u)) = Len(u)
  BY <1>1, IntervalIs
<1>4. Len(u) <= Len(t)
  BY <1>2, <1>3, FS_Injection
<1>5. ASSUME NEW i \in DOMAIN u, NEW j \in DOMAIN u, u[i].at = u[j].at
      PROVE  i = j
  <2>1. old[i] \in DOMAIN t /\ old[j] \in DOMAIN t /\ t[old[i]].at = t[old[j]].at
    BY <1>1, <1>5
  <2> QED BY <1>1, <2>1 DEF Table
<1>6. Len(u) <= MaxServices
  BY <1>1, <1>4, NumbersAssumption DEF Table
<1> QED BY <1>5, <1>6 DEF Table

\* The table with one service replaced by one at the same address.
LEMMA TableEdited ==
    ASSUME NEW t, Table(t), NEW i \in 1..Len(t), NEW s \in Service, s.at = t[i].at
    PROVE  Table([t EXCEPT ![i] = s])
<1> DEFINE u == [t EXCEPT ![i] = s]
<1>1. /\ u \in Seq(Service) /\ Len(u) = Len(t)
      /\ \A j \in 1..Len(t) : u[j] = IF j = i THEN s ELSE t[j]
  BY ExceptSeq DEF Table
<1> DEFINE old == [j \in 1..Len(u) |-> j]
<1>2. /\ old \in [1..Len(u) -> 1..Len(t)]
      /\ \A j, k \in 1..Len(u) : old[j] = old[k] => j = k
  BY <1>1
<1>3. \A j \in 1..Len(u) : u[j].at = t[old[j]].at
  BY <1>1
<1> HIDE DEF old, u
<1>4. Table(u)
  BY <1>1, <1>2, <1>3, TableOfOld
<1> QED BY <1>4 DEF u

\* The table without one service.
LEMMA TableWithout ==
    ASSUME NEW t, Table(t), NEW i \in 1..Len(t)
    PROVE  Table(RemoveAt(t, i))
<1> DEFINE u == RemoveAt(t, i)
<1>1. Len(t) \in Nat
  BY LenProperties DEF Table
<1>2. /\ u \in Seq(Service) /\ Len(u) = Len(t) - 1
      /\ \A j \in 1..Len(t) - 1 : u[j] = t[IF j < i THEN j ELSE j + 1]
  BY RemoveAtIs DEF Table
<1> HIDE DEF u
<1> DEFINE old == [j \in 1..Len(u) |-> IF j < i THEN j ELSE j + 1]
<1>3. /\ old \in [1..Len(u) -> 1..Len(t)]
      /\ \A j, k \in 1..Len(u) : old[j] = old[k] => j = k
  BY <1>1, <1>2
<1>4. \A j \in 1..Len(u) : u[j].at = t[old[j]].at
  BY <1>2
<1> HIDE DEF old
<1>5. Table(u)
  BY <1>2, <1>3, <1>4, TableOfOld, ZenonT(30)
<1> QED BY <1>5 DEF u

\* A table that is not full has an address nobody uses.
LEMMA TableFree ==
    ASSUME NEW t, Table(t), Len(t) < MaxServices
    PROVE  (1..MaxServices) \ {r.at : r \in ToSet(t)} # {}
<1> DEFINE free == (1..MaxServices) \ {r.at : r \in ToSet(t)}
<1>1. /\ Len(t) \in Nat /\ DOMAIN t = 1..Len(t) /\ MaxServices \in Nat
      /\ \A i \in 1..Len(t) : t[i] \in Service
  BY LenProperties, ElementOfSeq, NumbersAssumption DEF Table
<1>2. free # {}
  <2> SUFFICES ASSUME free = {} PROVE FALSE
    OBVIOUS
  <2> DEFINE ats == [i \in 1..Len(t) |-> t[i].at]
  <2>1. \A a \in 1..MaxServices : \E i \in 1..Len(t) : t[i].at = a
    <3> TAKE a \in 1..MaxServices
    <3>1. a \in {r.at : r \in ToSet(t)}
      OBVIOUS
    <3>2. PICK r \in ToSet(t) : r.at = a
      BY <3>1
    <3> QED BY <1>1, <3>2 DEF ToSet
  <2>2. \A i \in 1..Len(t) : t[i].at \in 1..MaxServices
    BY <1>1 DEF Service
  <2>3. ats \in Surjection(1..Len(t), 1..MaxServices)
    BY <2>1, <2>2 DEF Surjection
  <2>4. /\ IsFiniteSet(1..Len(t)) /\ Cardinality(1..Len(t)) = Len(t)
        /\ Cardinality(1..MaxServices) = MaxServices
    BY <1>1, IntervalIs
  <2>5. MaxServices <= Len(t)
    BY <2>3, <2>4, FS_Surjection
  <2> QED BY <1>1, <2>5
<1> QED BY <1>2

\* With a service there in front it is a table.
LEMMA TableAdded ==
    ASSUME NEW t, Table(t), Len(t) < MaxServices,
           NEW s \in Service, s.at = Min((1..MaxServices) \ {r.at : r \in ToSet(t)})
    PROVE  Table(<<s>> \o t)
<1> DEFINE free == (1..MaxServices) \ {r.at : r \in ToSet(t)}
           u == <<s>> \o t
<1>1. /\ Len(t) \in Nat /\ DOMAIN t = 1..Len(t) /\ MaxServices \in Nat
      /\ \A i \in 1..Len(t) : t[i] \in Service
  BY LenProperties, ElementOfSeq, NumbersAssumption DEF Table
<1>2. free # {}
  BY TableFree
<1>3. s.at \in free
  <2>1. free \in SUBSET Nat
    BY <1>1
  <2> HIDE DEF free
  <2>2. Min(free) \in free
    BY <1>2, <2>1, MinIs
  <2> QED BY <2>2 DEF free
<1>4. \A i \in 1..Len(t) : t[i].at # s.at
  BY <1>1, <1>3 DEF ToSet
<1>5. /\ u \in Seq(Service) /\ Len(u) = Len(t) + 1
      /\ \A j \in 1..Len(t) + 1 : u[j] = IF j = 1 THEN s ELSE t[j - 1]
  BY InFrontIs DEF Table
<1> HIDE DEF u
<1>6. DOMAIN u = 1..Len(t) + 1
  BY <1>5, LenProperties
<1>7. ASSUME NEW i \in DOMAIN u, NEW j \in DOMAIN u, u[i].at = u[j].at
      PROVE  i = j
  <2>1. CASE i = 1 /\ j = 1
    BY <2>1
  <2>2. CASE i = 1 /\ j # 1
    <3>1. j - 1 \in 1..Len(t) /\ u[j] = t[j - 1] /\ u[i] = s
      BY <1>1, <1>5, <1>6, <2>2
    <3> QED BY <1>4, <1>7, <3>1
  <2>3. CASE i # 1 /\ j = 1
    <3>1. i - 1 \in 1..Len(t) /\ u[i] = t[i - 1] /\ u[j] = s
      BY <1>1, <1>5, <1>6, <2>3
    <3> QED BY <1>4, <1>7, <3>1
  <2>4. CASE i # 1 /\ j # 1
    <3>1. /\ i - 1 \in DOMAIN t /\ u[i] = t[i - 1]
          /\ j - 1 \in DOMAIN t /\ u[j] = t[j - 1]
      BY <1>1, <1>5, <1>6, <2>4
    <3>2. i - 1 = j - 1
      BY <1>7, <3>1 DEF Table
    <3> QED BY <1>1, <1>6, <3>2
  <2> QED BY <2>1, <2>2, <2>3, <2>4
<1>8. Table(u)
  BY <1>1, <1>5, <1>7 DEF Table
<1> QED BY <1>8 DEF u

-----------------------------------------------------------------------------
(* What a call does to the table *)

Outcome == [code : {"ok", "no_mem", "invalid"}, told : SUBSET (1..MaxServices)]

\* One service has other data, at its old address and with its old host; the
\* network is told when the call succeeds, and nothing is new when memory ran
\* out.
Edited ==
    \E i \in 1..Len(services), s \in Service :
        /\ services' = [services EXCEPT ![i] = s]
        /\ s.at = services[i].at /\ s.own = services[i].own /\ s.host = services[i].host
        /\ last'.code = "ok" => s = services[i] \/ s.at \in last'.told
        /\ last'.code = "no_mem" => Within(s, services[i])
\* One service more, of which the network is told.
Added ==
    /\ host # None /\ Len(services) < MaxServices /\ last'.code = "ok"
    /\ \E s \in Service :
        /\ services' = <<s>> \o services /\ s.at \in last'.told
        /\ s.at = Min((1..MaxServices) \ {r.at : r \in ToSet(services)})
        /\ s.own => s.host = host
\* One service less, of which the network is told.
Removed ==
    \E i \in 1..Len(services) :
        /\ services' = RemoveAt(services, i)
        /\ last'.code = "ok" /\ services[i].at \in last'.told
Cleared == services' = <<>> /\ last'.code = "ok" /\ last'.told = At

Result ==
    /\ UNCHANGED services \/ Edited \/ Added \/ Removed \/ Cleared
    /\ last' \in Outcome /\ lock' \in {"free", "lost"}

\* Every service of the table is one, at an address of the table.
LEMMA ServiceIs ==
    ASSUME TypeOK, NEW i \in 1..Len(services)
    PROVE  services[i] \in Service /\ services[i].at \in 1..MaxServices
<1>1. services[i] \in Service
  BY ElementOfSeq DEF TypeOK
<1> QED BY <1>1 DEF Service

\* The addresses of the table.
LEMMA AtIs ==
    ASSUME TypeOK
    PROVE  At \in SUBSET (1..MaxServices)
<1>1. DOMAIN services = 1..Len(services)
  BY LenProperties DEF TypeOK
<1> QED BY <1>1, ServiceIs DEF At, ToSet

\* A call that edits a service and announces it.
LEMMA EditIs ==
    ASSUME TypeOK, NEW i \in 1..Len(services), NEW s \in Service,
           NEW code \in {"ok", "no_mem"}, Edit(i, s, code),
           s.at = services[i].at, s.own = services[i].own, s.host = services[i].host,
           code = "no_mem" => Within(s, services[i])
    PROVE  Result
<1>1. last' = [code |-> code, told |-> {s.at}] /\ services' = [services EXCEPT ![i] = s]
  BY DEF Edit, Reports
<1>2. s.at \in 1..MaxServices
  BY DEF Service
<1>3. last' \in Outcome
  BY <1>1, <1>2 DEF Outcome
<1>4. lock' \in {"free", "lost"}
  BY DEF Edit, TypeOK
<1>5. last'.code = code /\ s.at \in last'.told
  BY <1>1
<1>6. Edited
  BY <1>1, <1>5 DEF Edited
<1> QED BY <1>3, <1>4, <1>6 DEF Result

\* What a call says that changed nothing.
LEMMA NothingIs ==
    ASSUME TypeOK, services' = services, lock' \in {"free", "lost"},
           NEW code \in {"ok", "no_mem", "invalid"}, Reports(code, {})
    PROVE  Result
BY DEF Result, Outcome, Reports

\* The service as it is without a hostname given, or with the device's.
LEMMA LocalIs ==
    ASSUME TypeOK, host # None, NEW q \in Queries
    PROVE  /\ Local(q).host \in Names
           /\ q.host = None => Local(q).host = host
           /\ q.type \in Types /\ q.inst \in Instances \cup {None}
BY DEF TypeOK, Queries, Local

\* ServiceAdd puts a service in front, or fails.
LEMMA ServiceAddResult ==
    ASSUME TypeOK, NEW q \in Queries, NEW port \in Ports, NEW txt \in TxtLists,
           ServiceAdd(q, port, txt)
    PROVE  Result
<1>1. host # None /\ Len(services) < MaxServices /\ lock = "free"
  BY DEF ServiceAdd, Call
<1> DEFINE Low == IF txt = <<>> THEN 0 ELSE 1
           New(n, i) == [at |-> Min((1..MaxServices) \ At), type |-> q.type, inst |-> i,
                         host |-> Local(q).host, own |-> q.host = None, port |-> port,
                         txt |-> Linked(txt, n), sub |-> <<>>]
<1>2. CASE \E n \in Low..Len(txt), i \in {q.inst, None} :
             services' = <<New(n, i)>> \o services /\ Reports("ok", {New(n, i).at}) /\ UNCHANGED lock
  <2>1. PICK n \in Low..Len(txt), i \in {q.inst, None} :
             services' = <<New(n, i)>> \o services /\ Reports("ok", {New(n, i).at}) /\ UNCHANGED lock
    BY <1>2
  <2> DEFINE s == New(n, i)
             free == (1..MaxServices) \ {r.at : r \in ToSet(services)}
  <2>2. txt \in Seq(Items) /\ Len(txt) \in Nat
    BY ListsAssumption, LenProperties
  <2>3. n \in 0..Len(txt)
    BY <2>2
  <2>4. Linked(txt, n) \in Seq(Items)
    BY <2>2, <2>3, LinkedIs
  <2>5. free \in SUBSET Nat /\ free # {} /\ Min(free) = s.at
    <3>1. free \in SUBSET Nat
      BY NumbersAssumption
    <3>2. Table(services)
      BY DEF TypeOK, Table
    <3>3. free # {}
      BY <1>1, <3>2, TableFree
    <3> QED BY <3>1, <3>3 DEF At
  <2>6. s.at \in free
    <3> HIDE DEF free, s
    <3> QED BY <2>5, MinIs
  <2>7. s \in Service
    <3>1. s.at \in 1..MaxServices
      BY <2>6
    <3> QED BY <1>1, <2>4, <3>1, LocalIs, EmptySeq DEF Service
  <2>8. s.own => s.host = host
    BY <1>1, LocalIs
  <2>9. s.at = Min(free)
    BY <2>5
  <2> HIDE DEF s
  <2>10. last' = [code |-> "ok", told |-> {s.at}] /\ services' = <<s>> \o services
    BY <2>1 DEF Reports, s
  <2>11. last' \in Outcome /\ last'.code = "ok" /\ s.at \in last'.told
    BY <2>6, <2>10 DEF Outcome
  <2>12. Added
    BY <1>1, <2>7, <2>8, <2>9, <2>10, <2>11 DEF Added
  <2> QED BY <1>1, <2>1, <2>11, <2>12 DEF Result
<1>3. CASE Reports("no_mem", {}) /\ UNCHANGED <<services, lock>>
  BY <1>1, <1>3, NothingIs
<1> QED BY <1>2, <1>3 DEF ServiceAdd

\* ServiceRemove and ServiceRemoveAll take services out.
LEMMA ServiceRemoveResult ==
    ASSUME TypeOK, NEW q \in Queries, ServiceRemove(q)
    PROVE  Result
<1> DEFINE i == Find(Local(q))
<1>1. /\ lock = "free" /\ i # 0 /\ services' = RemoveAt(services, i) /\ lock' = lock
      /\ last' = [code |-> "ok", told |-> {services[i].at}]
  BY DEF ServiceRemove, Call, Reports
<1>2. services \in Seq(Service)
  BY DEF TypeOK
<1>3. i \in 1..Len(services)
  BY <1>1, <1>2, FindIs
<1> HIDE DEF i
<1>4. services[i].at \in 1..MaxServices
  BY <1>3, ServiceIs
<1>5. last'.code = "ok" /\ services[i].at \in last'.told /\ last' \in Outcome
  BY <1>1, <1>4 DEF Outcome
<1>6. Removed
  BY <1>1, <1>3, <1>5 DEF Removed
<1> QED BY <1>1, <1>5, <1>6 DEF Result

LEMMA ServiceRemoveAllResult ==
    ASSUME TypeOK, ServiceRemoveAll
    PROVE  Result
<1>1. /\ services' = <<>> /\ lock' = lock /\ last' = [code |-> "ok", told |-> At]
      /\ lock = "free"
  BY DEF ServiceRemoveAll, Call, Reports
<1>2. last'.code = "ok" /\ last'.told = At /\ last' \in Outcome
  BY <1>1, AtIs DEF Outcome
<1>3. Cleared
  BY <1>1, <1>2 DEF Cleared
<1> QED BY <1>1, <1>2, <1>3 DEF Result

\* PortSet and InstanceNameSet edit what they find.
LEMMA PortSetResult ==
    ASSUME TypeOK, NEW q \in Queries, NEW port \in Ports, PortSet(q, port)
    PROVE  Result
<1> DEFINE i == Find(Local(q))
           s == [services[i] EXCEPT !.port = port]
<1>1. i # 0 /\ Edit(i, s, "ok")
  BY DEF PortSet
<1>2. i \in 1..Len(services)
  BY <1>1, FindIs DEF TypeOK
<1> HIDE DEF i
<1>3. services[i] \in Service
  BY <1>2, ServiceIs
<1>4. /\ s \in Service /\ s.at = services[i].at
      /\ s.own = services[i].own /\ s.host = services[i].host
  BY <1>3 DEF Service
<1> HIDE DEF s
<1> QED BY <1>1, <1>2, <1>4, EditIs

LEMMA InstanceNameSetResult ==
    ASSUME TypeOK, NEW q \in Queries, NEW name \in Instances, InstanceNameSet(q, name)
    PROVE  Result
<1> DEFINE i == Find(Local(q))
<1>1. i # 0
  BY DEF InstanceNameSet
<1>2. i \in 1..Len(services)
  BY <1>1, FindIs DEF TypeOK
<1>3. PICK n \in {name, None}, code \in {"ok", "no_mem"} :
         Edit(i, [services[i] EXCEPT !.inst = n], code)
  BY DEF InstanceNameSet
<1> DEFINE s == [services[i] EXCEPT !.inst = n]
<1> HIDE DEF i
<1>4. services[i] \in Service
  BY <1>2, ServiceIs
<1>5. /\ s \in Service /\ s.at = services[i].at /\ s.own = services[i].own
      /\ s.host = services[i].host /\ s.txt = services[i].txt /\ s.sub = services[i].sub
  BY <1>4 DEF Service
<1>6. Edit(i, s, code)
  BY <1>3
<1> HIDE DEF s
<1>7. Within(s, services[i])
  BY <1>5 DEF Within
<1> QED BY <1>2, <1>5, <1>6, <1>7, EditIs

\* The other TXT calls edit the list of items.
LEMMA TxtEdited ==
    ASSUME TypeOK, NEW i \in 1..Len(services), NEW txt \in Seq(Items),
           Edit(i, [services[i] EXCEPT !.txt = txt], "ok")
    PROVE  Result
<1> DEFINE s == [services[i] EXCEPT !.txt = txt]
<1>1. services[i] \in Service
  BY ServiceIs
<1>2. /\ s \in Service /\ s.at = services[i].at
      /\ s.own = services[i].own /\ s.host = services[i].host
  BY <1>1 DEF Service
<1> HIDE DEF s
<1>3. Edit(i, s, "ok")
  BY DEF s
<1> QED BY <1>2, <1>3, EditIs

LEMMA TxtSetResult ==
    ASSUME TypeOK, NEW q \in Queries, NEW txt \in TxtLists, TxtSet(q, txt)
    PROVE  Result
<1> DEFINE i == Find(Local(q))
<1>1. i \in 1..Len(services)
  BY FindIs DEF TxtSet, TypeOK
<1> DEFINE Low == IF txt = <<>> THEN 0 ELSE 1
<1>2. CASE \E n \in Low..Len(txt) : Edit(i, [services[i] EXCEPT !.txt = Linked(txt, n)], "ok")
  <2>1. PICK n \in Low..Len(txt) : Edit(i, [services[i] EXCEPT !.txt = Linked(txt, n)], "ok")
    BY <1>2
  <2>2. txt \in Seq(Items) /\ Len(txt) \in Nat
    BY ListsAssumption, LenProperties
  <2>3. n \in 0..Len(txt)
    BY <2>2
  <2>4. Linked(txt, n) \in Seq(Items)
    BY <2>2, <2>3, LinkedIs
  <2> HIDE DEF i
  <2> QED BY <1>1, <2>1, <2>4, TxtEdited
<1>3. CASE lock' = "lost" /\ Reports("no_mem", {}) /\ UNCHANGED services
  BY <1>3, NothingIs
<1> QED BY <1>2, <1>3 DEF TxtSet

LEMMA TxtItemSetResult ==
    ASSUME TypeOK, NEW q \in Queries, NEW item \in Items, TxtItemSet(q, item)
    PROVE  Result
<1> DEFINE i == Find(Local(q))
           txt == services[i].txt
<1>1. i \in 1..Len(services)
  BY FindIs DEF TxtItemSet, TypeOK
<1>2. lock = "free"
  BY DEF TxtItemSet, Call
<1>3. CASE Edit(i, [services[i] EXCEPT !.txt = WithItem(txt, item)], "ok")
  <2> HIDE DEF i
  <2>1. txt \in Seq(Items)
    BY <1>1, ServiceIs DEF Service
  <2> HIDE DEF txt
  <2>2. WithItem(txt, item) \in Seq(Items)
    <3>1. CASE KeyAt(txt, item.key) # 0
      BY <2>1, <3>1, KeyAtIs, ExceptSeq DEF WithItem
    <3>2. CASE KeyAt(txt, item.key) = 0
      BY <2>1, <3>2, InFrontIs DEF WithItem
    <3> QED BY <3>1, <3>2
  <2> QED BY <1>1, <1>3, <2>2, TxtEdited
<1>4. CASE Reports("no_mem", {}) /\ UNCHANGED <<services, lock>>
  BY <1>2, <1>4, NothingIs
<1> QED BY <1>3, <1>4 DEF TxtItemSet

LEMMA TxtItemRemoveResult ==
    ASSUME TypeOK, NEW q \in Queries, NEW key, TxtItemRemove(q, key)
    PROVE  Result
<1> DEFINE i == Find(Local(q))
           txt == services[i].txt
           k == KeyAt(txt, key)
<1>1. i \in 1..Len(services)
  BY FindIs DEF TxtItemRemove, TypeOK
<1>2. lock = "free"
  BY DEF TxtItemRemove, Call
<1>3. CASE Edit(i, [services[i] EXCEPT !.txt = IF k = 0 THEN txt ELSE RemoveAt(txt, k)], "ok")
  <2> HIDE DEF i
  <2>1. txt \in Seq(Items)
    BY <1>1, ServiceIs DEF Service
  <2>2. (IF k = 0 THEN txt ELSE RemoveAt(txt, k)) \in Seq(Items)
    <3> HIDE DEF txt
    <3>1. CASE k # 0
      <4>1. k \in 1..Len(txt)
        BY <2>1, <3>1, KeyAtIs
      <4> QED BY <2>1, <3>1, <4>1, RemoveAtIs
    <3>2. CASE k = 0
      BY <2>1, <3>2
    <3> QED BY <3>1, <3>2
  <2> HIDE DEF k, txt
  <2> QED BY <1>1, <1>3, <2>2, TxtEdited
<1>4. CASE Reports("ok", {}) /\ UNCHANGED <<services, lock>>
  BY <1>2, <1>4, NothingIs
<1> QED BY <1>3, <1>4 DEF TxtItemRemove

-----------------------------------------------------------------------------
(* Taking subtypes back.  The loop is a recursive function; what it leaves   *)
(* after each item is shown from the first item on.                          *)

\* The items up to j, the first that is there already, all differ.
LEMMA DoubleIs ==
    ASSUME NEW sub, NEW items \in Seq(Subtypes)
    PROVE  /\ FirstDouble(sub, items) \in 1..Len(items) + 1
           /\ \A a, b \in 1..FirstDouble(sub, items) - 1 : a # b => items[a] # items[b]
<1> DEFINE j == FirstDouble(sub, items)
           Double(k) == items[k] \in ToSet(sub) \cup ToSet(SubSeq(items, 1, k - 1))
           all == {k \in 1..Len(items) : Double(k)} \cup {Len(items) + 1}
<1>1. Len(items) \in Nat
  BY LenProperties
<1>2. all \subseteq 1..Len(items) + 1 /\ all # {} /\ all \in SUBSET Nat
  BY <1>1
<1>3. j = Min(all)
  BY DEF FirstDouble
<1>4. j \in all /\ \A k \in all : j <= k
  <2> HIDE DEF all, j
  <2> QED BY <1>2, <1>3, MinIs
<1>5. j \in 1..Len(items) + 1
  BY <1>2, <1>4
<1>6. ASSUME NEW a, NEW b \in 1..j - 1, a \in 1..b - 1
      PROVE  items[a] # items[b]
  <2>1. b \in 1..Len(items) /\ a \in 1..Len(items) /\ ~(j <= b)
    BY <1>1, <1>5, <1>6
  <2>2. b \notin all
    BY <1>4, <2>1
  <2>3. ~Double(b)
    <3> HIDE DEF Double
    <3> QED BY <2>1, <2>2
  <2> DEFINE before == SubSeq(items, 1, b - 1)
  <2>4. before \in Seq(Subtypes) /\ Len(before) = b - 1 /\ \A p \in 1..b - 1 : before[p] = items[p]
    BY <1>1, <2>1, LenProperties, ElementOfSeq, SubSeqProperties
  <2>5. items[b] \notin ToSet(before)
    BY <2>3
  <2> HIDE DEF before
  <2>6. DOMAIN before = 1..b - 1
    BY <2>4, LenProperties
  <2>7. before[a] = items[a] /\ a \in DOMAIN before
    BY <1>6, <2>4, <2>6
  <2> QED BY <2>5, <2>7 DEF ToSet
<1>7. ASSUME NEW a \in 1..j - 1, NEW b \in 1..j - 1, a # b
      PROVE  items[a] # items[b]
  <2> HIDE DEF j
  <2>1. a \in 1..b - 1 \/ b \in 1..a - 1
    BY <1>5, <1>7
  <2> QED BY <1>6, <2>1
<1> QED BY <1>5, <1>7

\* What is left of the first n items in front of sub once m of them are gone.
Pile(items, n, sub, m) ==
    [p \in 1..(n - m + Len(sub)) |-> IF p <= n - m THEN items[n + 1 - p] ELSE sub[p - (n - m)]]

LEMMA PileIs ==
    ASSUME NEW S, NEW items \in Seq(S), NEW sub \in Seq(S),
           NEW n \in 0..Len(items), NEW m \in 0..n
    PROVE  /\ Pile(items, n, sub, m) \in Seq(S)
           /\ Len(Pile(items, n, sub, m)) = n - m + Len(sub)
<1> DEFINE len == n - m + Len(sub)
           e(p) == IF p <= n - m THEN items[n + 1 - p] ELSE sub[p - (n - m)]
<1>1. Len(items) \in Nat /\ Len(sub) \in Nat /\ len \in Nat
  BY LenProperties
<1>2. ASSUME NEW p \in 1..len
      PROVE  e(p) \in S
  <2>1. CASE p <= n - m
    <3>1. n + 1 - p \in 1..Len(items)
      BY <1>1, <2>1
    <3> QED BY <2>1, <3>1, ElementOfSeq
  <2>2. CASE ~(p <= n - m)
    <3>1. p - (n - m) \in 1..Len(sub)
      BY <1>1, <2>2
    <3> QED BY <2>2, <3>1, ElementOfSeq
  <2> QED BY <2>1, <2>2
<1>3. Pile(items, n, sub, m) = [p \in 1..len |-> e(p)]
  BY DEF Pile
<1> HIDE DEF len, e
<1>4. Pile(items, n, sub, m) \in Seq(S) /\ Len([p \in 1..len |-> e(p)]) = len
  BY <1>1, <1>2, <1>3, IsASeq, LenProperties
<1> QED BY <1>3, <1>4 DEF len

\* All of them, as they were added.
LEMMA PileAll ==
    ASSUME NEW S, NEW items \in Seq(S), NEW sub \in Seq(S), NEW n \in 0..Len(items)
    PROVE  Linked(items, n) \o sub = Pile(items, n, sub, 0)
<1> DEFINE a == SubSeq(items, 1, n)
           l == Linked(items, n)
           pile == Pile(items, n, sub, 0)
<1>1. Len(items) \in Nat /\ Len(sub) \in Nat
  BY LenProperties
<1>2. Len(a) = n /\ \A p \in 1..n : a[p] = items[p]
  BY <1>1, LenProperties, ElementOfSeq, SubSeqProperties
<1>3. l = [p \in 1..n |-> a[(n - p) + 1]]
  BY <1>2 DEF Linked, Reverse
<1>4. l \in Seq(S) /\ Len(l) = n
  <2>1. l \in Seq(S)
    BY LinkedIs
  <2>2. DOMAIN l = 1..n
    BY <1>3
  <2> HIDE DEF l
  <2>3. n \in Nat
    BY <1>1
  <2>4. DOMAIN l = 1..Len(l) /\ Len(l) \in Nat
    BY <2>1, LenProperties
  <2>5. Len(l) = n
    BY <2>2, <2>3, <2>4
  <2> QED BY <2>1, <2>5
<1>5. \A p \in 1..n : l[p] = items[n + 1 - p]
  <2> TAKE p \in 1..n
  <2>1. (n - p) + 1 \in 1..n /\ (n - p) + 1 = n + 1 - p
    BY <1>1
  <2>2. l[p] = a[(n - p) + 1]
    BY <1>3
  <2> HIDE DEF l, a
  <2> QED BY <1>2, <2>1, <2>2
<1>6. pile = [p \in 1..(n - 0 + Len(sub)) |-> IF p <= n - 0 THEN items[n + 1 - p] ELSE sub[p - (n - 0)]]
  BY DEF Pile
<1>7. 0 \in 0..n
  BY <1>1
<1>8. pile \in Seq(S) /\ Len(pile) = n - 0 + Len(sub)
  BY <1>7, PileIs
<1> HIDE DEF l, a, pile
<1>9. /\ l \o sub \in Seq(S) /\ Len(l \o sub) = n + Len(sub)
      /\ \A p \in 1..n + Len(sub) : (l \o sub)[p] = IF p <= n THEN l[p] ELSE sub[p - n]
  BY <1>4, ConcatProperties
<1>10. ASSUME NEW p \in 1..n + Len(sub)
       PROVE  (l \o sub)[p] = pile[p]
  <2>1. pile[p] = IF p <= n THEN items[n + 1 - p] ELSE sub[p - n]
    BY <1>1, <1>6
  <2>2. p <= n => p \in 1..n
    BY <1>1
  <2> QED BY <1>5, <1>9, <2>1, <2>2
<1>11. l \o sub = pile
  <2>1. Len(pile) = n + Len(sub)
    BY <1>1, <1>8
  <2> QED BY <1>8, <1>9, <1>10, <2>1, SeqEqual
<1> QED BY <1>11 DEF l, pile

\* None of them.
LEMMA PileNone ==
    ASSUME NEW S, NEW items, NEW sub \in Seq(S), NEW n \in Nat
    PROVE  Pile(items, n, sub, n) = sub
<1>1. Len(sub) \in Nat /\ sub = [p \in 1..Len(sub) |-> sub[p]]
  BY LenProperties
<1>2. n - n + Len(sub) = Len(sub) /\ \A p \in 1..Len(sub) : ~(p <= n - n) /\ p - (n - n) = p
  BY <1>1
<1> QED BY <1>1, <1>2 DEF Pile

\* The next item is found behind those added after it, which differ from it,
\* and in front of all others.
LEMMA PileLess ==
    ASSUME NEW S, NEW items \in Seq(S), NEW sub \in Seq(S),
           NEW n \in 0..Len(items), NEW m \in 1..n,
           \A a, b \in 1..n : a # b => items[a] # items[b]
    PROVE  RemoveFirst(Pile(items, n, sub, m - 1), items[m]) = Pile(items, n, sub, m)
<1> DEFINE old == Pile(items, n, sub, m - 1)
           new == Pile(items, n, sub, m)
           x == items[m]
           at == n - m + 1
           I == {p \in 1..Len(old) : old[p] = x}
           found == SelectInSeq(old, LAMBDA v : v = x)
<1>1. Len(items) \in Nat /\ Len(sub) \in Nat /\ n \in Nat /\ m \in 1..n /\ m - 1 \in 0..n /\ m \in 0..n
  BY LenProperties
<1>2. /\ old \in Seq(S) /\ Len(old) = at + Len(sub)
      /\ new \in Seq(S) /\ Len(new) = (at - 1) + Len(sub)
  <2>1. old \in Seq(S) /\ Len(old) = n - (m - 1) + Len(sub)
    BY <1>1, PileIs
  <2>2. new \in Seq(S) /\ Len(new) = n - m + Len(sub)
    BY <1>1, PileIs
  <2> HIDE DEF old, new
  <2> QED BY <1>1, <2>1, <2>2
<1>3. \A p \in 1..at + Len(sub) : old[p] = IF p <= at THEN items[n + 1 - p] ELSE sub[p - at]
  <2>1. n - (m - 1) = at
    BY <1>1
  <2> QED BY <2>1 DEF Pile
<1>4. \A p \in 1..(at - 1) + Len(sub) : new[p] = IF p <= at - 1 THEN items[n + 1 - p] ELSE sub[p - (at - 1)]
  <2>1. n - m = at - 1
    BY <1>1
  <2> QED BY <2>1 DEF Pile
<1>5. at \in 1..at + Len(sub) /\ at \in Nat /\ n + 1 - at = m
  BY <1>1
<1> HIDE DEF old, new
<1>6. at \in I
  BY <1>2, <1>3, <1>5
<1>7. \A p \in 1..at - 1 : old[p] # x
  <2> TAKE p \in 1..at - 1
  <2>1. n + 1 - p \in 1..n /\ n + 1 - p # m /\ p \in 1..at + Len(sub) /\ p <= at
    BY <1>1
  <2>2. old[p] = items[n + 1 - p]
    BY <1>3, <2>1
  <2> QED BY <1>1, <2>1, <2>2
<1>8. found = at
  <2>1. found = IF I # {} THEN Min(I) ELSE 0
    BY DEF SelectInSeq
  <2>2. I \subseteq Nat /\ I # {}
    <3>1. Len(old) \in Nat
      BY <1>1, <1>2
    <3>2. I \subseteq 1..Len(old)
      OBVIOUS
    <3> HIDE DEF I
    <3> QED BY <1>6, <3>1, <3>2
  <2>3. Min(I) \in I /\ \A y \in I : Min(I) <= y
    BY <2>2, MinIs
  <2> DEFINE least == Min(I)
  <2> HIDE DEF least
  <2>4. least \in 1..Len(old) /\ old[least] = x /\ least <= at
    BY <1>6, <2>3 DEF least
  <2>5. least \notin 1..at - 1
    BY <1>7, <2>4
  <2>6. least = at
    BY <1>2, <1>5, <2>4, <2>5
  <2> QED BY <2>1, <2>2, <2>6 DEF least
<1>9. RemoveFirst(old, x) = RemoveAt(old, at)
  <2>1. \E p \in 1..Len(old) : old[p] = x
    BY <1>6
  <2>2. RemoveFirst(old, x) = RemoveAt(old, found)
    BY <2>1 DEF RemoveFirst
  <2> QED BY <1>8, <2>2
<1> HIDE DEF found, I, x
<1> DEFINE rest == RemoveAt(old, at)
<1>10. /\ rest \in Seq(S) /\ Len(rest) = Len(old) - 1
       /\ \A p \in 1..Len(old) - 1 : rest[p] = old[IF p < at THEN p ELSE p + 1]
  <2>1. old \in Seq(S) /\ at \in 1..Len(old)
    BY <1>2, <1>5
  <2> HIDE DEF at
  <2> QED BY <2>1, RemoveAtIs
<1> HIDE DEF rest
<1>11. ASSUME NEW p \in 1..Len(rest)
       PROVE  rest[p] = new[p]
  <2>1. p \in 1..(at - 1) + Len(sub) /\ p \in 1..Len(old) - 1
    BY <1>1, <1>2, <1>10
  <2>2. CASE p < at
    <3>1. p \in 1..at + Len(sub) /\ p <= at /\ p <= at - 1
      BY <1>1, <2>1, <2>2
    <3>2. rest[p] = old[p]
      BY <1>10, <2>1, <2>2
    <3> HIDE DEF at
    <3> QED BY <1>3, <1>4, <2>1, <3>1, <3>2
  <2>3. CASE ~(p < at)
    <3>1. /\ p + 1 \in 1..at + Len(sub) /\ ~(p + 1 <= at) /\ ~(p <= at - 1)
          /\ (p + 1) - at = p - (at - 1)
      BY <1>1, <2>1, <2>3
    <3>2. rest[p] = old[p + 1]
      BY <1>10, <2>1, <2>3
    <3> HIDE DEF at
    <3>3. old[p + 1] = sub[(p + 1) - at]
      BY <1>3, <3>1
    <3>4. new[p] = sub[p - (at - 1)]
      BY <1>4, <2>1, <3>1
    <3> QED BY <3>1, <3>2, <3>3, <3>4
  <2> QED BY <2>2, <2>3
<1>12. rest = new
  <2>1. Len(rest) = Len(new)
    BY <1>1, <1>2, <1>10
  <2> QED BY <1>2, <1>10, <1>11, <2>1, SeqEqual
<1> QED BY <1>9, <1>12 DEF old, new, x, rest

\* Taking back what was added, when all of it differs, leaves what was there.
LEMMA RollbackIs ==
    ASSUME NEW S, NEW items \in Seq(S), NEW sub \in Seq(S), NEW n \in 0..Len(items),
           \A a, b \in 1..n : a # b => items[a] # items[b]
    PROVE  Rollback(Linked(items, n) \o sub, items, n) = sub
<1> DEFINE list == Linked(items, n) \o sub
           pile(m) == Pile(items, n, sub, m)
           IsBack(g) == g = [idx \in 0..n |-> IF idx = 0 THEN list
                                              ELSE RemoveFirst(g[idx - 1], items[idx])]
           back == CHOOSE g : IsBack(g)
<1>1. n \in Nat /\ 0 \in 0..n /\ n \in 0..n
  BY LenProperties
<1>2. list = pile(0)
  BY PileAll
<1>3. \A m \in 1..n : RemoveFirst(pile(m - 1), items[m]) = pile(m)
  BY PileLess
<1>4. Rollback(list, items, n) = back[n]
  BY DEF Rollback
<1>5. pile(n) = sub
  BY <1>1, PileNone
<1> HIDE DEF list, pile
<1>6. \E g : IsBack(g)
  <2> DEFINE g == [m \in 0..n |-> pile(m)]
             v(m) == IF m = 0 THEN list ELSE RemoveFirst(g[m - 1], items[m])
  <2>1. ASSUME NEW m \in 0..n
        PROVE  pile(m) = v(m)
    <3>1. CASE m = 0
      BY <1>2, <3>1
    <3>2. CASE m # 0
      <4>1. m \in 1..n /\ m - 1 \in 0..n
        BY <1>1, <3>2
      <4>2. g[m - 1] = pile(m - 1)
        BY <4>1
      <4> QED BY <1>3, <3>2, <4>1, <4>2
    <3> QED BY <3>1, <3>2
  <2>2. g = [m \in 0..n |-> v(m)]
    BY <2>1
  <2> HIDE DEF g
  <2>3. IsBack(g)
    BY <2>2
  <2> QED BY <2>3
<1>7. IsBack(back)
  <2> HIDE DEF IsBack
  <2> QED BY <1>6
<1> HIDE DEF back
<1>8. \A m \in 0..n : back[m] = IF m = 0 THEN list ELSE RemoveFirst(back[m - 1], items[m])
  BY <1>7
<1> HIDE DEF IsBack
<1> DEFINE Good == {m \in Nat : m <= n => back[m] = pile(m)}
<1>9. 0 \in Good
  BY <1>1, <1>2, <1>8
<1>10. ASSUME NEW m \in Good
       PROVE  m + 1 \in Good
  <2> SUFFICES ASSUME m + 1 <= n
               PROVE  back[m + 1] = pile(m + 1)
    OBVIOUS
  <2>1. m \in Nat /\ m <= n /\ m + 1 \in 0..n /\ m + 1 \in 1..n /\ (m + 1) - 1 = m /\ m + 1 # 0
    BY <1>1
  <2>2. back[m] = pile(m)
    BY <2>1
  <2>3. back[m + 1] = RemoveFirst(back[m], items[m + 1])
    BY <1>8, <2>1
  <2>4. RemoveFirst(pile(m), items[m + 1]) = pile(m + 1)
    BY <1>3, <2>1
  <2> QED BY <2>2, <2>3, <2>4
<1>11. Good = Nat
  <2> HIDE DEF Good
  <2>1. Good \in SUBSET Nat
    BY DEF Good
  <2> QED BY <1>9, <1>10, <2>1, AllNat
<1>12. back[n] = pile(n)
  BY <1>1, <1>11
<1> QED BY <1>4, <1>5, <1>12 DEF list

-----------------------------------------------------------------------------
(* Calls that edit the subtypes *)

\* A service with another list of subtypes.
LEMMA OtherSub ==
    ASSUME TypeOK, NEW i \in 1..Len(services), NEW sub \in Seq(Subtypes)
    PROVE  /\ [services[i] EXCEPT !.sub = sub] \in Service
           /\ [services[i] EXCEPT !.sub = sub].at = services[i].at
           /\ [services[i] EXCEPT !.sub = sub].own = services[i].own
           /\ [services[i] EXCEPT !.sub = sub].host = services[i].host
           /\ [services[i] EXCEPT !.sub = sub].txt = services[i].txt
           /\ [services[i] EXCEPT !.sub = sub].sub = sub
           /\ sub = services[i].sub => [services[i] EXCEPT !.sub = sub] = services[i]
BY ServiceIs DEF Service

\* A call that gives the service at i other subtypes: it names the service when
\* it succeeds, and lost memory left no subtype that was not there.
LEMMA SubEdited ==
    ASSUME TypeOK, NEW i \in 1..Len(services), NEW sub \in Seq(Subtypes),
           services' = [services EXCEPT ![i] = [services[i] EXCEPT !.sub = sub]],
           NEW code \in {"ok", "no_mem", "invalid"}, NEW told \in SUBSET {services[i].at},
           Reports(code, told), lock' \in {"free", "lost"},
           code = "ok" => sub = services[i].sub \/ told # {},
           code = "no_mem" => ToSet(sub) \subseteq ToSet(services[i].sub)
    PROVE  Result
<1> DEFINE s == [services[i] EXCEPT !.sub = sub]
<1>1. /\ s \in Service /\ s.at = services[i].at /\ s.own = services[i].own
      /\ s.host = services[i].host /\ s.txt = services[i].txt /\ s.sub = sub
      /\ sub = services[i].sub => s = services[i]
  BY OtherSub
<1> HIDE DEF s
<1>2. services' = [services EXCEPT ![i] = s]
  BY DEF s
<1>3. last'.code = code /\ last'.told = told /\ last' \in Outcome
  <2>1. told \in SUBSET (1..MaxServices)
    BY ServiceIs
  <2> QED BY <2>1 DEF Reports, Outcome
<1>4. code = "ok" => s = services[i] \/ s.at \in told
  BY <1>1
<1>5. code = "no_mem" => Within(s, services[i])
  BY <1>1 DEF Within
<1>6. Edited
  BY <1>1, <1>2, <1>3, <1>4, <1>5 DEF Edited
<1> QED BY <1>3, <1>6 DEF Result

\* Wherever memory runs out before the first item that is there already.
LEMMA UndoneIs ==
    ASSUME NEW sub \in Seq(Subtypes), NEW items \in Seq(Subtypes), NEW j \in 1..Len(items) + 1,
           \A a, b \in 1..j - 1 : a # b => items[a] # items[b],
           NEW n \in 0..Min({j - 2, Len(items) - 1})
    PROVE  Rollback(Linked(items, n) \o sub, items, n) = sub
<1>1. Len(items) \in Nat
  BY LenProperties
<1>2. CASE j = 1
  <2>1. j - 2 = -1 /\ Len(items) - 1 \in -1..Len(items)
    BY <1>1, <1>2
  <2>2. Min({j - 2, Len(items) - 1}) = -1
    BY <1>1, <2>1, Z3 DEF Min
  <2> QED BY <2>2
<1>3. CASE j # 1
  <2> DEFINE most == {j - 2, Len(items) - 1}
  <2>1. most \in SUBSET Nat /\ most # {} /\ j - 2 \in most /\ Len(items) - 1 \in most
    BY <1>1, <1>3
  <2> HIDE DEF most
  <2>2. Min(most) <= j - 2 /\ Min(most) <= Len(items) - 1 /\ Min(most) \in Nat
    BY <2>1, MinIs
  <2>3. n \in 0..Min(most)
    BY DEF most
  <2>4. n \in 0..Len(items) /\ \A a \in 1..n : a \in 1..j - 1
    BY <1>1, <1>3, <2>2, <2>3
  <2> QED BY <2>4, RollbackIs
<1> QED BY <1>2, <1>3

LEMMA AddSubtypesResult ==
    ASSUME TypeOK, NEW i \in 1..Len(services), NEW sub \in Seq(Subtypes),
           NEW items \in SubtypeLists, NEW told \in SUBSET {services[i].at},
           ToSet(sub) \subseteq ToSet(services[i].sub), lock = "free",
           AddSubtypes(i, sub, items, told)
    PROVE  Result
<1> DEFINE j == FirstDouble(sub, items)
           new == Linked(items, j - 1) \o sub
<1>1. items \in Seq(Subtypes) /\ Len(items) \in Nat
  BY ListsAssumption, LenProperties
<1>2. j \in 1..Len(items) + 1 /\ \A a, b \in 1..j - 1 : a # b => items[a] # items[b]
  BY <1>1, DoubleIs
<1> HIDE DEF j
<1>3. new \in Seq(Subtypes)
  <2>1. j - 1 \in 0..Len(items)
    BY <1>1, <1>2
  <2>2. Linked(items, j - 1) \in Seq(Subtypes)
    BY <1>1, <2>1, LinkedIs
  <2> QED BY <2>2, ConcatProperties
<1> HIDE DEF new
<1>4. CASE Edit(i, [services[i] EXCEPT !.sub = new], "ok")
  <2> DEFINE all == {services[i].at}
  <2>1. Reports("ok", all) /\ all # {} /\ all \in SUBSET {services[i].at}
    BY <1>3, <1>4, OtherSub DEF Edit
  <2> HIDE DEF all
  <2>2. /\ services' = [services EXCEPT ![i] = [services[i] EXCEPT !.sub = new]]
        /\ lock' = lock
    BY <1>4 DEF Edit
  <2> QED BY <1>3, <2>1, <2>2, SubEdited
<1>5. CASE /\ services' = [services EXCEPT ![i] = [services[i] EXCEPT !.sub = new]]
           /\ Reports("invalid", told) /\ UNCHANGED lock
  BY <1>3, <1>5, SubEdited
<1>6. ASSUME NEW n \in 0..Min({j - 2, Len(items) - 1}),
             services' = [services EXCEPT ![i].sub = Rollback(Linked(items, n) \o sub, items, n)],
             Reports("no_mem", told), UNCHANGED lock
      PROVE  Result
  <2>1. Rollback(Linked(items, n) \o sub, items, n) = sub
    BY <1>1, <1>2, <1>6, UndoneIs
  <2>2. /\ services' = [services EXCEPT ![i] = [services[i] EXCEPT !.sub = sub]]
        /\ Reports("no_mem", told) /\ lock' = lock
    BY <1>6, <2>1
  <2> QED BY <2>2, SubEdited
<1> QED BY <1>4, <1>5, <1>6 DEF AddSubtypes, j, new

\* The step of mdns_service_subtype_add_multiple_items_for_host that reports
\* lost memory has changed nothing.
LEMMA SubtypesStay ==
    ASSUME TypeOK, SubtypesAdded, last'.code = "no_mem"
    PROVE  services' = services
<1>1. PICK q \in Queries, items \in SubtypeLists : SubtypeAdd(q, items)
  BY DEF SubtypesAdded
<1> DEFINE i == Find(q)
           sub == services[i].sub
           j == FirstDouble(sub, items)
<1>2. i # 0 /\ AddSubtypes(i, sub, items, {})
  BY <1>1 DEF SubtypeAdd
<1>3. i \in 1..Len(services)
  BY <1>2, FindIs DEF TypeOK
<1> HIDE DEF i
<1>4. sub \in Seq(Subtypes) /\ items \in Seq(Subtypes) /\ Len(items) \in Nat
  BY <1>3, ServiceIs, ListsAssumption, LenProperties DEF Service
<1>5. [services EXCEPT ![i].sub = sub] = services
  <2>1. services[i] \in Service /\ services \in Seq(Service)
    BY <1>3, ServiceIs DEF TypeOK
  <2>2. [services[i] EXCEPT !.sub = sub] = services[i]
    BY <2>1 DEF Service
  <2> HIDE DEF sub
  <2>3. [services EXCEPT ![i] = services[i]] = services
    BY <1>3, <2>1, LenProperties
  <2> QED BY <2>2, <2>3
<1> HIDE DEF sub
<1>6. j \in 1..Len(items) + 1 /\ \A a, b \in 1..j - 1 : a # b => items[a] # items[b]
  BY <1>4, DoubleIs
<1> HIDE DEF j
<1>7. PICK n \in 0..Min({j - 2, Len(items) - 1}) :
        services' = [services EXCEPT ![i].sub = Rollback(Linked(items, n) \o sub, items, n)]
  <2>1. last'.code # "ok" /\ last'.code # "invalid"
    OBVIOUS
  <2>2. \A told : ~Reports("ok", told) /\ ~Reports("invalid", told)
    BY <2>1 DEF Reports
  <2>3. \A s : ~Edit(i, s, "ok")
    BY <2>2 DEF Edit
  <2> QED BY <1>2, <2>2, <2>3, Zenon DEF AddSubtypes, j
<1>8. Rollback(Linked(items, n) \o sub, items, n) = sub
  BY <1>4, <1>6, <1>7, UndoneIs
<1> QED BY <1>5, <1>7, <1>8

LEMMA SubtypeAddResult ==
    ASSUME TypeOK, NEW q \in Queries, NEW items \in SubtypeLists, SubtypeAdd(q, items)
    PROVE  Result
<1> DEFINE i == Find(q)
<1>1. i # 0 /\ AddSubtypes(i, services[i].sub, items, {}) /\ lock = "free"
  BY DEF SubtypeAdd, Call
<1>2. i \in 1..Len(services)
  BY <1>1, FindIs DEF TypeOK
<1> HIDE DEF i
<1>3. services[i].sub \in Seq(Subtypes)
  BY <1>2, ServiceIs DEF Service
<1> QED BY <1>1, <1>2, <1>3, AddSubtypesResult

LEMMA SubtypeRemoveResult ==
    ASSUME TypeOK, NEW q \in Queries, NEW u, SubtypeRemove(q, u)
    PROVE  Result
<1> DEFINE i == Find(q)
           sub == services[i].sub
           rest == RemoveFirst(sub, u)
<1>1. i # 0 /\ lock = "free" /\ lock' = lock
  BY DEF SubtypeRemove, Call
<1>2. i \in 1..Len(services)
  BY <1>1, FindIs DEF TypeOK
<1>3. services' = [services EXCEPT ![i] = [services[i] EXCEPT !.sub = rest]]
  BY DEF SubtypeRemove
<1>4. PICK code \in {"ok", "no_mem"}, told \in {{services[i].at}, {}} :
        Reports(code, told) /\ (code = "ok" => told # {})
  BY DEF SubtypeRemove
<1> HIDE DEF i
<1>5. sub \in Seq(Subtypes)
  BY <1>2, ServiceIs DEF Service
<1> HIDE DEF sub
<1>6. rest \in Seq(Subtypes) /\ ToSet(rest) \subseteq ToSet(sub)
  <2>1. CASE \E k \in 1..Len(sub) : sub[k] = u
    <3> DEFINE I == {k \in 1..Len(sub) : sub[k] = u}
               p == SelectInSeq(sub, LAMBDA v : v = u)
    <3>1. p = IF I # {} THEN Min(I) ELSE 0
      BY DEF SelectInSeq
    <3>2. I # {} /\ I \in SUBSET Nat /\ I \subseteq 1..Len(sub)
      BY <2>1, LenProperties, <1>5
    <3>3. p \in 1..Len(sub)
      BY <3>1, <3>2, MinIs
    <3>4. rest = RemoveAt(sub, p)
      BY <2>1 DEF RemoveFirst
    <3> HIDE DEF p, rest
    <3>5. /\ rest \in Seq(Subtypes) /\ Len(rest) = Len(sub) - 1
          /\ \A k \in 1..Len(sub) - 1 : rest[k] = sub[IF k < p THEN k ELSE k + 1]
      BY <1>5, <3>3, <3>4, RemoveAtIs
    <3>6. /\ DOMAIN rest = 1..Len(sub) - 1 /\ DOMAIN sub = 1..Len(sub)
          /\ Len(sub) \in Nat
      BY <1>5, <3>5, LenProperties
    <3>7. \A k \in DOMAIN rest : \E m \in DOMAIN sub : rest[k] = sub[m]
      <4> TAKE k \in DOMAIN rest
      <4>1. (IF k < p THEN k ELSE k + 1) \in DOMAIN sub
        BY <3>3, <3>6
      <4> QED BY <3>5, <3>6, <4>1
    <3> QED BY <3>5, <3>7 DEF ToSet
  <2>2. CASE ~\E k \in 1..Len(sub) : sub[k] = u
    BY <1>5, <2>2 DEF RemoveFirst
  <2> QED BY <2>1, <2>2
<1> HIDE DEF rest
<1> QED BY <1>1, <1>2, <1>3, <1>4, <1>6, SubEdited DEF sub

LEMMA SubtypeUpdateResult ==
    ASSUME TypeOK, NEW q \in Queries, NEW items \in SubtypeLists, SubtypeUpdate(q, items)
    PROVE  Result
<1> DEFINE i == Find(q)
           bye == IF ToSet(services[i].sub) \subseteq ToSet(items) THEN {} ELSE {services[i].at}
<1>1. i # 0 /\ lock = "free"
  BY DEF SubtypeUpdate, Call
<1>2. i \in 1..Len(services)
  BY <1>1, FindIs DEF TypeOK
<1>3. <<>> \in Seq(Subtypes) /\ ToSet(<<>>) = {}
  BY EmptySeq DEF ToSet
<1>4. CASE AddSubtypes(i, <<>>, items, bye)
  <2> HIDE DEF i
  <2>1. bye \in SUBSET {services[i].at}
    OBVIOUS
  <2> HIDE DEF bye
  <2>2. ToSet(<<>>) \subseteq ToSet(services[i].sub)
    BY <1>3
  <2> DEFINE none == <<>>
  <2> HIDE DEF none
  <2>3. none \in Seq(Subtypes) /\ ToSet(none) \subseteq ToSet(services[i].sub)
    BY <1>3, <2>2 DEF none
  <2>4. AddSubtypes(i, none, items, bye)
    BY <1>4 DEF none
  <2> QED BY <1>1, <1>2, <2>1, <2>3, <2>4, AddSubtypesResult
<1>5. CASE /\ items = <<>> /\ services' = [services EXCEPT ![i].sub = <<>>]
           /\ Reports("ok", bye) /\ UNCHANGED lock
  <2> HIDE DEF i
  <2> DEFINE none == <<>>
  <2>1. services[i].sub \in Seq(Subtypes)
    BY <1>2, ServiceIs DEF Service
  <2>2. bye = {} => services[i].sub = none
    <3>1. bye = {} => ToSet(services[i].sub) = {}
      BY <1>3, <1>5
    <3>2. ToSet(services[i].sub) = {} => services[i].sub = <<>>
      <4> DEFINE sub == services[i].sub
      <4> HIDE DEF sub
      <4>1. sub \in Seq(Subtypes)
        BY <2>1 DEF sub
      <4>2. sub # <<>> => Len(sub) \in Nat \ {0} /\ DOMAIN sub = 1..Len(sub)
        BY <4>1, EmptySeq, LenProperties
      <4>3. sub # <<>> => sub[1] \in ToSet(sub)
        BY <4>2 DEF ToSet
      <4> QED BY <4>3 DEF sub
    <3> QED BY <3>1, <3>2
  <2>3. bye \in SUBSET {services[i].at}
    OBVIOUS
  <2>4. services' = [services EXCEPT ![i] = [services[i] EXCEPT !.sub = none]]
    BY <1>5
  <2>5. none \in Seq(Subtypes)
    BY <1>3
  <2> HIDE DEF none, bye
  <2> QED BY <1>1, <1>2, <1>5, <2>2, <2>3, <2>4, <2>5, SubEdited
<1> QED BY <1>4, <1>5 DEF SubtypeUpdate

\* Every call that edits the services has one of these results, and changes
\* nothing else.
LEMMA CallsResult ==
    ASSUME TypeOK, Calls
    PROVE  Result /\ UNCHANGED <<hosts, task>>
<1>1. CASE ServiceRemoveAll
  BY <1>1, ServiceRemoveAllResult DEF ServiceRemoveAll, Call
<1>2. ASSUME NEW q \in Queries, ServiceRemove(q)
      PROVE  Result /\ UNCHANGED <<hosts, task>>
  BY <1>2, ServiceRemoveResult DEF ServiceRemove, Call
<1>3. ASSUME NEW q \in Queries, NEW p \in Ports, PortSet(q, p)
      PROVE  Result /\ UNCHANGED <<hosts, task>>
  BY <1>3, PortSetResult DEF PortSet, Call
<1>4. ASSUME NEW q \in Queries, NEW p \in Ports, NEW txt \in TxtLists, ServiceAdd(q, p, txt)
      PROVE  Result /\ UNCHANGED <<hosts, task>>
  BY <1>4, ServiceAddResult DEF ServiceAdd, Call
<1>5. ASSUME NEW q \in Queries, NEW n \in Instances, InstanceNameSet(q, n)
      PROVE  Result /\ UNCHANGED <<hosts, task>>
  BY <1>5, InstanceNameSetResult DEF InstanceNameSet, Call
<1>6. ASSUME NEW q \in Queries, NEW txt \in TxtLists, TxtSet(q, txt)
      PROVE  Result /\ UNCHANGED <<hosts, task>>
  BY <1>6, TxtSetResult DEF TxtSet, Call
<1>7. ASSUME NEW q \in Queries, NEW txt \in TxtLists, NEW item \in ToSet(txt), TxtItemSet(q, item)
      PROVE  Result /\ UNCHANGED <<hosts, task>>
  <2>1. item \in Items
    BY DEF Items
  <2> QED BY <1>7, <2>1, TxtItemSetResult DEF TxtItemSet, Call
<1>8. ASSUME NEW q \in Queries, NEW key, TxtItemRemove(q, key)
      PROVE  Result /\ UNCHANGED <<hosts, task>>
  BY <1>8, TxtItemRemoveResult DEF TxtItemRemove, Call
<1>9. ASSUME NEW q \in Queries, NEW items \in SubtypeLists, SubtypeAdd(q, items)
      PROVE  Result /\ UNCHANGED <<hosts, task>>
  BY <1>9, SubtypeAddResult DEF SubtypeAdd, Call
<1>10. ASSUME NEW q \in Queries, NEW items \in SubtypeLists, SubtypeUpdate(q, items)
       PROVE  Result /\ UNCHANGED <<hosts, task>>
  BY <1>10, SubtypeUpdateResult DEF SubtypeUpdate, Call
<1>11. ASSUME NEW q \in Queries, NEW u, SubtypeRemove(q, u)
       PROVE  Result /\ UNCHANGED <<hosts, task>>
  BY <1>11, SubtypeRemoveResult DEF SubtypeRemove, Call
<1> QED
  BY <1>1, <1>2, <1>3, <1>4, <1>5, <1>6, <1>7, <1>8, <1>9, <1>10, <1>11 DEF Calls

\* A call leaves a table.
LEMMA ResultTable ==
    ASSUME TypeOK, Result
    PROVE  Table(services') /\ last' \in Outcome /\ lock' \in {"free", "lost"}
<1>1. Table(services)
  BY DEF TypeOK, Table
<1>2. ASSUME Edited PROVE Table(services')
  <2>1. PICK i \in 1..Len(services), s \in Service :
          services' = [services EXCEPT ![i] = s] /\ s.at = services[i].at
    BY <1>2 DEF Edited
  <2> QED BY <1>1, <2>1, TableEdited
<1>3. ASSUME Added PROVE Table(services')
  <2>1. Len(services) < MaxServices
    BY <1>3 DEF Added
  <2>2. PICK s \in Service :
          /\ services' = <<s>> \o services
          /\ s.at = Min((1..MaxServices) \ {r.at : r \in ToSet(services)})
    BY <1>3 DEF Added
  <2> QED BY <1>1, <2>1, <2>2, TableAdded
<1>4. ASSUME Removed PROVE Table(services')
  <2>1. PICK i \in 1..Len(services) : services' = RemoveAt(services, i)
    BY <1>4 DEF Removed
  <2> QED BY <1>1, <2>1, TableWithout
<1>5. ASSUME Cleared PROVE Table(services')
  BY <1>5, EmptySeq, NumbersAssumption DEF Cleared, Table
<1> QED BY <1>1, <1>2, <1>3, <1>4, <1>5 DEF Result

-----------------------------------------------------------------------------
(* What the service task and a conflict do to the table *)

\* Remapping gives the services with the device's name the new one.
LEMMA RemapIs ==
    ASSUME TypeOK, NEW new \in Names
    PROVE  /\ Table(Remap(new)) /\ Len(Remap(new)) = Len(services)
           /\ \A i \in 1..Len(services) :
                Remap(new)[i] = IF services[i].host = host THEN [services[i] EXCEPT !.host = new]
                                ELSE services[i]
<1>1. /\ DOMAIN services = 1..Len(services) /\ Len(services) \in Nat
      /\ \A i \in 1..Len(services) : services[i] \in Service
  BY LenProperties, ServiceIs DEF TypeOK
<1> DEFINE u == Remap(new)
<1>2. \A i \in 1..Len(services) :
        u[i] = IF services[i].host = host THEN [services[i] EXCEPT !.host = new] ELSE services[i]
  BY <1>1 DEF Remap, Selfhosted
<1>3. \A i \in 1..Len(services) : u[i] \in Service /\ u[i].at = services[i].at
  BY <1>1, <1>2, ZenonT(30) DEF Service
<1>4. u \in Seq(Service) /\ Len(u) = Len(services)
  <2>1. u = [i \in 1..Len(services) |-> u[i]]
    BY <1>1 DEF Remap
  <2> HIDE DEF u
  <2> QED BY <1>1, <1>3, <2>1
<1> HIDE DEF u
<1> DEFINE old == [i \in 1..Len(u) |-> i]
<1>5. /\ old \in [1..Len(u) -> 1..Len(services)]
      /\ \A i, j \in 1..Len(u) : old[i] = old[j] => i = j
      /\ \A i \in 1..Len(u) : u[i].at = services[old[i]].at
  BY <1>3, <1>4
<1> HIDE DEF old
<1>6. Table(services)
  BY DEF TypeOK, Table
<1>7. Table(u)
  BY <1>4, <1>5, <1>6, TableOfOld
<1> QED BY <1>2, <1>4, <1>7 DEF u

\* When a delegated host is removed every service that stays was there, and
\* every one of another host stays.
LEMMA DelegateRemoveIs ==
    ASSUME TypeOK, ExecuteDelegateRemove
    PROVE  /\ Table(services')
           /\ \A j \in 1..Len(services') : \E i \in 1..Len(services) :
                services'[j] = services[i] /\ services[i].host # cur.name
           /\ \A i \in 1..Len(services) : services[i].host # cur.name =>
                \E j \in 1..Len(services') : services'[j] = services[i]
           /\ last'.code = "ok"
           /\ \A i \in 1..Len(services) : services[i].host = cur.name =>
                services[i].at \in last'.told
           /\ last' \in Outcome
<1>1. /\ DOMAIN services = 1..Len(services) /\ Len(services) \in Nat
      /\ \A i \in 1..Len(services) : services[i] \in Service
  BY LenProperties, ServiceIs DEF TypeOK
<1> DEFINE stay == {i \in DOMAIN services : services[i].host # cur.name}
           n == Cardinality(stay)
<1>2. IsFiniteSet(stay) /\ n \in Nat
  <2>1. IsFiniteSet(1..Len(services)) /\ stay \subseteq 1..Len(services)
    BY <1>1, IntervalIs
  <2> QED BY <2>1, FS_Subset, FS_CardinalityType
<1>3. PICK old \in [1..n -> stay] :
         /\ \A i, j \in DOMAIN old : i < j => old[i] < old[j]
         /\ services' = [i \in DOMAIN old |-> services[old[i]]]
  BY DEF ExecuteDelegateRemove
<1>4. last' = [code |-> "ok", told |-> {services[i].at : i \in DOMAIN services \ stay}]
  BY DEF ExecuteDelegateRemove, Reports
<1> DEFINE u == [i \in 1..n |-> services[old[i]]]
<1>5. services' = u /\ DOMAIN old = 1..n
  BY <1>3
<1>6. \A j \in 1..n : old[j] \in stay /\ old[j] \in 1..Len(services)
  BY <1>1
<1>7. \A i, j \in 1..n : old[i] = old[j] => i = j
  <2> SUFFICES ASSUME NEW i \in 1..n, NEW j \in 1..n, i < j \/ j < i
               PROVE  old[i] # old[j]
    BY <1>2
  <2>1. old[i] \in Nat /\ old[j] \in Nat
    BY <1>6
  <2>2. old[i] < old[j] \/ old[j] < old[i]
    BY <1>3, <1>5
  <2> QED BY <2>1, <2>2
<1>8. old \in Surjection(1..n, stay)
  <2>1. old \in Injection(1..n, stay)
    BY <1>7 DEF Injection, IsInjective
  <2>2. Cardinality(1..n) = Cardinality(stay)
    BY <1>2, IntervalIs
  <2> QED BY <1>2, <2>1, <2>2, FS_Injection
<1> HIDE DEF n
<1>9. u \in Seq(Service) /\ Len(u) = n /\ \A j \in 1..n : u[j] = services[old[j]]
  BY <1>1, <1>2, <1>6
<1>10. old \in [1..Len(u) -> 1..Len(services)]
  BY <1>6, <1>9
<1>11. Table(services)
  BY DEF TypeOK, Table
<1> HIDE DEF u
<1>12. Table(u)
  BY <1>7, <1>9, <1>10, <1>11, TableOfOld
<1>13. \A i \in stay : \E j \in 1..n : old[j] = i
  BY <1>8 DEF Surjection
<1>14. /\ last'.code = "ok" /\ last'.told = {services[i].at : i \in DOMAIN services \ stay}
  BY <1>4
<1>15. last' \in Outcome
  <2>1. last'.told \subseteq 1..MaxServices
    BY <1>1, <1>14, ServiceIs
  <2> QED BY <1>4, <1>14, <2>1 DEF Outcome
<1>16. \A j \in 1..Len(services') : \E i \in 1..Len(services) :
          services'[j] = services[i] /\ services[i].host # cur.name
  BY <1>5, <1>6, <1>9
<1>17. \A i \in 1..Len(services) : services[i].host # cur.name =>
          \E j \in 1..Len(services') : services'[j] = services[i]
  BY <1>1, <1>5, <1>9, <1>13
<1>18. \A i \in 1..Len(services) : services[i].host = cur.name => services[i].at \in last'.told
  BY <1>1, <1>14
<1> QED BY <1>5, <1>12, <1>14, <1>15, <1>16, <1>17, <1>18

\* The action at the head of the queue, and what follows it.
LEMMA CurIs ==
    ASSUME TypeOK, cur.type # "none"
    PROVE  /\ actq # <<>> /\ cur = Head(actq) /\ cur \in Actions
           /\ Tail(actq) \in Seq(Actions) /\ Len(Tail(actq)) <= QueueLen
<1>1. actq # <<>> /\ cur = Head(actq) /\ actq \in Seq(Actions)
  BY DEF cur, NoAction, TypeOK
<1>2. Len(actq) \in Nat /\ Len(actq) <= QueueLen
  BY LenProperties DEF TypeOK
<1>3. Head(actq) \in Actions /\ Tail(actq) \in Seq(Actions) /\ Len(Tail(actq)) = Len(actq) - 1
  BY <1>1, HeadTailProperties
<1> QED BY <1>1, <1>2, <1>3, NumbersAssumption

\* The addresses of the services without an instance name.
LEMMA NoInstanceIs ==
    ASSUME TypeOK
    PROVE  /\ NoInstance \in SUBSET (1..MaxServices)
           /\ \A i \in 1..Len(services) :
                services[i].inst = None => services[i].at \in NoInstance
<1>1. DOMAIN services = 1..Len(services)
  BY LenProperties DEF TypeOK
<1> QED BY <1>1, ServiceIs DEF NoInstance, ToSet

\* A conflict about a service with an instance name edits that service.
LEMMA InstanceConflictEdits ==
    ASSUME TypeOK, NEW i \in 1..Len(services), services[i].inst # None,
           services' = [services EXCEPT ![i].inst = Mangled[services[i].inst]],
           Reports("ok", {services[i].at})
    PROVE  Edited /\ last' \in Outcome
<1> DEFINE s == [services[i] EXCEPT !.inst = Mangled[services[i].inst]]
<1>1. services[i] \in Service /\ services[i].at \in 1..MaxServices
  BY ServiceIs
<1>2. Mangled[services[i].inst] \in Instances
  BY <1>1, NamesAssumption DEF Service
<1>3. /\ s \in Service /\ s.at = services[i].at
      /\ s.own = services[i].own /\ s.host = services[i].host
  BY <1>1, <1>2 DEF Service
<1>4. services' = [services EXCEPT ![i] = s]
  OBVIOUS
<1> HIDE DEF s
<1>5. last'.code = "ok" /\ services[i].at \in last'.told /\ last' \in Outcome
  BY <1>1 DEF Reports, Outcome
<1> QED BY <1>3, <1>4, <1>5 DEF Edited

-----------------------------------------------------------------------------
(* The type invariant *)

HostsOK ==
    /\ host \in Names \cup {None} /\ inst \in Instances \cup {None}
    /\ DOMAIN delegated \subseteq Delegates /\ delegated \in [DOMAIN delegated -> BOOLEAN]
TaskOK ==
    /\ actq \in Seq(Actions) /\ Len(actq) <= QueueLen
    /\ sema \in BOOLEAN /\ caller \in [Callers -> Actions \cup {Idle}]
TableOK == Table(services) /\ last \in Outcome /\ lock \in {"free", "lost"}

LEMMA TypeParts == TypeOK <=> HostsOK /\ TaskOK /\ TableOK
BY DEF TypeOK, HostsOK, TaskOK, TableOK, Table, Outcome

LEMMA InitType == Init => TypeOK
<1> SUFFICES ASSUME Init PROVE TypeOK
  OBVIOUS
<1>1. HostsOK
  BY DEF Init, HostsOK
<1>2. TaskOK
  <2>1. actq \in Seq(Actions) /\ Len(actq) <= QueueLen
    BY EmptySeq, NumbersAssumption DEF Init
  <2>2. sema \in BOOLEAN
    BY DEF Init
  <2>3. caller \in [Callers -> Actions \cup {Idle}]
    BY DEF Init
  <2> QED BY <2>1, <2>2, <2>3 DEF TaskOK
<1>3. TableOK
  BY EmptySeq, NumbersAssumption DEF Init, TableOK, Table, Outcome
<1> QED BY <1>1, <1>2, <1>3, TypeParts

\* A call that posts an action puts it at the end of the queue, if there is room.
LEMMA PostIs ==
    ASSUME TypeOK, NEW a \in Actions, Post(a)
    PROVE  /\ actq' \in Seq(Actions) /\ Len(actq') <= QueueLen
           /\ UNCHANGED <<host, inst, delegated, services, sema, lock, last>>
<1>1. actq \in Seq(Actions) /\ Len(actq) \in Nat
  BY LenProperties DEF TypeOK
<1>2. Len(Append(actq, a)) = Len(actq) + 1 /\ Append(actq, a) \in Seq(Actions)
  BY <1>1
<1> QED BY <1>1, <1>2, NumbersAssumption DEF Post, hosts

LEMMA PostsType ==
    ASSUME TypeOK, Posts
    PROVE  TypeOK'
<1>1. /\ HostsOK /\ TaskOK /\ TableOK
  BY TypeParts
<1>2. ASSUME NEW a \in Actions, Post(a), caller' = caller
      PROVE  TypeOK'
  <2>1. HostsOK'
    BY <1>1, <1>2, PostIs DEF HostsOK
  <2>2. TaskOK'
    BY <1>1, <1>2, PostIs DEF TaskOK
  <2>3. TableOK'
    BY <1>1, <1>2, PostIs DEF TableOK
  <2> QED BY <2>1, <2>2, <2>3, TypeParts, PTL
<1>3. ASSUME NEW a \in Actions, NEW c \in Callers, PostAndWait(c, a)
      PROVE  TypeOK'
  <2>1. Post(a) /\ caller' = [caller EXCEPT ![c] = a]
    BY <1>3 DEF PostAndWait
  <2>2. HostsOK'
    BY <1>1, <2>1, PostIs DEF HostsOK
  <2>3. TaskOK'
    BY <1>1, <2>1, PostIs DEF TaskOK
  <2>4. TableOK'
    BY <1>1, <2>1, PostIs DEF TableOK
  <2> QED BY <2>2, <2>3, <2>4, TypeParts, PTL
<1>4. CASE \E n \in Instances : InstanceSet(n)
  BY <1>2, <1>4 DEF InstanceSet, Actions
<1>5. CASE \E n \in Delegates : DelegateRemove(n)
  BY <1>2, <1>5 DEF DelegateRemove, Actions
<1>6. CASE \E n \in Delegates, a \in BOOLEAN : DelegateSetAddress(n, a)
  BY <1>2, <1>6 DEF DelegateSetAddress, Actions
<1>7. CASE \E c \in Callers, n \in Names : HostnameSet(c, n)
  BY <1>3, <1>7 DEF HostnameSet, Actions
<1>8. CASE \E c \in Callers, n \in Delegates, a \in BOOLEAN : DelegateAdd(c, n, a)
  BY <1>3, <1>8 DEF DelegateAdd, Actions
<1> QED BY <1>4, <1>5, <1>6, <1>7, <1>8 DEF Posts

\* What the five actions leave of the queue and of the callers.
LEMMA ExecutedTask ==
    ASSUME TypeOK, Executed, cur.type # "none", sema' \in BOOLEAN
    PROVE  TaskOK' /\ lock' \in {"free", "lost"}
BY CurIs DEF Executed, TypeOK, TaskOK

LEMMA ExecuteType ==
    ASSUME TypeOK, Execute
    PROVE  TypeOK'
<1>1. HostsOK /\ TaskOK /\ TableOK
  BY TypeParts
<1>2. CASE ExecuteHostnameSet
  <2>1. cur.type = "hostname_set" /\ Executed
    BY <1>2 DEF ExecuteHostnameSet
  <2>2. cur \in Actions
    BY <2>1, CurIs
  <2>3. cur.name \in Names
    BY <2>1, <2>2 DEF Actions
  <2>4. HostsOK'
    BY <1>1, <1>2, <2>3 DEF ExecuteHostnameSet, HostsOK
  <2>5. TaskOK' /\ lock' \in {"free", "lost"}
    BY <1>2, <2>1, ExecutedTask DEF ExecuteHostnameSet
  <2>6. services' = Remap(cur.name) /\ Reports("ok", At)
    BY <1>2 DEF ExecuteHostnameSet
  <2>7. Table(services')
    BY <2>3, <2>6, RemapIs
  <2>8. last' \in Outcome
    BY <2>6, AtIs DEF Reports, Outcome
  <2>9. TableOK'
    BY <2>5, <2>7, <2>8 DEF TableOK
  <2> QED BY <2>4, <2>5, <2>9, TypeParts, PTL
<1>3. CASE ExecuteInstanceSet
  <2>1. cur.type = "instance_set" /\ Executed /\ sema' = sema /\ services' = services
    BY <1>3 DEF ExecuteInstanceSet
  <2>2. cur \in Actions
    BY <2>1, CurIs
  <2>3. cur.name \in Instances
    BY <2>1, <2>2 DEF Actions
  <2>4. HostsOK'
    BY <1>1, <1>3, <2>3 DEF ExecuteInstanceSet, HostsOK
  <2>5. TaskOK' /\ lock' \in {"free", "lost"}
    BY <1>1, <2>1, ExecutedTask DEF TaskOK
  <2>6. last' \in Outcome
    BY <1>3, NoInstanceIs DEF ExecuteInstanceSet, Reports, Outcome
  <2>7. TableOK'
    BY <1>1, <2>1, <2>5, <2>6 DEF TableOK
  <2> QED BY <2>4, <2>5, <2>7, TypeParts, PTL
<1>4. CASE ExecuteDelegateAdd
  <2>1. cur.type = "delegate_add" /\ Executed /\ sema' \in BOOLEAN /\ services' = services
    BY <1>4 DEF ExecuteDelegateAdd
  <2>2. cur \in Actions
    BY <2>1, CurIs
  <2>3. cur.name \in Delegates /\ cur.addr \in BOOLEAN
    BY <2>1, <2>2 DEF Actions
  <2>4. HostsOK'
    <3>1. CASE delegated' = delegated
      BY <1>1, <1>4, <3>1 DEF ExecuteDelegateAdd, HostsOK
    <3>2. CASE delegated' = [n \in DOMAIN delegated \cup {cur.name} |->
                               IF n = cur.name THEN cur.addr ELSE delegated[n]]
      BY <1>1, <1>4, <2>3, <3>2 DEF ExecuteDelegateAdd, HostsOK
    <3> QED BY <1>4, <3>1, <3>2 DEF ExecuteDelegateAdd
  <2>5. TaskOK' /\ lock' \in {"free", "lost"}
    BY <2>1, ExecutedTask
  <2>6. last' \in Outcome
    BY <1>4 DEF ExecuteDelegateAdd, Reports, Outcome
  <2>7. TableOK'
    BY <1>1, <2>1, <2>5, <2>6 DEF TableOK
  <2> QED BY <2>4, <2>5, <2>7, TypeParts, PTL
<1>5. CASE ExecuteDelegateSetAddr
  <2>1. cur.type = "delegate_set_addr" /\ Executed /\ sema' = sema /\ services' = services
    BY <1>5 DEF ExecuteDelegateSetAddr, SemaphoreAfterSetAddr
  <2>2. cur \in Actions
    BY <2>1, CurIs
  <2>3. cur.addr \in BOOLEAN
    BY <2>1, <2>2 DEF Actions
  <2>4. HostsOK'
    BY <1>1, <1>5, <2>3 DEF ExecuteDelegateSetAddr, HostsOK
  <2>5. TaskOK' /\ lock' \in {"free", "lost"}
    BY <1>1, <2>1, ExecutedTask DEF TaskOK
  <2>6. last' \in Outcome
    BY <1>5 DEF ExecuteDelegateSetAddr, Reports, Outcome
  <2>7. TableOK'
    BY <1>1, <2>1, <2>5, <2>6 DEF TableOK
  <2> QED BY <2>4, <2>5, <2>7, TypeParts, PTL
<1>6. CASE ExecuteDelegateRemove
  <2>1. cur.type = "delegate_remove" /\ Executed /\ sema' = sema
    BY <1>6 DEF ExecuteDelegateRemove
  <2>2. HostsOK'
    BY <1>1, <1>6 DEF ExecuteDelegateRemove, HostsOK
  <2>3. TaskOK' /\ lock' \in {"free", "lost"}
    BY <1>1, <2>1, ExecutedTask DEF TaskOK
  <2>4. TableOK'
    BY <1>6, <2>3, DelegateRemoveIs DEF TableOK
  <2> QED BY <2>2, <2>3, <2>4, TypeParts, PTL
<1> QED BY <1>2, <1>3, <1>4, <1>5, <1>6 DEF Execute

\* A conflict renames the device, its default instance or one service.
LEMMA ConflictIs ==
    ASSUME TypeOK, Conflict
    PROVE  /\ host \in Names /\ UNCHANGED <<delegated, task, lock>>
           /\ last' \in Outcome /\ last'.code = "ok"
           /\ \/ /\ host' = Mangled[host] /\ services' = Remap(Mangled[host])
                 /\ last'.told = At /\ inst' = inst
              \/ /\ inst \in Instances /\ inst' = Mangled[inst]
                 /\ last'.told = NoInstance /\ UNCHANGED <<host, services>>
              \/ Edited /\ UNCHANGED <<host, inst>>
<1>1. /\ host \in Names /\ UNCHANGED <<delegated, task, lock>>
      /\ HostConflict \/ \E i \in DOMAIN services : ServiceConflict(i)
  BY DEF Conflict, TypeOK
<1>2. CASE HostConflict
  BY <1>1, <1>2, AtIs DEF HostConflict, Reports, Outcome
<1>3. ASSUME NEW i \in DOMAIN services, ServiceConflict(i), services[i].inst # None
      PROVE  Edited /\ last' \in Outcome /\ last'.code = "ok" /\ UNCHANGED <<host, inst>>
  <2>1. i \in 1..Len(services)
    BY LenProperties DEF TypeOK
  <2>2. /\ services' = [services EXCEPT ![i].inst = Mangled[services[i].inst]]
        /\ Reports("ok", {services[i].at}) /\ UNCHANGED <<host, inst>>
    BY <1>3 DEF ServiceConflict
  <2> QED BY <1>3, <2>1, <2>2, InstanceConflictEdits DEF Reports
<1>4. ASSUME NEW i \in DOMAIN services, ServiceConflict(i), services[i].inst = None,
             inst # None
      PROVE  /\ inst \in Instances /\ inst' = Mangled[inst] /\ last'.told = NoInstance
             /\ last' \in Outcome /\ last'.code = "ok" /\ UNCHANGED <<host, services>>
  BY <1>4, NoInstanceIs DEF ServiceConflict, Reports, Outcome, TypeOK
<1>5. ASSUME NEW i \in DOMAIN services, ServiceConflict(i), services[i].inst = None,
             inst = None
      PROVE  HostConflict
  BY <1>5 DEF ServiceConflict
<1> QED BY <1>1, <1>2, <1>3, <1>4, <1>5

LEMMA ConflictType ==
    ASSUME TypeOK, Conflict
    PROVE  TypeOK'
<1>1. HostsOK /\ TaskOK /\ TableOK /\ lock' \in {"free", "lost"} /\ last' \in Outcome
  BY ConflictIs, TypeParts DEF TypeOK
<1>2. TaskOK'
  BY <1>1, ConflictIs DEF TaskOK, task
<1>3. CASE host' = Mangled[host] /\ services' = Remap(Mangled[host]) /\ inst' = inst
  <2>1. Mangled[host] \in Names
    BY ConflictIs, NamesAssumption
  <2>2. HostsOK'
    BY <1>1, <1>3, <2>1, ConflictIs DEF HostsOK
  <2>3. TableOK'
    BY <1>1, <1>3, <2>1, RemapIs DEF TableOK
  <2> QED BY <1>2, <2>2, <2>3, TypeParts, PTL
<1>4. CASE inst \in Instances /\ inst' = Mangled[inst] /\ UNCHANGED <<host, services>>
  <2>1. Mangled[inst] \in Instances
    BY <1>4, NamesAssumption
  <2>2. HostsOK'
    BY <1>1, <1>4, <2>1, ConflictIs DEF HostsOK
  <2>3. TableOK'
    BY <1>1, <1>4 DEF TableOK
  <2> QED BY <1>2, <2>2, <2>3, TypeParts, PTL
<1>5. CASE Edited /\ UNCHANGED <<host, inst>>
  <2>1. HostsOK'
    BY <1>1, <1>5, ConflictIs DEF HostsOK
  <2>2. Result
    BY <1>1, <1>5 DEF Result
  <2>3. TableOK'
    BY <1>1, <2>2, ResultTable DEF TableOK
  <2> QED BY <1>2, <2>1, <2>3, TypeParts, PTL
<1> QED BY <1>3, <1>4, <1>5, ConflictIs

LEMMA NextType ==
    ASSUME TypeOK, [Next]_vars
    PROVE  TypeOK'
<1>1. HostsOK /\ TaskOK /\ TableOK
  BY TypeParts
<1>2. CASE Calls
  <2>1. Result /\ UNCHANGED <<hosts, task>>
    BY <1>2, CallsResult
  <2>2. HostsOK'
    BY <1>1, <2>1 DEF HostsOK, hosts
  <2>3. TaskOK'
    BY <1>1, <2>1 DEF TaskOK, task
  <2>4. TableOK'
    BY <2>1, ResultTable DEF TableOK
  <2> QED BY <2>2, <2>3, <2>4, TypeParts, PTL
<1>3. CASE Posts
  BY <1>3, PostsType
<1>4. ASSUME NEW c \in Callers, WaitEnds(c)
      PROVE  TypeOK'
  <2>1. HostsOK'
    BY <1>1, <1>4 DEF WaitEnds, HostsOK, hosts
  <2>2. TaskOK'
    BY <1>1, <1>4 DEF WaitEnds, TaskOK
  <2>3. TableOK'
    BY <1>1, <1>4 DEF WaitEnds, TableOK
  <2> QED BY <2>1, <2>2, <2>3, TypeParts, PTL
<1>5. CASE Execute
  BY <1>5, ExecuteType
<1>6. CASE Conflict
  BY <1>6, ConflictType
<1>7. CASE UNCHANGED vars
  <2>1. HostsOK' /\ TaskOK' /\ TableOK'
    BY <1>1, <1>7 DEF vars, HostsOK, TaskOK, TableOK
  <2> QED BY <2>1, TypeParts, PTL
<1> QED BY <1>2, <1>3, <1>4, <1>5, <1>6, <1>7 DEF Next

\* Whatever is called, in whatever order, the table stays within its size, its
\* services at addresses of their own, and the queue within its length
\* (mdns_responder.c, mdns_priv_queue_action).
THEOREM TypeCorrect == Spec => []TypeOK
<1>1. Init => TypeOK
  BY InitType
<1>2. TypeOK /\ [Next]_vars => TypeOK'
  BY NextType
<1> QED BY <1>1, <1>2, PTL DEF Spec

-----------------------------------------------------------------------------
(* The services of the device follow its name *)

OwnAt == \A i \in 1..Len(services) : services[i].own => services[i].host = host

LEMMA OwnByPosition ==
    ASSUME TypeOK
    PROVE  OwnServicesFollow <=> OwnAt
<1>1. DOMAIN services = 1..Len(services)
  BY LenProperties DEF TypeOK
<1> QED BY <1>1 DEF OwnServicesFollow, OwnAt, ToSet

\* After a call, while the device keeps its name.
LEMMA OwnAfterCall ==
    ASSUME TypeOK, OwnAt, Result, host' = host
    PROVE  OwnAt'
<1> SUFFICES ASSUME NEW j \in 1..Len(services'), services'[j].own
             PROVE  services'[j].host = host
  BY DEF OwnAt
<1>1. services \in Seq(Service) /\ Len(services) \in Nat
  BY LenProperties DEF TypeOK
<1>2. CASE services' = services
  BY <1>2 DEF OwnAt
<1>3. CASE Edited
  <2>1. PICK i \in 1..Len(services), s \in Service :
          /\ services' = [services EXCEPT ![i] = s]
          /\ s.own = services[i].own /\ s.host = services[i].host
    BY <1>3 DEF Edited
  <2>2. /\ Len(services') = Len(services)
        /\ \A k \in 1..Len(services) : services'[k] = IF k = i THEN s ELSE services[k]
    BY <1>1, <2>1, ExceptSeq
  <2> QED BY <2>1, <2>2 DEF OwnAt
<1>4. CASE Added
  <2>1. PICK s \in Service :
          services' = <<s>> \o services /\ (s.own => s.host = host)
    BY <1>4 DEF Added
  <2>2. /\ Len(services') = Len(services) + 1
        /\ \A k \in 1..Len(services) + 1 : services'[k] = IF k = 1 THEN s ELSE services[k - 1]
    BY <1>1, <2>1, InFrontIs
  <2>3. CASE j = 1
    BY <2>1, <2>2, <2>3
  <2>4. CASE j # 1
    <3>1. j - 1 \in 1..Len(services) /\ services'[j] = services[j - 1]
      BY <1>1, <2>2, <2>4
    <3> QED BY <3>1 DEF OwnAt
  <2> QED BY <2>3, <2>4
<1>5. CASE Removed
  <2>1. PICK i \in 1..Len(services) : services' = RemoveAt(services, i)
    BY <1>5 DEF Removed
  <2>2. /\ Len(services') = Len(services) - 1
        /\ \A k \in 1..Len(services) - 1 : services'[k] = services[IF k < i THEN k ELSE k + 1]
    BY <1>1, <2>1, RemoveAtIs
  <2>3. (IF j < i THEN j ELSE j + 1) \in 1..Len(services)
    BY <1>1, <2>2
  <2> QED BY <2>2, <2>3 DEF OwnAt
<1>6. CASE Cleared
  BY <1>6 DEF Cleared
<1> QED BY <1>2, <1>3, <1>4, <1>5, <1>6 DEF Result

\* After the device was given the name new.
LEMMA OwnAfterRemap ==
    ASSUME TypeOK, OwnAt, NEW new \in Names, services' = Remap(new), host' = new
    PROVE  OwnAt'
<1> SUFFICES ASSUME NEW j \in 1..Len(services'), services'[j].own
             PROVE  services'[j].host = new
  BY DEF OwnAt
<1>1. /\ j \in 1..Len(services)
      /\ services'[j] = IF services[j].host = host THEN [services[j] EXCEPT !.host = new]
                        ELSE services[j]
  BY RemapIs
<1>2. services[j] \in Service
  BY <1>1, ServiceIs
<1>3. CASE services[j].host = host
  BY <1>1, <1>2, <1>3 DEF Service
<1>4. CASE services[j].host # host
  BY <1>1, <1>4 DEF OwnAt
<1> QED BY <1>3, <1>4

LEMMA NextOwn ==
    ASSUME TypeOK, OwnAt, [Next]_vars
    PROVE  OwnAt'
<1>0. ASSUME services' = services, host' = host
      PROVE  OwnAt'
  BY <1>0 DEF OwnAt
<1>1. CASE Calls
  BY <1>1, CallsResult, OwnAfterCall DEF hosts
<1>2. CASE Posts
  BY <1>0, <1>2 DEF Posts, InstanceSet, DelegateRemove, DelegateSetAddress, HostnameSet,
                    DelegateAdd, PostAndWait, Post, hosts
<1>3. ASSUME NEW c \in Callers, WaitEnds(c)
      PROVE  OwnAt'
  BY <1>0, <1>3 DEF WaitEnds, hosts
<1>4. CASE ExecuteHostnameSet
  <2>1. cur.type = "hostname_set" /\ host' = cur.name /\ services' = Remap(cur.name)
    BY <1>4 DEF ExecuteHostnameSet
  <2>2. cur.name \in Names
    BY <2>1, CurIs DEF Actions
  <2> QED BY <2>1, <2>2, OwnAfterRemap
<1>5. CASE ExecuteInstanceSet \/ ExecuteDelegateAdd \/ ExecuteDelegateSetAddr
  BY <1>0, <1>5 DEF ExecuteInstanceSet, ExecuteDelegateAdd, ExecuteDelegateSetAddr
<1>6. CASE ExecuteDelegateRemove
  <2>1. host' = host
    BY <1>6 DEF ExecuteDelegateRemove
  <2>2. \A j \in 1..Len(services') : \E i \in 1..Len(services) : services'[j] = services[i]
    BY <1>6, DelegateRemoveIs
  <2> QED BY <2>1, <2>2 DEF OwnAt
<1>7. CASE Conflict
  <2>1. CASE host' = Mangled[host] /\ services' = Remap(Mangled[host])
    <3>1. Mangled[host] \in Names
      BY <1>7, ConflictIs, NamesAssumption
    <3> QED BY <2>1, <3>1, OwnAfterRemap
  <2>2. CASE UNCHANGED <<host, services>>
    BY <1>0, <2>2
  <2>3. CASE Edited /\ UNCHANGED <<host, inst>>
    <3>1. Result
      BY <1>7, <2>3, ConflictIs DEF Result, TypeOK
    <3> QED BY <2>3, <3>1, OwnAfterCall
  <2> QED BY <1>7, <2>1, <2>2, <2>3, ConflictIs
<1>8. CASE UNCHANGED vars
  BY <1>0, <1>8 DEF vars
<1> QED BY <1>1, <1>2, <1>3, <1>4, <1>5, <1>6, <1>7, <1>8 DEF Next, Execute

\* A service added without a hostname carries the name the device has now, after
\* any number of renamings by calls and conflicts and beside any delegated
\* hosts, also one of the device's own name (mdns_priv_remap_self_service_hostname,
\* delegate_hostname_remove).
THEOREM OwnTheorem == Spec => []OwnServicesFollow
<1>1. Init => OwnAt
  BY DEF Init, OwnAt
<1>2. TypeOK /\ OwnAt /\ [Next]_vars => OwnAt'
  BY NextOwn
<1>3. TypeOK /\ OwnAt => OwnServicesFollow
  BY OwnByPosition
<1> QED BY <1>1, <1>2, <1>3, TypeCorrect, PTL DEF Spec

-----------------------------------------------------------------------------
(* What a call leaves when memory runs out, and what the network is told *)

\* The steps that are not calls report success or nothing new.
LEMMA OtherSteps ==
    ASSUME TypeOK, [Next]_vars, ~Calls
    PROVE  \/ UNCHANGED <<host, inst, services>>
           \/ last'.code = "ok"
<1>1. CASE Posts
  BY <1>1 DEF Posts, InstanceSet, DelegateRemove, DelegateSetAddress, HostnameSet,
              DelegateAdd, PostAndWait, Post, hosts
<1>2. ASSUME NEW c \in Callers, WaitEnds(c)
      PROVE  UNCHANGED <<host, inst, services>>
  BY <1>2 DEF WaitEnds, hosts
<1>3. CASE Execute
  BY <1>3 DEF Execute, ExecuteHostnameSet, ExecuteInstanceSet, ExecuteDelegateAdd,
              ExecuteDelegateSetAddr, ExecuteDelegateRemove, Reports
<1>4. CASE Conflict
  BY <1>4, ConflictIs
<1>5. CASE UNCHANGED vars
  BY <1>5 DEF vars
<1> QED BY <1>1, <1>2, <1>3, <1>4, <1>5 DEF Next

LEMMA NextAddsNothing ==
    ASSUME TypeOK, [Next]_vars, last'.code = "no_mem"
    PROVE  \A s \in ToSet(services') : \E r \in ToSet(services) : Within(s, r)
<1>1. ASSUME services' = services
      PROVE  \A s \in ToSet(services') : \E r \in ToSet(services) : Within(s, r)
  BY <1>1 DEF Within
<1>2. CASE Calls
  <2>1. Result
    BY <1>2, CallsResult
  <2>2. services' = services \/ Edited
    BY <2>1 DEF Result, Added, Removed, Cleared
  <2>3. CASE Edited
    <3>1. PICK i \in 1..Len(services), s \in Service :
            services' = [services EXCEPT ![i] = s] /\ Within(s, services[i])
      BY <2>3 DEF Edited
    <3>2. services \in Seq(Service) /\ DOMAIN services = 1..Len(services)
      BY LenProperties DEF TypeOK
    <3>3. /\ DOMAIN services' = DOMAIN services
          /\ \A k \in DOMAIN services : services'[k] = IF k = i THEN s ELSE services[k]
      BY <3>1, <3>2
    <3> SUFFICES ASSUME NEW k \in DOMAIN services
                 PROVE  \E r \in ToSet(services) : Within(services'[k], r)
      BY <3>3 DEF ToSet
    <3>4. services[k] \in ToSet(services)
      BY DEF ToSet
    <3>5. CASE k = i
      BY <3>1, <3>3, <3>4, <3>5
    <3>6. CASE k # i
      BY <3>3, <3>4, <3>6 DEF Within
    <3> QED BY <3>5, <3>6
  <2> QED BY <1>1, <2>2, <2>3
<1>3. CASE ~Calls
  BY <1>1, <1>3, OtherSteps
<1> QED BY <1>2, <1>3

\* A call that reports ESP_ERR_NO_MEM has added nothing, and what it added to
\* the subtypes of a service before memory ran out it has taken back, and
\* nothing else (the loop of mdns_service_subtype_add_multiple_items_for_host).
THEOREM FailedCallTheorem == Spec => FailedCallUndone
<1>1. TypeOK /\ [Next]_vars =>
        [last'.code = "no_mem" =>
           /\ \A s \in ToSet(services') : \E r \in ToSet(services) : Within(s, r)
           /\ services' # services => ~SubtypesAdded]_vars
  BY NextAddsNothing, SubtypesStay
<1> QED BY <1>1, TypeCorrect, PTL DEF Spec, FailedCallUndone

\* How the service s looks with default as the default instance, and that it
\* looks the same after the step.
Look(s, default) == [s EXCEPT !.inst = IF s.inst = None THEN default ELSE s.inst]
SameLook(s) == Look(s, Default') = Look(s, Default)

\* A step tells enough when every service it does not name was there before
\* and after it and looks the same.
LEMMA ToldIsEnough ==
    ASSUME TypeOK, TypeOK',
           \A i \in 1..Len(services) :
              \/ services[i].at \in last'.told
              \/ /\ \E j \in 1..Len(services') : services'[j] = services[i]
                 /\ SameLook(services[i]),
           \A j \in 1..Len(services') :
              \/ services'[j].at \in last'.told
              \/ /\ \E i \in 1..Len(services) : services[i] = services'[j]
                 /\ SameLook(services'[j])
    PROVE  {s.at : s \in (Seen \ Seen') \cup (Seen' \ Seen)} \subseteq last'.told
<1> DEFINE Old(s) == Look(s, Default)
           New(s) == Look(s, Default')
<1>1. /\ DOMAIN services = 1..Len(services) /\ DOMAIN services' = 1..Len(services')
      /\ \A i \in 1..Len(services) : services[i] \in Service
      /\ \A j \in 1..Len(services') : services'[j] \in Service
  <2>1. services \in Seq(Service) /\ services' \in Seq(Service)
    BY DEF TypeOK
  <2> QED BY <2>1, LenProperties, ElementOfSeq
<1>2. Seen = {Old(services[i]) : i \in 1..Len(services)}
  BY <1>1 DEF Seen, ToSet, Look, Effective
<1>3. Seen' = {New(services'[j]) : j \in 1..Len(services')}
  <2>1. Seen' = {New(s) : s \in ToSet(services')}
    BY DEF Seen, Look, Effective
  <2>2. ToSet(services') = {services'[j] : j \in 1..Len(services')}
    BY <1>1 DEF ToSet
  <2> HIDE DEF New
  <2> QED BY <2>1, <2>2
<1>4. \A s \in Service : Old(s).at = s.at /\ New(s).at = s.at /\ (SameLook(s) => Old(s) = New(s))
  BY DEF Service, SameLook, Look
<1> HIDE DEF Old, New
<1>5. \A x \in Seen \ Seen' : x.at \in last'.told
  <2> SUFFICES ASSUME NEW i \in 1..Len(services), Old(services[i]) \notin Seen'
               PROVE  Old(services[i]).at \in last'.told
    BY <1>2
  <2>1. services[i].at \in last'.told
    <3> SUFFICES ASSUME NEW j \in 1..Len(services'), services'[j] = services[i],
                        SameLook(services[i])
                 PROVE  FALSE
      OBVIOUS
    <3>1. New(services'[j]) = Old(services[i])
      BY <1>1, <1>4
    <3> QED BY <1>3, <3>1
  <2> QED BY <1>1, <1>4, <2>1
<1>6. \A x \in Seen' \ Seen : x.at \in last'.told
  <2> SUFFICES ASSUME NEW j \in 1..Len(services'), New(services'[j]) \notin Seen
               PROVE  New(services'[j]).at \in last'.told
    BY <1>3
  <2>1. services'[j].at \in last'.told
    <3> SUFFICES ASSUME NEW i \in 1..Len(services), services[i] = services'[j],
                        SameLook(services'[j])
                 PROVE  FALSE
      OBVIOUS
    <3>1. Old(services[i]) = New(services'[j])
      BY <1>1, <1>4
    <3> QED BY <1>2, <3>1
  <2> QED BY <1>1, <1>4, <2>1
<1> QED BY <1>5, <1>6

\* While the device keeps its names the services that are not touched look the
\* same.
LEMMA SameNamesLook ==
    ASSUME UNCHANGED <<host, inst>>, NEW s
    PROVE  SameLook(s)
BY DEF SameLook, Default

\* A call that succeeds names what it changed.
LEMMA CallTells ==
    ASSUME TypeOK, TypeOK', Result, UNCHANGED <<host, inst>>, last'.code = "ok"
    PROVE  {s.at : s \in (Seen \ Seen') \cup (Seen' \ Seen)} \subseteq last'.told
<1> DEFINE There(i) == \/ services[i].at \in last'.told
                       \/ \E j \in 1..Len(services') : services'[j] = services[i]
           Here(j) == \/ services'[j].at \in last'.told
                      \/ \E i \in 1..Len(services) : services[i] = services'[j]
<1>1. services \in Seq(Service) /\ Len(services) \in Nat
  BY LenProperties DEF TypeOK
<1> SUFFICES /\ \A i \in 1..Len(services) : There(i)
             /\ \A j \in 1..Len(services') : Here(j)
  BY ToldIsEnough, SameNamesLook
<1>2. CASE services' = services
  BY <1>2
<1>3. CASE Edited
  <2>1. PICK k \in 1..Len(services), s \in Service :
          /\ services' = [services EXCEPT ![k] = s] /\ s.at = services[k].at
          /\ s = services[k] \/ s.at \in last'.told
    BY <1>3 DEF Edited
  <2>2. /\ Len(services') = Len(services)
        /\ \A i \in 1..Len(services) : services'[i] = IF i = k THEN s ELSE services[i]
    BY <1>1, <2>1, ExceptSeq
  <2> QED BY <2>1, <2>2
<1>4. CASE Added
  <2>1. PICK s \in Service : services' = <<s>> \o services /\ s.at \in last'.told
    BY <1>4 DEF Added
  <2>2. /\ Len(services') = Len(services) + 1
        /\ \A k \in 1..Len(services) + 1 : services'[k] = IF k = 1 THEN s ELSE services[k - 1]
    BY <1>1, <2>1, InFrontIs
  <2>3. ASSUME NEW i \in 1..Len(services)
        PROVE  There(i)
    <3>1. i + 1 \in 1..Len(services') /\ services'[i + 1] = services[i]
      BY <1>1, <2>2
    <3> QED BY <3>1
  <2>4. ASSUME NEW j \in 1..Len(services')
        PROVE  Here(j)
    <3>1. CASE j = 1
      BY <2>1, <2>2, <3>1
    <3>2. CASE j # 1
      <4>1. j - 1 \in 1..Len(services) /\ services'[j] = services[j - 1]
        BY <1>1, <2>2, <3>2
      <4> QED BY <4>1
    <3> QED BY <3>1, <3>2
  <2> QED BY <2>3, <2>4
<1>5. CASE Removed
  <2>1. PICK k \in 1..Len(services) :
          services' = RemoveAt(services, k) /\ services[k].at \in last'.told
    BY <1>5 DEF Removed
  <2>2. /\ Len(services') = Len(services) - 1
        /\ \A j \in 1..Len(services) - 1 : services'[j] = services[IF j < k THEN j ELSE j + 1]
    BY <1>1, <2>1, RemoveAtIs
  <2>3. ASSUME NEW i \in 1..Len(services)
        PROVE  There(i)
    <3>1. CASE i = k
      BY <2>1, <3>1
    <3>2. CASE i < k
      <4>1. i \in 1..Len(services') /\ services'[i] = services[i]
        BY <1>1, <2>2, <3>2
      <4> QED BY <4>1
    <3>3. CASE i > k
      <4>1. i - 1 \in 1..Len(services') /\ ~(i - 1 < k) /\ (i - 1) + 1 = i
        BY <1>1, <2>2, <3>3
      <4>2. services'[i - 1] = services[i]
        BY <2>2, <4>1
      <4> QED BY <4>1, <4>2
    <3> QED BY <3>1, <3>2, <3>3
  <2>4. ASSUME NEW j \in 1..Len(services')
        PROVE  Here(j)
    <3>1. (IF j < k THEN j ELSE j + 1) \in 1..Len(services)
      BY <1>1, <2>2
    <3> QED BY <2>2, <3>1
  <2> QED BY <2>3, <2>4
<1>6. CASE Cleared
  <2>1. \A i \in 1..Len(services) : services[i].at \in At
    <3>1. DOMAIN services = 1..Len(services)
      BY <1>1, LenProperties
    <3> QED BY <3>1 DEF At, ToSet
  <2> QED BY <1>6, <2>1 DEF Cleared
<1> QED BY <1>2, <1>3, <1>4, <1>5, <1>6 DEF Result

\* A step that names every service has named those that it changed.
LEMMA AllTold ==
    ASSUME TypeOK, NEW new \in Names, services' = Remap(new), last'.told = At, TypeOK'
    PROVE  {s.at : s \in (Seen \ Seen') \cup (Seen' \ Seen)} \subseteq last'.told
<1>1. /\ DOMAIN services = 1..Len(services)
      /\ \A i \in 1..Len(services) : services[i] \in Service
  BY LenProperties, ServiceIs DEF TypeOK
<1>2. \A i \in 1..Len(services) : services[i].at \in last'.told
  BY <1>1 DEF At, ToSet
<1>3. Len(services') = Len(services)
  BY RemapIs
<1>4. \A i \in 1..Len(services) : services'[i].at = services[i].at
  <2> TAKE i \in 1..Len(services)
  <2>1. services'[i] = IF services[i].host = host THEN [services[i] EXCEPT !.host = new]
                       ELSE services[i]
    BY RemapIs
  <2> QED BY <1>1, <2>1 DEF Service
<1> QED BY <1>2, <1>3, <1>4, ToldIsEnough

\* Another default instance concerns the services without one.
LEMMA DefaultTold ==
    ASSUME TypeOK, TypeOK', services' = services, last'.told = NoInstance
    PROVE  {s.at : s \in (Seen \ Seen') \cup (Seen' \ Seen)} \subseteq last'.told
<1>1. \A i \in 1..Len(services) : services[i].inst = None => services[i].at \in last'.told
  BY NoInstanceIs
<1>2. \A i \in 1..Len(services) : services[i].inst # None => SameLook(services[i])
  BY DEF SameLook, Look
<1> QED BY <1>1, <1>2, ToldIsEnough

LEMMA NextTells ==
    ASSUME TypeOK, TypeOK', [Next]_vars, last'.code = "ok"
    PROVE  {s.at : s \in (Seen \ Seen') \cup (Seen' \ Seen)} \subseteq last'.told
<1>0. ASSUME UNCHANGED <<host, inst, services>>
      PROVE  {s.at : s \in (Seen \ Seen') \cup (Seen' \ Seen)} \subseteq last'.told
  BY <1>0, ToldIsEnough, SameNamesLook
<1>1. CASE Calls
  BY <1>1, CallsResult, CallTells DEF hosts
<1>2. CASE Posts
  BY <1>0, <1>2 DEF Posts, InstanceSet, DelegateRemove, DelegateSetAddress, HostnameSet,
                    DelegateAdd, PostAndWait, Post, hosts
<1>3. ASSUME NEW c \in Callers, WaitEnds(c)
      PROVE  UNCHANGED <<host, inst, services>>
  BY <1>3 DEF WaitEnds, hosts
<1>4. CASE ExecuteHostnameSet
  <2>1. /\ cur.type = "hostname_set" /\ services' = Remap(cur.name) /\ last'.told = At
    BY <1>4 DEF ExecuteHostnameSet, Reports
  <2>2. cur.name \in Names
    BY <2>1, CurIs DEF Actions
  <2> QED BY <2>1, <2>2, AllTold
<1>5. CASE ExecuteInstanceSet
  BY <1>5, DefaultTold DEF ExecuteInstanceSet, Reports
<1>6. CASE ExecuteDelegateAdd \/ ExecuteDelegateSetAddr
  BY <1>0, <1>6 DEF ExecuteDelegateAdd, ExecuteDelegateSetAddr
<1>7. CASE ExecuteDelegateRemove
  <2>1. UNCHANGED <<host, inst>>
    BY <1>7 DEF ExecuteDelegateRemove
  <2>2. \A i \in 1..Len(services) :
          \/ services[i].at \in last'.told
          \/ \E j \in 1..Len(services') : services'[j] = services[i]
    BY <1>7, DelegateRemoveIs
  <2>3. \A j \in 1..Len(services') : \E i \in 1..Len(services) : services[i] = services'[j]
    BY <1>7, DelegateRemoveIs
  <2> QED BY <2>1, <2>2, <2>3, SameNamesLook, ToldIsEnough
<1>8. CASE Conflict
  <2>1. CASE services' = Remap(Mangled[host]) /\ last'.told = At
    <3>1. Mangled[host] \in Names
      BY <1>8, ConflictIs, NamesAssumption
    <3> QED BY <2>1, <3>1, AllTold
  <2>2. CASE last'.told = NoInstance /\ UNCHANGED <<host, services>>
    BY <2>2, DefaultTold
  <2>3. CASE Edited /\ UNCHANGED <<host, inst>>
    <3>1. Result
      BY <1>8, <2>3, ConflictIs DEF Result, TypeOK
    <3> QED BY <2>3, <3>1, CallTells
  <2> QED BY <1>8, <2>1, <2>2, <2>3, ConflictIs
<1>9. CASE UNCHANGED vars
  BY <1>0, <1>9 DEF vars
<1> QED BY <1>0, <1>1, <1>2, <1>3, <1>4, <1>5, <1>6, <1>7, <1>8, <1>9 DEF Next, Execute

\* No change of a service is kept from the network: a call that reports ESP_OK
\* and a step of the service task name every service that looks different
\* afterwards, the one that lost its default instance name included
\* (mdns_priv_probe_all_pcbs, announce_all_pcbs, mdns_priv_pcb_send_bye_service).
THEOREM TellsTheorem == Spec => TellsWhatChanged
<1>1. TypeOK /\ TypeOK' /\ [Next]_vars =>
        [last'.code = "ok" =>
           {s.at : s \in (Seen \ Seen') \cup (Seen' \ Seen)} \subseteq last'.told]_vars
  BY NextTells
<1> QED BY <1>1, TypeCorrect, PTL DEF Spec, TellsWhatChanged

-----------------------------------------------------------------------------
(* With one caller the hostname is a register (HostnameRegister.tla) *)

Waiting == {"hostname_set", "delegate_add"}

\* The caller c waits for one action at most: the one in the queue while it is
\* there, and after that the semaphore, which is given for nobody else.
WaitInv(c) ==
    /\ \A i \in 1..Len(actq) : actq[i].type \in Waiting => actq[i] = caller[c]
    /\ \A i, j \in 1..Len(actq) :
         actq[i].type \in Waiting /\ actq[j].type \in Waiting => i = j
    /\ sema => caller[c] # Idle /\ \A i \in 1..Len(actq) : actq[i].type \notin Waiting

\* The call in progress, for the one caller c.
RequestOf(a, q) ==
    IF a.type # "hostname_set" THEN [wants |-> None, done |-> FALSE]
    ELSE [wants |-> a.name, done |-> \A i \in 1..Len(q) : q[i] # a]

LEMMA RequestIs ==
    ASSUME NEW c, Callers = {c}, TypeOK, TypeOK'
    PROVE  /\ Request = RequestOf(caller[c], actq)
           /\ Request' = RequestOf(caller'[c], actq')
<1>1. (CHOOSE d \in Callers : TRUE) = c
  OBVIOUS
<1>2. ToSet(actq) = {actq[i] : i \in 1..Len(actq)} /\ ToSet(actq') = {actq'[i] : i \in 1..Len(actq')}
  <2>1. actq \in Seq(Actions) /\ actq' \in Seq(Actions)
    BY DEF TypeOK
  <2> QED BY <2>1, LenProperties DEF ToSet
<1>3. ASSUME NEW a
      PROVE  /\ (a \notin ToSet(actq)) = \A i \in 1..Len(actq) : actq[i] # a
             /\ (a \notin ToSet(actq')) = \A i \in 1..Len(actq') : actq'[i] # a
  BY <1>2
<1> QED BY <1>1, <1>3 DEF Request, RequestOf

\* What a step does to the queue.
LEMMA AppendIs ==
    ASSUME TypeOK, NEW a \in Actions, actq' = Append(actq, a)
    PROVE  /\ Len(actq) \in Nat /\ Len(actq') = Len(actq) + 1
           /\ \A i \in 1..Len(actq) : actq'[i] = actq[i]
           /\ actq'[Len(actq) + 1] = a
<1>1. actq \in Seq(Actions) /\ Len(actq) \in Nat
  BY LenProperties DEF TypeOK
<1> QED BY <1>1

LEMMA TailIs ==
    ASSUME TypeOK, cur.type # "none", actq' = Tail(actq)
    PROVE  /\ Len(actq) \in Nat \ {0} /\ Len(actq') = Len(actq) - 1 /\ cur = actq[1]
           /\ \A i \in 1..Len(actq') : actq'[i] = actq[i + 1] /\ i + 1 \in 1..Len(actq)
<1>1. actq \in Seq(Actions) /\ actq # <<>> /\ cur = Head(actq)
  BY CurIs DEF TypeOK
<1>2. Len(actq) \in Nat \ {0} /\ Len(Tail(actq)) = Len(actq) - 1
  BY <1>1, EmptySeq, HeadTailProperties
<1>3. \A i \in 1..Len(Tail(actq)) : Tail(actq)[i] = actq[i + 1]
  BY <1>1, HeadTailProperties
<1>4. Head(actq) = actq[1]
  BY <1>1
<1> QED BY <1>1, <1>2, <1>3, <1>4

\* A step that leaves the name, the callers, the queue and the semaphore alone.
LEMMA RegisterIdles ==
    ASSUME NEW c, Callers = {c}, TypeOK, TypeOK', WaitInv(c), UNCHANGED task
    PROVE  WaitInv(c)' /\ Request' = Request
BY RequestIs DEF task, WaitInv

\* An action for which nobody waits is posted.
LEMMA RegisterPosts ==
    ASSUME NEW c, Callers = {c}, TypeOK, TypeOK', WaitInv(c),
           NEW a \in Actions, Post(a), caller' = caller, a.type \notin Waiting
    PROVE  WaitInv(c)' /\ Request' = Request /\ host' = host
<1>1. actq' = Append(actq, a) /\ sema' = sema /\ host' = host
  BY DEF Post, hosts
<1>2. /\ Len(actq) \in Nat /\ Len(actq') = Len(actq) + 1
      /\ \A i \in 1..Len(actq) : actq'[i] = actq[i]
      /\ actq'[Len(actq) + 1] = a
  BY <1>1, AppendIs
<1>3. \A i \in 1..Len(actq') : (i \in 1..Len(actq) /\ actq'[i] = actq[i]) \/ actq'[i] = a
  BY <1>2
<1>4. WaitInv(c)'
  BY <1>1, <1>3 DEF WaitInv
<1>5. RequestOf(caller'[c], actq') = RequestOf(caller[c], actq)
  <2>1. CASE caller[c].type # "hostname_set"
    BY <2>1 DEF RequestOf
  <2>2. CASE caller[c].type = "hostname_set"
    <3>1. a # caller[c]
      BY <2>2 DEF Waiting
    <3>2. (\A i \in 1..Len(actq') : actq'[i] # caller[c])
            = (\A i \in 1..Len(actq) : actq[i] # caller[c])
      BY <1>2, <1>3, <3>1
    <3> QED BY <2>2, <3>2 DEF RequestOf
  <2> QED BY <2>1, <2>2
<1> QED BY <1>1, <1>4, <1>5, RequestIs

\* A call begins: its action is posted and the caller waits.
LEMMA RegisterAsks ==
    ASSUME NEW c, Callers = {c}, TypeOK, TypeOK', WaitInv(c),
           NEW a \in Actions, PostAndWait(c, a), a.type \in Waiting
    PROVE  /\ WaitInv(c)' /\ host' = host /\ Request = [wants |-> None, done |-> FALSE]
           /\ a.type = "hostname_set" => Request' = [wants |-> a.name, done |-> FALSE]
           /\ a.type # "hostname_set" => Request' = Request
<1>1. /\ actq' = Append(actq, a) /\ sema' = sema /\ host' = host
      /\ caller[c] = Idle /\ caller'[c] = a
  BY DEF PostAndWait, Post, hosts, TypeOK
<1>2. /\ Len(actq) \in Nat /\ Len(actq') = Len(actq) + 1
      /\ \A i \in 1..Len(actq) : actq'[i] = actq[i]
      /\ actq'[Len(actq) + 1] = a
  BY <1>1, AppendIs
<1>3. \A i \in 1..Len(actq) : actq[i].type \notin Waiting
  BY <1>1 DEF WaitInv, Idle, Waiting
<1>4. sema' = FALSE
  BY <1>1 DEF WaitInv, TypeOK
<1>5. \A i \in 1..Len(actq') : (i \in 1..Len(actq) /\ actq'[i] = actq[i]) \/ i = Len(actq) + 1
  BY <1>2
<1>6. WaitInv(c)'
  <2>1. \A i \in 1..Len(actq') : actq'[i].type \in Waiting => i = Len(actq) + 1
    BY <1>3, <1>5
  <2> QED BY <1>1, <1>2, <1>4, <2>1 DEF WaitInv
<1>7. Request = [wants |-> None, done |-> FALSE]
  BY <1>1, RequestIs DEF RequestOf, Idle
<1>8. ~\A i \in 1..Len(actq') : actq'[i] # a
  BY <1>2
<1> QED BY <1>1, <1>6, <1>7, <1>8, RequestIs DEF RequestOf

\* A call returns.
LEMMA RegisterReturns ==
    ASSUME NEW c, Callers = {c}, TypeOK, TypeOK', WaitInv(c), WaitEnds(c)
    PROVE  /\ WaitInv(c)' /\ host' = host /\ Request' = [wants |-> None, done |-> FALSE]
           /\ Request' = Request \/ Request.done
<1>1. /\ caller[c] # Idle /\ sema /\ sema' = FALSE /\ caller'[c] = Idle
      /\ actq' = actq /\ host' = host
  BY DEF WaitEnds, hosts, TypeOK
<1>2. \A i \in 1..Len(actq) : actq[i].type \notin Waiting
  BY <1>1 DEF WaitInv
<1>3. WaitInv(c)'
  BY <1>1, <1>2 DEF WaitInv
<1>4. Request' = [wants |-> None, done |-> FALSE]
  BY <1>1, RequestIs DEF RequestOf, Idle
<1>5. CASE caller[c].type # "hostname_set"
  BY <1>1, <1>3, <1>4, <1>5, RequestIs DEF RequestOf
<1>6. CASE caller[c].type = "hostname_set"
  <2>1. \A i \in 1..Len(actq) : actq[i] # caller[c]
    BY <1>2, <1>6 DEF Waiting
  <2>2. Request = [wants |-> caller[c].name, done |-> TRUE]
    BY <1>6, <2>1, RequestIs DEF RequestOf
  <2> QED BY <1>1, <1>3, <1>4, <2>2
<1> QED BY <1>5, <1>6

\* The service task executes an action: one that nobody waits for, or the one
\* that the caller waits for, and gives the semaphore.
LEMMA RegisterExecutes ==
    ASSUME NEW c, Callers = {c}, TypeOK, TypeOK', WaitInv(c), Executed, cur.type # "none",
           cur.type \in Waiting => sema' = TRUE,
           cur.type \notin Waiting => sema' = sema
    PROVE  /\ WaitInv(c)'
           /\ cur.type # "hostname_set" => Request' = Request
           /\ cur.type = "hostname_set" =>
                /\ Request = [wants |-> cur.name, done |-> FALSE]
                /\ Request' = [wants |-> cur.name, done |-> TRUE]
<1>1. actq' = Tail(actq) /\ caller' = caller
  BY DEF Executed
<1>2. /\ Len(actq) \in Nat \ {0} /\ Len(actq') = Len(actq) - 1 /\ cur = actq[1]
      /\ \A i \in 1..Len(actq') : actq'[i] = actq[i + 1] /\ i + 1 \in 1..Len(actq)
  BY <1>1, TailIs
<1>3. \A i \in 1..Len(actq) : i = 1 \/ (i - 1 \in 1..Len(actq') /\ actq'[i - 1] = actq[i])
  <2> TAKE i \in 1..Len(actq)
  <2>1. CASE i # 1
    <3>1. i - 1 \in 1..Len(actq') /\ (i - 1) + 1 = i
      BY <1>2, <2>1
    <3> QED BY <1>2, <3>1
  <2> QED BY <2>1
<1>4. 1 \in 1..Len(actq)
  BY <1>2
<1>5. CASE cur.type \in Waiting
  <2>1. cur = caller[c] /\ \A i \in 1..Len(actq) : i # 1 => actq[i].type \notin Waiting
    BY <1>2, <1>4, <1>5 DEF WaitInv
  <2>2. \A i \in 1..Len(actq') : actq'[i].type \notin Waiting
    <3> TAKE i \in 1..Len(actq')
    <3>1. i + 1 # 1 /\ i + 1 \in 1..Len(actq) /\ actq'[i] = actq[i + 1]
      BY <1>2
    <3> QED BY <2>1, <3>1
  <2>3. caller[c] # Idle
    BY <1>5, <2>1 DEF Idle, Waiting
  <2>4. WaitInv(c)'
    BY <1>1, <2>2, <2>3 DEF WaitInv
  <2>5. CASE cur.type = "hostname_set"
    <3>1. \A i \in 1..Len(actq') : actq'[i] # cur
      BY <1>5, <2>2
    <3>2. ~\A i \in 1..Len(actq) : actq[i] # cur
      BY <1>2, <1>4
    <3> QED BY <1>1, <2>1, <2>4, <2>5, <3>1, <3>2, RequestIs DEF RequestOf
  <2>6. CASE cur.type # "hostname_set"
    BY <1>1, <2>1, <2>4, <2>6, RequestIs DEF RequestOf
  <2> QED BY <2>5, <2>6
<1>6. CASE cur.type \notin Waiting
  <2>1. sema' = sema
    BY <1>6
  <2>2. WaitInv(c)'
    <3>1. \A i \in 1..Len(actq') : actq'[i].type \in Waiting => actq'[i] = caller'[c]
      BY <1>1, <1>2 DEF WaitInv
    <3>2. ASSUME NEW i \in 1..Len(actq'), NEW j \in 1..Len(actq'),
                 actq'[i].type \in Waiting, actq'[j].type \in Waiting
          PROVE  i = j
      <4>1. i + 1 = j + 1
        BY <1>2, <3>2 DEF WaitInv
      <4> QED BY <1>2, <4>1
    <3>3. sema' => caller'[c] # Idle /\ \A i \in 1..Len(actq') : actq'[i].type \notin Waiting
      BY <1>1, <1>2, <2>1 DEF WaitInv
    <3> QED BY <3>1, <3>2, <3>3 DEF WaitInv
  <2>3. cur.type # "hostname_set"
    BY <1>6 DEF Waiting
  <2>4. Request' = Request
    <3>1. CASE caller[c].type # "hostname_set"
      BY <1>1, <3>1, RequestIs DEF RequestOf
    <3>2. CASE caller[c].type = "hostname_set"
      <4>1. cur # caller[c]
        BY <2>3, <3>2
      <4>2. (\A i \in 1..Len(actq') : actq'[i] # caller[c])
              = (\A i \in 1..Len(actq) : actq[i] # caller[c])
        BY <1>2, <1>3, <4>1
      <4>3. RequestOf(caller[c], actq') = RequestOf(caller[c], actq)
        BY <3>2, <4>2 DEF RequestOf
      <4> QED BY <1>1, <4>3, RequestIs
    <3> QED BY <3>1, <3>2
  <2> QED BY <2>2, <2>3, <2>4
<1> QED BY <1>5, <1>6

\* A step of MdnsService is a step of HostnameRegister, or none.
LEMMA RegisterStep ==
    ASSUME NEW c, Callers = {c}, TypeOK, TypeOK', WaitInv(c), [Next]_vars
    PROVE  WaitInv(c)' /\ [Register!Next]_(Register!registerVars)
<1>0. ASSUME host' = host, Request' = Request
      PROVE  [Register!Next]_(Register!registerVars)
  BY <1>0 DEF Register!registerVars
<1>1. CASE Calls
  <2>1. UNCHANGED task /\ host' = host
    BY <1>1, CallsResult DEF hosts
  <2> QED BY <1>0, <2>1, RegisterIdles
<1>2. ASSUME NEW a \in Actions, Post(a), caller' = caller, a.type \notin Waiting
      PROVE  WaitInv(c)' /\ [Register!Next]_(Register!registerVars)
  BY <1>0, <1>2, RegisterPosts
<1>3. ASSUME NEW a \in Actions, PostAndWait(c, a), a.type \in Waiting,
             a.type = "hostname_set" => a.name \in Names
      PROVE  WaitInv(c)' /\ [Register!Next]_(Register!registerVars)
  <2>1. /\ WaitInv(c)' /\ host' = host /\ Request = [wants |-> None, done |-> FALSE]
        /\ a.type = "hostname_set" => Request' = [wants |-> a.name, done |-> FALSE]
        /\ a.type # "hostname_set" => Request' = Request
    BY <1>3, RegisterAsks
  <2>2. CASE a.type = "hostname_set"
    <3>1. Register!Ask(a.name)
      BY <2>1, <2>2 DEF Register!Ask, Register!NoRequest
    <3> QED BY <1>3, <2>1, <2>2, <3>1 DEF Register!Next
  <2>3. CASE a.type # "hostname_set"
    BY <1>0, <2>1, <2>3
  <2> QED BY <2>2, <2>3
<1>4. CASE Posts
  <2>1. CASE \E n \in Instances : InstanceSet(n)
    BY <1>2, <2>1 DEF InstanceSet, Actions, Waiting
  <2>2. CASE \E n \in Delegates : DelegateRemove(n)
    BY <1>2, <2>2 DEF DelegateRemove, Actions, Waiting
  <2>3. CASE \E n \in Delegates, a \in BOOLEAN : DelegateSetAddress(n, a)
    BY <1>2, <2>3 DEF DelegateSetAddress, Actions, Waiting
  <2>4. CASE \E d \in Callers, n \in Names : HostnameSet(d, n)
    BY <1>3, <2>4 DEF HostnameSet, Actions, Waiting
  <2>5. CASE \E d \in Callers, n \in Delegates, a \in BOOLEAN : DelegateAdd(d, n, a)
    BY <1>3, <2>5 DEF DelegateAdd, Actions, Waiting
  <2> QED BY <1>4, <2>1, <2>2, <2>3, <2>4, <2>5 DEF Posts
<1>5. CASE WaitEnds(c)
  <2>1. /\ WaitInv(c)' /\ host' = host /\ Request' = [wants |-> None, done |-> FALSE]
        /\ Request' = Request \/ Request.done
    BY <1>5, RegisterReturns
  <2>2. CASE Request.done
    <3>1. Register!Return
      BY <2>1, <2>2 DEF Register!Return, Register!NoRequest
    <3> QED BY <2>1, <3>1 DEF Register!Next
  <2>3. CASE Request' = Request
    BY <1>0, <2>1, <2>3
  <2> QED BY <2>1, <2>2, <2>3
<1>6. CASE ExecuteHostnameSet
  <2>1. /\ cur.type = "hostname_set" /\ Executed /\ sema' = TRUE /\ host' = cur.name
    BY <1>6 DEF ExecuteHostnameSet
  <2>2. /\ WaitInv(c)' /\ Request = [wants |-> cur.name, done |-> FALSE]
        /\ Request' = [wants |-> cur.name, done |-> TRUE]
    BY <2>1, RegisterExecutes DEF Waiting
  <2>3. cur.name # None
    BY <2>1, CurIs, NamesAssumption DEF Actions
  <2>4. Register!Apply
    <3>1. Request # [wants |-> None, done |-> FALSE]
      BY <2>2, <2>3
    <3>2. ~Request.done /\ Request.wants = cur.name
      BY <2>2
    <3>3. Request' = [Request EXCEPT !.done = TRUE]
      <4> DEFINE r == Request
                 new == cur.name
                 yes == TRUE
                 no == FALSE
      <4>1. r = [wants |-> new, done |-> no] /\ Request' = [wants |-> new, done |-> yes]
        BY <2>2
      <4> HIDE DEF r, new, yes, no
      <4>2. [r EXCEPT !.done = yes] = [wants |-> new, done |-> yes]
        BY <4>1
      <4>3. Request' = [r EXCEPT !.done = yes]
        BY <4>1, <4>2
      <4> QED BY <4>3 DEF r, yes
    <3> QED BY <2>1, <3>1, <3>2, <3>3 DEF Register!Apply, Register!NoRequest
  <2> QED BY <2>2, <2>4 DEF Register!Next
<1>7. CASE ExecuteInstanceSet \/ ExecuteDelegateSetAddr \/ ExecuteDelegateRemove
  <2>1. /\ cur.type \in {"instance_set", "delegate_set_addr", "delegate_remove"}
        /\ Executed /\ sema' = sema /\ host' = host
    BY <1>7 DEF ExecuteInstanceSet, ExecuteDelegateSetAddr, ExecuteDelegateRemove,
                SemaphoreAfterSetAddr
  <2>2. WaitInv(c)' /\ Request' = Request
    BY <2>1, RegisterExecutes DEF Waiting
  <2> QED BY <1>0, <2>1, <2>2
<1>8. CASE ExecuteDelegateAdd
  <2>1. cur.type = "delegate_add" /\ Executed /\ sema' = TRUE /\ host' = host
    BY <1>8 DEF ExecuteDelegateAdd
  <2>2. WaitInv(c)' /\ Request' = Request
    BY <2>1, RegisterExecutes DEF Waiting
  <2> QED BY <1>0, <2>1, <2>2
<1>9. CASE Conflict
  <2>1. host \in Names /\ UNCHANGED task /\ (host' = Mangled[host] \/ host' = host)
    BY <1>9, ConflictIs
  <2>2. WaitInv(c)' /\ Request' = Request
    BY <2>1, RegisterIdles
  <2>3. CASE host' = Mangled[host]
    <3>1. Register!Conflict
      BY <2>1, <2>2, <2>3, NamesAssumption DEF Register!Conflict
    <3> QED BY <2>2, <3>1 DEF Register!Next
  <2>4. CASE host' = host
    BY <1>0, <2>2, <2>4
  <2> QED BY <2>1, <2>3, <2>4
<1>10. CASE UNCHANGED vars
  <2>1. UNCHANGED task /\ host' = host
    BY <1>10 DEF vars, task
  <2> QED BY <1>0, <2>1, RegisterIdles
<1> QED
  BY <1>1, <1>4, <1>5, <1>6, <1>7, <1>8, <1>9, <1>10 DEF Next, Execute

\* With one task that calls mdns_hostname_set and mdns_delegate_hostname_add, as
\* in this firmware, mdns_hostname_set returns only after its own name was set
\* and writes it at one moment in between, whatever else is in the queue: the
\* semaphore action_sema is never given for another call's action
\* (mdns_responder.c:617, mdns_priv_responder_action).
THEOREM RegisterTheorem ==
    ASSUME NEW CONSTANT c, Callers = {c}
    PROVE  Spec => Register!Init /\ [][Register!Next]_(Register!registerVars)
<1>1. Init => WaitInv(c) /\ Register!Init
  <2> SUFFICES ASSUME Init PROVE WaitInv(c) /\ Register!Init
    OBVIOUS
  <2>1. actq = <<>> /\ Len(actq) = 0 /\ sema = FALSE
    BY EmptySeq DEF Init
  <2>2. WaitInv(c)
    BY <2>1 DEF WaitInv
  <2>3. (CHOOSE d \in Callers : TRUE) = c /\ caller[c] = Idle
    BY DEF Init
  <2>4. Request = [wants |-> None, done |-> FALSE]
    BY <2>3 DEF Request, Idle
  <2>5. host = None
    BY DEF Init
  <2> QED BY <2>2, <2>4, <2>5 DEF Register!Init, Register!NoRequest
<1>2. TypeOK /\ TypeOK' /\ WaitInv(c) /\ [Next]_vars =>
        WaitInv(c)' /\ [Register!Next]_(Register!registerVars)
  BY RegisterStep
<1> QED BY <1>1, <1>2, TypeCorrect, PTL DEF Spec

-----------------------------------------------------------------------------
(* Lookups.  The walk over the table is a recursive function, and what it    *)
(* has collected up to each service is shown from the first service on.      *)

\* The walk exists, up to every service.
IsWalk(g, k, q, max, self) ==
    g = [i \in 0..k |-> IF i = 0 THEN NothingYet
                        ELSE LookupOne(g[i - 1], services[i], q, max, self)]
LEMMA WalkExists ==
    ASSUME NEW q, NEW max, NEW self, NEW n \in Nat
    PROVE  \E g : IsWalk(g, n, q, max, self)
<1> DEFINE One(r, i) == LookupOne(r, services[i], q, max, self)
           Walk(g, k) == g = [i \in 0..k |-> IF i = 0 THEN NothingYet ELSE One(g[i - 1], i)]
           S == {k \in Nat : \E g : Walk(g, k)}
<1>0. \A g, k : IsWalk(g, k, q, max, self) <=> Walk(g, k)
  BY DEF IsWalk
<1> HIDE DEF One
<1>1. 0 \in S
  <2> DEFINE g == [i \in 0..0 |-> NothingYet]
  <2>1. \A i \in 0..0 : i = 0
    OBVIOUS
  <2>2. Walk(g, 0)
    BY <2>1
  <2> QED
    BY <2>2
<1>2. ASSUME NEW k \in S
      PROVE  k + 1 \in S
  <2>1. PICK g : Walk(g, k)
    OBVIOUS
  <2> DEFINE h == [i \in 0..k + 1 |-> IF i <= k THEN g[i] ELSE One(g[k], k + 1)]
             v(i) == IF i = 0 THEN NothingYet ELSE One(h[i - 1], i)
  <2>2. k \in Nat
    OBVIOUS
  <2>3. ASSUME NEW i \in 0..k + 1
        PROVE  h[i] = v(i)
    <3>1. CASE i = 0
      BY <2>1, <2>2, <3>1
    <3>2. CASE i # 0 /\ i <= k
      <4>1. i - 1 \in 0..k + 1 /\ i - 1 <= k /\ i \in 0..k
        BY <2>2, <3>2
      <4>2. h[i - 1] = g[i - 1] /\ h[i] = g[i]
        BY <3>2, <4>1
      <4>3. g[i] = One(g[i - 1], i)
        BY <2>1, <3>2, <4>1
      <4> QED
        BY <3>2, <4>2, <4>3
    <3>3. CASE i = k + 1
      <4>1. i # 0 /\ i - 1 = k /\ k \in 0..k + 1 /\ ~(i <= k)
        BY <2>2, <3>3
      <4>2. h[i - 1] = g[k] /\ h[i] = One(g[k], i)
        BY <2>2, <3>3, <4>1
      <4> QED
        BY <4>1, <4>2
    <3> QED
      BY <2>2, <3>1, <3>2, <3>3
  <2>4. h = [i \in 0..k + 1 |-> v(i)]
    BY <2>3
  <2> HIDE DEF h
  <2>5. Walk(h, k + 1)
    BY <2>4
  <2> QED
    BY <2>2, <2>5
<1> HIDE DEF Walk
<1>3. S = Nat
  BY <1>1, <1>2, AllNat
<1> QED
  BY <1>0, <1>3

LEMMA WalkIs ==
    ASSUME services \in Seq(Service), NEW q, NEW max, NEW self
    PROVE  /\ LookupWalk(q, max, self)[0] = NothingYet
           /\ \A i \in 1..Len(services) :
                LookupWalk(q, max, self)[i] =
                  LookupOne(LookupWalk(q, max, self)[i - 1], services[i], q, max, self)
<1> DEFINE w == LookupWalk(q, max, self)
           n == Len(services)
<1>1. n \in Nat
  BY LenProperties
<1>2. w = CHOOSE g : IsWalk(g, n, q, max, self)
  BY DEF LookupWalk, IsWalk
<1> HIDE DEF w
<1>3. IsWalk(w, n, q, max, self)
  BY <1>1, <1>2, WalkExists
<1>4. \A i \in 0..n : w[i] = IF i = 0 THEN NothingYet
                             ELSE LookupOne(w[i - 1], services[i], q, max, self)
  BY <1>3 DEF IsWalk
<1>5. 0 \in 0..n /\ \A i \in 1..n : i \in 0..n /\ i # 0
  BY <1>1
<1> QED
  BY <1>4, <1>5 DEF w

\* The services asked for, and those a lookup gives, among the first k.
WantedTo(q, self, k) == {j \in WantedAt(q, self) : j <= k}
PassedTo(q, max, self, k) == {j \in Passed(q, max, self) : j <= k}
Most(max) == IF max = 0 THEN 1 ELSE max
Unreached(P, self) == ~self /\ \E j \in P : ~HasAddress(services[j].host)
\* A list of the services at the positions in P, the first of them last.
Collected(found, P) ==
    /\ found \in Seq(Service) /\ Len(found) = Cardinality(P)
    /\ \A j \in P : found[Cardinality({i \in P : i >= j})] = services[j]
\* What the walk has in its hands after k services.
WalkHas(r, q, max, self, k) ==
    LET W == WantedTo(q, self, k)
        P == PassedTo(q, max, self, k)
    IN  IF Unreached(P, self) THEN r = Blocked
        ELSE /\ Collected(r.found, P)
             /\ r.stop \in BOOLEAN /\ (r.stop <=> Cardinality(W) >= Most(max))
             /\ r.stop \/ P = W

\* One service more, in front of the list.
LEMMA CollectedMore ==
    ASSUME services \in Seq(Service), NEW k \in Nat, k + 1 \in DOMAIN services,
           NEW P \in SUBSET (1..k), NEW f, Collected(f, P)
    PROVE  Collected(<<services[k + 1]>> \o f, P \cup {k + 1})
<1> DEFINE s == services[k + 1]
           g == <<s>> \o f
           Q == P \cup {k + 1}
           After(j) == {i \in P : i >= j}
<1>1. s \in Service /\ f \in Seq(Service)
  BY DEF Collected
<1>2. /\ g \in Seq(Service) /\ Len(g) = Len(f) + 1 /\ g[1] = s
      /\ \A c \in 1..Len(f) : g[c + 1] = f[c]
  BY <1>1
<1>3. IsFiniteSet(P) /\ k + 1 \notin P
  <2>1. IsFiniteSet(1..k)
    BY FS_Interval
  <2>2. IsFiniteSet(P)
    BY <2>1, FS_Subset
  <2>3. k + 1 \notin 1..k
    OBVIOUS
  <2> QED
    BY <2>2, <2>3
<1>4. Cardinality(P) = Len(f) /\ Len(f) \in Nat
  BY <1>1, LenProperties DEF Collected
<1>5. Len(g) = Cardinality(Q)
  BY <1>2, <1>3, <1>4, FS_AddElement
<1> HIDE DEF g, s
<1>6. ASSUME NEW j \in Q
      PROVE  g[Cardinality({i \in Q : i >= j})] = services[j]
  <2>1. CASE j = k + 1
    <3>1. \A i \in Q : i >= j <=> i = k + 1
      BY <2>1
    <3>2. {i \in Q : i >= j} = {k + 1}
      BY <3>1
    <3>3. Cardinality({k + 1}) = 1
      BY FS_Singleton
    <3> QED
      BY <1>2, <2>1, <3>2, <3>3 DEF s
  <2>2. CASE j \in P
    <3>1. {i \in Q : i >= j} = After(j) \cup {k + 1} /\ k + 1 \notin After(j)
      BY <1>3, <2>2
    <3>2. After(j) \subseteq P /\ j \in After(j)
      BY <2>2
    <3>3. /\ IsFiniteSet(After(j)) /\ Cardinality(After(j)) \in Nat
          /\ Cardinality(After(j)) <= Cardinality(P) /\ Cardinality(After(j)) # 0
      <4>1. IsFiniteSet(After(j)) /\ Cardinality(After(j)) <= Cardinality(P)
        BY <1>3, <3>2, FS_Subset
      <4>2. Cardinality(After(j)) \in Nat
        BY <4>1, FS_CardinalityType
      <4>3. Cardinality(After(j)) # 0
        BY <3>2, <4>1, FS_EmptySet
      <4> QED
        BY <4>1, <4>2, <4>3
    <3> HIDE DEF After
    <3>4. Cardinality(After(j) \cup {k + 1}) = Cardinality(After(j)) + 1
      BY <3>1, <3>3, FS_AddElement
    <3>5. f[Cardinality(After(j))] = services[j]
      BY <2>2 DEF Collected, After
    <3>6. g[Cardinality(After(j)) + 1] = f[Cardinality(After(j))]
      BY <1>2, <1>4, <3>3
    <3> QED
      BY <3>1, <3>4, <3>5, <3>6
  <2> QED
    BY <2>1, <2>2
<1> QED
  BY <1>2, <1>5, <1>6 DEF Collected, g, s

\* What one service more does to the two sets.
WithNext(W, P, X, Q, asked, max, k) ==
    /\ W \subseteq 1..k /\ IsFiniteSet(W) /\ Cardinality(W) \in Nat /\ P \subseteq W
    /\ IF asked THEN X = W \cup {k + 1} ELSE X = W
    /\ IF asked /\ Cardinality(W) < Most(max) THEN Q = P \cup {k + 1} ELSE Q = P
LEMMA ToNext ==
    ASSUME services \in Seq(Service), NEW q, NEW max \in Nat, NEW self,
           NEW k \in Nat, k + 1 \in DOMAIN services
    PROVE  WithNext(WantedTo(q, self, k), PassedTo(q, max, self, k), WantedTo(q, self, k + 1),
                 PassedTo(q, max, self, k + 1), Wanted(services[k + 1], q, self), max, k)
<1> DEFINE W == WantedTo(q, self, k)
           P == PassedTo(q, max, self, k)
           A == WantedAt(q, self)
<1>1. A \subseteq 1..Len(services) /\ Len(services) \in Nat /\ DOMAIN services = 1..Len(services)
  BY LenProperties DEF WantedAt
<1>2. k + 1 \in A <=> Wanted(services[k + 1], q, self)
  BY DEF WantedAt
<1>3. W = {j \in A : j < k + 1}
  BY <1>1 DEF WantedTo
<1>4. k + 1 \in Passed(q, max, self) <=> k + 1 \in A /\ Cardinality(W) < Most(max)
  BY <1>3 DEF Passed, Most
<1>5. W \subseteq 1..k /\ P \subseteq W
  BY <1>1 DEF WantedTo, PassedTo, Passed
<1>6. IsFiniteSet(W) /\ Cardinality(W) \in Nat
  <2>1. IsFiniteSet(1..k)
    BY FS_Interval
  <2>2. IsFiniteSet(W)
    BY <1>5, <2>1, FS_Subset
  <2> QED
    BY <2>2, FS_CardinalityType
<1>7. WantedTo(q, self, k + 1) = W \cup {j \in A : j = k + 1}
  BY <1>1 DEF WantedTo
<1>8. PassedTo(q, max, self, k + 1) = P \cup {j \in Passed(q, max, self) : j = k + 1}
  <2>1. Passed(q, max, self) \subseteq A
    BY DEF Passed
  <2> QED
    BY <1>1, <2>1 DEF PassedTo
<1> HIDE DEF W, P, A
<1>9. IF Wanted(services[k + 1], q, self)
      THEN WantedTo(q, self, k + 1) = W \cup {k + 1}
      ELSE WantedTo(q, self, k + 1) = W
  BY <1>2, <1>7
<1>10. IF Wanted(services[k + 1], q, self) /\ Cardinality(W) < Most(max)
       THEN PassedTo(q, max, self, k + 1) = P \cup {k + 1}
       ELSE PassedTo(q, max, self, k + 1) = P
  BY <1>2, <1>4, <1>8
<1> QED
  BY <1>5, <1>6, <1>9, <1>10 DEF W, P, WithNext

\* One step of the walk.
LEMMA WalkStep ==
    ASSUME services \in Seq(Service), NEW q, NEW max \in Nat, NEW self \in BOOLEAN,
           NEW k \in Nat, k + 1 \in DOMAIN services, NEW r,
           WalkHas(r, q, max, self, k)
    PROVE  WalkHas(LookupOne(r, services[k + 1], q, max, self), q, max, self, k + 1)
<1> DEFINE s == services[k + 1]
           t == LookupOne(r, s, q, max, self)
           W == WantedTo(q, self, k)
           P == PassedTo(q, max, self, k)
           X == WantedTo(q, self, k + 1)
           Q == PassedTo(q, max, self, k + 1)
           asked == Wanted(s, q, self)
<1>1. /\ W \subseteq 1..k /\ IsFiniteSet(W) /\ Cardinality(W) \in Nat /\ P \subseteq W
      /\ IF asked THEN X = W \cup {k + 1} ELSE X = W
      /\ IF asked /\ Cardinality(W) < Most(max) THEN Q = P \cup {k + 1} ELSE Q = P
  <2>1. WithNext(W, P, X, Q, asked, max, k)
    BY ToNext
  <2> HIDE DEF W, P, X, Q, asked
  <2> QED
    BY <2>1 DEF WithNext
<1>2. Most(max) \in Nat /\ Most(max) >= 1 /\ \A c \in Nat : c + 1 >= max <=> c + 1 >= Most(max)
  BY DEF Most
<1>3. IF Unreached(P, self) THEN r = Blocked
      ELSE /\ Collected(r.found, P)
           /\ r.stop \in BOOLEAN /\ (r.stop <=> Cardinality(W) >= Most(max))
           /\ r.stop \/ P = W
  BY DEF WalkHas
<1>4. t = IF r.stop \/ ~asked THEN r
          ELSE IF ~self /\ ~HasAddress(s.host) THEN Blocked
          ELSE [found |-> <<s>> \o r.found, stop |-> Len(r.found) + 1 >= max]
  BY DEF LookupOne
<1>5. Cardinality(W \cup {k + 1}) = Cardinality(W) + 1
  <2>1. k + 1 \notin W
    BY <1>1
  <2> HIDE DEF W, P, X, Q, asked
  <2> QED
    BY <1>1, <2>1, FS_AddElement
<1> SUFFICES IF Unreached(Q, self) THEN t = Blocked
             ELSE /\ Collected(t.found, Q)
                  /\ t.stop \in BOOLEAN /\ (t.stop <=> Cardinality(X) >= Most(max))
                  /\ t.stop \/ Q = X
  BY DEF WalkHas
<1>6. Unreached(P \cup {k + 1}, self) <=> Unreached(P, self) \/ (~self /\ ~HasAddress(s.host))
  BY DEF Unreached
<1> HIDE DEF t, W, P, X, Q, asked
<1>7. CASE Unreached(P, self)
  <2>1. r.stop /\ t = Blocked
    BY <1>3, <1>4, <1>7 DEF Blocked
  <2>2. Unreached(Q, self)
    BY <1>1, <1>6, <1>7
  <2> QED
    BY <2>1, <2>2
<1>8. CASE ~Unreached(P, self) /\ ~asked
  BY <1>1, <1>3, <1>4, <1>8
<1>9. CASE ~Unreached(P, self) /\ asked /\ r.stop
  <2>1. t = r /\ Q = P /\ X = W \cup {k + 1}
    BY <1>1, <1>2, <1>3, <1>4, <1>9
  <2>2. Cardinality(X) >= Most(max)
    BY <1>1, <1>2, <1>3, <1>5, <1>9, <2>1
  <2> QED
    BY <1>3, <1>9, <2>1, <2>2
<1>10. CASE ~Unreached(P, self) /\ asked /\ ~r.stop
  <2>1. Q = P \cup {k + 1} /\ X = W \cup {k + 1} /\ P = W
    BY <1>1, <1>2, <1>3, <1>10
  <2>2. CASE ~self /\ ~HasAddress(s.host)
    <3>1. t = Blocked
      BY <1>4, <1>10, <2>2
    <3> QED
      BY <1>6, <2>1, <2>2, <3>1
  <2>3. CASE ~(~self /\ ~HasAddress(s.host))
    <3>1. t = [found |-> <<s>> \o r.found, stop |-> Len(r.found) + 1 >= max]
      BY <1>4, <1>10, <2>3
    <3>2. ~Unreached(Q, self)
      BY <1>6, <1>10, <2>1, <2>3
    <3>3. Collected(r.found, P) /\ P \in SUBSET (1..k)
      BY <1>1, <1>3, <1>10
    <3>4. Collected(<<s>> \o r.found, Q)
      BY <2>1, <3>3, CollectedMore
    <3>5. Len(r.found) = Cardinality(W)
      BY <2>1, <3>3 DEF Collected
    <3>6. t.stop \in BOOLEAN /\ (t.stop <=> Cardinality(X) >= Most(max))
      <4>1. t.stop = (Cardinality(W) + 1 >= max)
        BY <3>1, <3>5
      <4>2. Cardinality(W) + 1 >= max <=> Cardinality(W) + 1 >= Most(max)
        BY <1>1, <1>2
      <4>3. Cardinality(X) = Cardinality(W) + 1
        BY <1>5, <2>1
      <4>4. (t.stop <=> Cardinality(X) >= Most(max))
        BY <4>1, <4>2, <4>3
      <4> QED
        BY <4>1, <4>4
    <3> QED
      BY <2>1, <3>1, <3>2, <3>4, <3>6
  <2> QED
    BY <2>2, <2>3
<1> QED
  BY <1>3, <1>7, <1>8, <1>9, <1>10

\* What the walk has collected in the end.
LEMMA WalkHasAll ==
    ASSUME services \in Seq(Service), NEW q, NEW max \in Nat, NEW self \in BOOLEAN
    PROVE  WalkHas(LookupWalk(q, max, self)[Len(services)], q, max, self, Len(services))
<1> DEFINE w == LookupWalk(q, max, self)
           S == {k \in Nat : k <= Len(services) => WalkHas(w[k], q, max, self, k)}
<1>1. Len(services) \in Nat /\ DOMAIN services = 1..Len(services)
  BY LenProperties
<1>2. w[0] = NothingYet /\ \A i \in 1..Len(services) :
                             w[i] = LookupOne(w[i - 1], services[i], q, max, self)
  BY WalkIs
<1>3. WalkHas(NothingYet, q, max, self, 0)
  <2>1. WantedTo(q, self, 0) = {} /\ PassedTo(q, max, self, 0) = {}
    BY <1>1 DEF WantedTo, PassedTo, Passed, WantedAt
  <2>2. Cardinality({}) = 0
    BY FS_EmptySet
  <2>3. ~Unreached({}, self) /\ Collected(<<>>, {})
    BY <2>2 DEF Unreached, Collected
  <2>4. ~(0 >= Most(max))
    BY DEF Most
  <2> QED
    BY <2>1, <2>2, <2>3, <2>4 DEF WalkHas, NothingYet
<1> HIDE DEF w
<1>4. 0 \in S
  BY <1>2, <1>3
<1>5. ASSUME NEW k \in S
      PROVE  k + 1 \in S
  <2>1. k \in Nat /\ k + 1 \in Nat
    OBVIOUS
  <2>2. CASE k + 1 <= Len(services)
    <3>1. k + 1 \in 1..Len(services) /\ (k + 1) - 1 = k /\ k <= Len(services)
      BY <1>1, <2>1, <2>2
    <3>2. WalkHas(w[k], q, max, self, k)
      BY <3>1
    <3>3. w[k + 1] = LookupOne(w[k], services[k + 1], q, max, self)
      BY <1>2, <3>1
    <3>4. WalkHas(LookupOne(w[k], services[k + 1], q, max, self), q, max, self, k + 1)
      BY <1>1, <2>1, <3>1, <3>2, WalkStep
    <3> QED
      BY <2>1, <3>3, <3>4
  <2>3. CASE ~(k + 1 <= Len(services))
    BY <2>1, <2>3
  <2> QED
    BY <2>2, <2>3
<1>6. S = Nat
  <2> HIDE DEF S
  <2>1. S \subseteq Nat
    BY DEF S
  <2> QED
    BY <1>4, <1>5, <2>1, AllNat
<1> QED
  BY <1>1, <1>6 DEF w

\* A lookup, of whatever table, gives the services it should.
LEMMA LookupIs ==
    ASSUME services \in Seq(Service), NEW q, NEW max \in Nat, NEW self \in BOOLEAN
    PROVE  IF Unreached(Passed(q, max, self), self) THEN Lookup(q, max, self) = <<>>
           ELSE Collected(Lookup(q, max, self), Passed(q, max, self))
<1> DEFINE n == Len(services)
<1>1. n \in Nat /\ DOMAIN services = 1..n
  BY LenProperties
<1>2. PassedTo(q, max, self, n) = Passed(q, max, self)
  BY <1>1 DEF PassedTo, Passed, WantedAt
<1> QED
  BY <1>2, WalkHasAll DEF WalkHas, Lookup, Blocked

\* A lookup gives the first max_results of the services asked for, in the
\* order of the table turned round, or nothing when the host of one of them
\* has no addresses (lookup_service).
THEOREM LookupTheorem == Spec => []LookupAgrees
<1>1. TypeOK => LookupAgrees
  <2> SUFFICES ASSUME services \in Seq(Service),
                      NEW q \in [type : Types, inst : Instances \cup {None}],
                      NEW max \in 0..MaxServices, NEW self \in BOOLEAN
               PROVE  LET found == Lookup(q, max, self)
                          passed == Passed(q, max, self)
                      IN  IF ~self /\ \E i \in passed : ~HasAddress(services[i].host)
                          THEN found = <<>>
                          ELSE /\ Len(found) = Cardinality(passed)
                               /\ \A i \in passed :
                                    found[Cardinality({j \in passed : j >= i})] = services[i]
    BY DEF TypeOK, LookupAgrees
  <2>1. max \in Nat
    BY NumbersAssumption
  <2> QED
    BY <2>1, LookupIs DEF Unreached, Collected
<1> QED
  BY <1>1, TypeCorrect, PTL
=============================================================================
