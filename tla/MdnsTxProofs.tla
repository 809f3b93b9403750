---------------------------- MODULE MdnsTxProofs ----------------------------
(***************************************************************************)
(* Machine-checked proofs about MdnsTx, for every set of services, every   *)
(* length of the action queue and every number of events.                  *)
(*                                                                         *)
(* The functions of the library take tables and return tables, and call    *)
(* each other; so do the lemmas: each says of one function that it leaves  *)
(* Good what was Good (every interface has in the queue what its state     *)
(* waits for) and Clean what was Clean (only services that are there are   *)
(* probed and queued, and no more than memory was asked for).              *)
(***************************************************************************)
EXTENDS MdnsTx, FiniteSetTheorems, WellFoundedInduction, TLAPS

(* Finite sets *)

\* A finite set of numbers that is not empty has a greatest one.
LEMMA MaxExists ==
    ASSUME NEW S, S \subseteq Nat, IsFiniteSet(S), S # {}
    PROVE  Max(S) \in S
<1> DEFINE HasMax(U) == \E x \in U : \A y \in U : x >= y
           Bad == {U \in FiniteSubsetsOf(S) : U # {} /\ ~HasMax(U)}
<1>1. HasMax(S)
  <2> SUFFICES ASSUME Bad # {} PROVE FALSE
    <3>1. S \in FiniteSubsetsOf(S)
      BY DEF FiniteSubsetsOf
    <3> QED
      BY <3>1
  <2>1. PICK U \in Bad : \A V \in Bad : <<V, U>> \notin StrictSubsetOrdering(S)
    <3>1. IsWellFoundedOn(StrictSubsetOrdering(S), FiniteSubsetsOf(S))
      BY FS_StrictSubsetOrderingWellFounded
    <3>2. Bad \subseteq FiniteSubsetsOf(S)
      OBVIOUS
    <3> HIDE DEF Bad
    <3> QED
      BY <3>1, <3>2, WFMin
  <2>2. U \subseteq S /\ IsFiniteSet(U) /\ U # {} /\ ~HasMax(U)
    BY DEF FiniteSubsetsOf
  <2>3. PICK n \in U : TRUE
    BY <2>2
  <2>4. U \ {n} \notin Bad
    <3>1. <<U \ {n}, U>> \in StrictSubsetOrdering(S)
      BY <2>2, <2>3 DEF StrictSubsetOrdering
    <3> QED
      BY <2>1, <3>1
  <2>5. U \ {n} = {} \/ HasMax(U \ {n})
    <3>1. U \ {n} \in FiniteSubsetsOf(S)
      BY <2>2, FS_RemoveElement DEF FiniteSubsetsOf
    <3> QED
      BY <2>4, <3>1
  <2>6. CASE U \ {n} = {}
    <3>1. \A y \in U : y = n
      BY <2>6
    <3>2. n \in Nat
      BY <2>2, <2>3
    <3>3. \A y \in U : n >= y
      BY <3>1, <3>2
    <3> QED
      BY <2>2, <2>3, <3>3
  <2>7. CASE HasMax(U \ {n})
    <3>1. PICK m \in U \ {n} : \A y \in U \ {n} : m >= y
      BY <2>7
    <3>2. m \in Nat /\ n \in Nat /\ U \subseteq Nat
      BY <2>2, <2>3, <3>1
    <3>3. CASE m >= n
      <4>1. \A y \in U : m >= y
        BY <3>1, <3>3
      <4> QED
        BY <2>2, <3>1, <4>1
    <3>4. CASE n >= m
      <4>1. \A y \in U : n >= y
        BY <3>1, <3>2, <3>4
      <4> QED
        BY <2>2, <2>3, <4>1
    <3> QED
      BY <3>2, <3>3, <3>4
  <2> QED
    BY <2>5, <2>6, <2>7
<1> QED
  BY <1>1 DEF Max

\* What a function makes of a finite set is finite.
LEMMA FiniteImage ==
    ASSUME NEW S, IsFiniteSet(S), NEW f
    PROVE  IsFiniteSet({f[x] : x \in S})
<1> DEFINE T == {f[x] : x \in S}
           g == [x \in S |-> f[x]]
<1>1. g \in Surjection(S, T)
  BY DEF Surjection
<1> QED
  BY <1>1, FS_Surjection

\* Some number up to n + 1 is not in a set of n numbers.
LEMMA FreshExists ==
    ASSUME NEW S, IsFiniteSet(S)
    PROVE  (1 .. Cardinality(S) + 1) \ S # {}
<1> DEFINE n == Cardinality(S)
<1>1. n \in Nat
  BY FS_CardinalityType
<1>2. IsFiniteSet(1 .. n + 1) /\ Cardinality(1 .. n + 1) = n + 1
  BY <1>1, FS_Interval
<1>3. ASSUME (1 .. n + 1) \subseteq S PROVE FALSE
  <2>1. Cardinality(1 .. n + 1) <= n
    BY <1>3, FS_Subset
  <2> QED
    BY <1>1, <1>2, <2>1
<1> QED
  BY <1>3

-----------------------------------------------------------------------------
(* The transmit queue *)

Tab == [ready : SUBSET Ifs, pcb : [Ifs -> PcbState], txq : SUBSET Packet,
        services : SUBSET Services, named : BOOLEAN, inst : BOOLEAN]

\* A queue in memory: finite, with an address for each packet.
Queue(Q) ==
    /\ Q \subseteq Packet /\ IsFiniteSet(Q)
    /\ \A p, r \in Q : p.addr = r.addr => p = r

\* An allocated packet has an address of its own.
LEMMA AllocFresh ==
    ASSUME NEW w \in Tab, Queue(w.txq), NEW taken, IsFiniteSet(taken), NEW c \in Ifs,
           NEW q \in SUBSET Subjects, NEW srv \in SUBSET Subjects, NEW ans \in SUBSET Subjects
    PROVE  LET p == Alloc(w, taken, c, q, srv, ans) IN
           /\ p \in Packet /\ p.if = c /\ p.q = q /\ p.srv = srv /\ p.ans = ans
           /\ p.addr \notin Addresses(w.txq) \cup taken
<1> DEFINE used == Addresses(w.txq) \cup taken
           f == [p \in w.txq |-> p.addr]
<1>1. IsFiniteSet(Addresses(w.txq))
  <2>1. Addresses(w.txq) = {f[p] : p \in w.txq}
    BY DEF Addresses
  <2> HIDE DEF f
  <2> QED
    BY <2>1, FiniteImage DEF Queue
<1>2. IsFiniteSet(used)
  BY <1>1, FS_Union
<1>3. (1 .. Cardinality(used) + 1) \ used # {}
  BY <1>2, FreshExists
<1>4. Cardinality(used) \in Nat
  BY <1>2, FS_CardinalityType
<1> HIDE DEF used
<1> DEFINE a == CHOOSE x \in (1 .. Cardinality(used) + 1) \ used : TRUE
<1>5. a \in (1 .. Cardinality(used) + 1) \ used
  BY <1>3
<1>6. a \in Nat \ {0} /\ a \notin used
  BY <1>4, <1>5
<1>7. Alloc(w, taken, c, q, srv, ans) =
        [addr |-> a, if |-> c, wait |-> 0, gen |-> 0, queued |-> FALSE,
         q |-> q, srv |-> srv, ans |-> ans]
  BY DEF Alloc, used
<1> HIDE DEF a
<1> QED
  BY <1>6, <1>7 DEF Packet, used

Delays == 0..2
Plus(P, n) == P \cup {n}

\* The packet sent comes in, marked with its place; the others stay.
Sent(w, p, delay) == [p EXCEPT !.wait = delay, !.gen = NextGen(w.txq, delay)]

\* mdns_priv_send_after puts one packet in, under an address of its own, and leaves
\* the packets of the other interface alone.
LEMMA SendAfterQueue ==
    ASSUME NEW w \in Tab, Queue(w.txq), NEW p \in Packet, p.addr \notin Addresses(w.txq),
           NEW delay \in Delays, NEW c, p.if = c
    PROVE  LET v == SendAfter(w, p, delay) IN
           /\ v \in Tab /\ Queue(v.txq)
           /\ v.ready = w.ready /\ v.services = w.services /\ v.named = w.named
           /\ v.pcb = w.pcb /\ v.inst = w.inst
           /\ LET r == Sent(w, p, delay) IN
                r \in Packet /\ r.if = p.if /\ r.q = p.q /\ r.srv = p.srv /\ r.ans = p.ans
           /\ Of(v.txq, c) = Plus(Of(w.txq, c), Sent(w, p, delay))
           /\ \A d \in Ifs \ {c} : Of(v.txq, d) = Of(w.txq, d)
<1> DEFINE G == {r \in w.txq : r.wait = delay}
           f == [r \in G |-> r.gen]
           gens == {r.gen : r \in G} \cup {0}
<1>1. IsFiniteSet(gens)
  <2>1. IsFiniteSet(G)
    BY FS_Subset DEF Queue
  <2>2. {r.gen : r \in G} = {f[r] : r \in G}
    OBVIOUS
  <2>3. IsFiniteSet({r.gen : r \in G})
    <3>1. IsFiniteSet({f[r] : r \in G})
      <4> HIDE DEF f, G
      <4> QED
        BY <2>1, FiniteImage
    <3> QED
      BY <2>2, <3>1
  <2> QED
    BY <2>3, FS_AddElement
<1>2. gens \subseteq Nat
  BY DEF Queue, Packet
<1>3. NextGen(w.txq, delay) \in Nat
  <2>1. NextGen(w.txq, delay) = Max(gens) + 1
    BY DEF NextGen
  <2>2. 0 \in gens
    OBVIOUS
  <2>3. Max(gens) \in Nat
    <3> HIDE DEF gens
    <3> QED
      BY <1>1, <1>2, <2>2, MaxExists
  <2> QED
    BY <2>1, <2>3
<1> DEFINE g == NextGen(w.txq, delay)
           r == Sent(w, p, delay)
<1>4. g \in Nat
  BY <1>3
<1> HIDE DEF g
<1>5. r \in Packet /\ r.addr = p.addr /\ r.if = p.if /\ r.q = p.q /\ r.srv = p.srv /\ r.ans = p.ans
  BY <1>4 DEF Packet, Sent, Delays, g
<1>6. SendAfter(w, p, delay) = [w EXCEPT !.txq = @ \cup {r}]
  BY DEF SendAfter, Sent
<1> HIDE DEF r
<1> DEFINE v == SendAfter(w, p, delay)
<1>7. Queue(w.txq \cup {r})
  BY <1>5, FS_AddElement DEF Queue, Addresses
<1>8. /\ v \in Tab /\ v.txq = w.txq \cup {r} /\ v.ready = w.ready /\ v.services = w.services
      /\ v.named = w.named /\ v.pcb = w.pcb /\ v.inst = w.inst
  BY <1>5, <1>6 DEF Tab
<1>9. /\ Of(w.txq \cup {r}, c) = Of(w.txq, c) \cup {r}
      /\ \A d \in Ifs \ {c} : Of(w.txq \cup {r}, d) = Of(w.txq, d)
  BY <1>5 DEF Of
<1> HIDE DEF v
<1> QED
  BY <1>5, <1>7, <1>8, <1>9 DEF v, r, Plus

-----------------------------------------------------------------------------
(* The inductive invariant, for one interface and for the tables *)

\* An interface that takes part: while it probes it has one packet, which asks
\* for what is probed; otherwise its packets carry no SRV record.  While it
\* announces it has a packet, and none of its packets is empty.
Driven(w, c) ==
    c \in w.ready =>
        /\ IF w.pcb[c].state \in Probe1..Probe3
           THEN /\ w.pcb[c].probing # {} \/ w.pcb[c].ip
                /\ \E p \in Of(w.txq, c) :
                     /\ Of(w.txq, c) = {p}
                     /\ p.srv = w.pcb[c].probing \cup HostIf(w.pcb[c].ip)
           ELSE \A p \in Of(w.txq, c) : p.srv \subseteq {Host}
        /\ IsAnnouncing(w.pcb[c]) => Of(w.txq, c) # {}
        /\ \A p \in Of(w.txq, c) : p.q \cup p.srv \cup p.ans # {}

\* Nothing is probed before the host name is set, and a duplicate has its twin.
Named(w, c) == w.pcb[c].probing # {} => w.named
HasTwin(w, c) == w.pcb[c].state = Dup => c \notin w.ready /\ Other(c) \in w.ready

\* An interface that takes no part is silent and has nothing to send.
Silent(w, c) ==
    c \notin w.ready =>
        w.pcb[c].state \in {Off, Dup} /\ w.pcb[c].probing = {} /\ Of(w.txq, c) = {}

\* What is probed and what is sent are services there are, and the list of what
\* is probed is empty while the interface does not probe.
Live(w, c) ==
    /\ \A p \in Of(w.txq, c) : (p.srv \cup p.ans) \ {Host} \subseteq w.services
    /\ w.pcb[c].probing \subseteq w.services
    /\ w.pcb[c].probing # {} => IsProbing(w.pcb[c])

Good(w) ==
    /\ w \in Tab /\ Queue(w.txq)
    /\ \A c \in Ifs : Driven(w, c) /\ Named(w, c) /\ HasTwin(w, c)
Clean(w) == \A c \in Ifs : Silent(w, c) /\ Live(w, c)

\* v differs from w in the packets and the state of interface c only.
Local(w, v, c) ==
    /\ v \in Tab /\ Queue(v.txq)
    /\ v.ready = w.ready /\ v.services = w.services /\ v.named = w.named
    /\ \A d \in Ifs \ {c} : v.pcb[d] = w.pcb[d] /\ Of(v.txq, d) = Of(w.txq, d)

\* Changing the record of an interface, or its state.
WithPcb(w, c, b) == [w EXCEPT !.pcb[c] = b]
WithState(w, c, s) == [w EXCEPT !.pcb[c].state = s]
ProbingFrom(b, l, i) ==
    [b EXCEPT !.state = Probe1, !.probing = l, !.ip = i, !.running = TRUE]

\* Setting the record of an interface leaves everything else.
LEMMA WithPcbType ==
    ASSUME NEW w \in Tab, NEW c \in Ifs, NEW b \in PcbState
    PROVE  LET v == WithPcb(w, c, b) IN
           /\ v \in Tab /\ v.pcb[c] = b /\ \A d \in Ifs \ {c} : v.pcb[d] = w.pcb[d]
           /\ v.txq = w.txq /\ v.ready = w.ready /\ v.services = w.services /\ v.named = w.named
  BY DEF Tab, WithPcb

\* The same for its state alone.
LEMMA WithStateType ==
    ASSUME NEW w \in Tab, NEW c \in Ifs, NEW s \in States
    PROVE  LET v == WithState(w, c, s) IN
           /\ v \in Tab /\ v.pcb[c].state = s
           /\ v.pcb[c].probing = w.pcb[c].probing /\ v.pcb[c].ip = w.pcb[c].ip
           /\ \A d \in Ifs \ {c} : v.pcb[d] = w.pcb[d]
           /\ v.txq = w.txq /\ v.ready = w.ready /\ v.services = w.services /\ v.named = w.named
<1> DEFINE b == [w.pcb[c] EXCEPT !.state = s]
<1>1. w.pcb[c] \in PcbState
  BY DEF Tab
<1>2. b \in PcbState /\ b.state = s /\ b.probing = w.pcb[c].probing /\ b.ip = w.pcb[c].ip
  BY <1>1 DEF PcbState
<1>3. WithState(w, c, s) = WithPcb(w, c, b)
  BY DEF Tab, WithState, WithPcb
<1> HIDE DEF b
<1> QED
  BY <1>2, <1>3, WithPcbType

\* What init_probe_new_service makes of the record has its type.
LEMMA ProbingFromType ==
    ASSUME NEW b \in PcbState, NEW l \in SUBSET Services, NEW i \in BOOLEAN
    PROVE  LET e == ProbingFrom(b, l, i) IN
           e \in PcbState /\ e.state = Probe1 /\ e.probing = l /\ e.ip = i
<1>1. Probe1 \in States
  BY DEF States, Probe1, Running
<1> QED
  BY <1>1 DEF PcbState, ProbingFrom

\* The other interface is left as it was.
LEMMA LocalFrame ==
    ASSUME NEW w, NEW v, NEW c \in Ifs, Local(w, v, c), NEW d \in Ifs \ {c}
    PROVE  /\ Driven(v, d) <=> Driven(w, d)
           /\ Named(v, d) <=> Named(w, d)
           /\ HasTwin(v, d) <=> HasTwin(w, d)
           /\ Silent(v, d) <=> Silent(w, d)
           /\ Live(v, d) <=> Live(w, d)
<1>1. v.pcb[d] = w.pcb[d] /\ Of(v.txq, d) = Of(w.txq, d)
  BY DEF Local
<1>2. v.ready = w.ready /\ v.services = w.services /\ v.named = w.named
  BY DEF Local
<1> QED
  BY <1>1, <1>2 DEF Driven, Named, HasTwin, Silent, Live

\* Clearing the queue of an interface.
LEMMA ClearTxQueueIfLocal ==
    ASSUME NEW w \in Tab, Queue(w.txq), NEW c \in Ifs
    PROVE  LET v == ClearTxQueueIf(w, c) IN
           /\ Local(w, v, c) /\ v.pcb = w.pcb /\ Of(v.txq, c) = {}
<1> DEFINE v == ClearTxQueueIf(w, c)
<1>1. v = [w EXCEPT !.txq = w.txq \ Of(w.txq, c)]
  BY DEF ClearTxQueueIf
<1>2. v.txq = w.txq \ Of(w.txq, c) /\ v.txq \subseteq w.txq
  BY <1>1 DEF Tab
<1>3. v \in Tab /\ v.ready = w.ready /\ v.services = w.services /\ v.named = w.named /\ v.pcb = w.pcb
  BY <1>1 DEF Tab
<1> HIDE DEF v
<1>4. Queue(v.txq)
  BY <1>2, FS_Subset DEF Queue
<1>5. Of(v.txq, c) = {} /\ \A d \in Ifs \ {c} : Of(v.txq, d) = Of(w.txq, d)
  BY <1>2 DEF Of
<1> QED
  BY <1>3, <1>4, <1>5 DEF Local, v

\* mdns_priv_init_pcb_probe leaves the interface probing something, with the
\* packet that asks for it, or running without a packet.
LEMMA InitPcbProbeLocal ==
    ASSUME NEW w \in Tab, Queue(w.txq), NEW c \in Ifs, Named(w, c),
           NEW svcs \in SUBSET Services, NEW ip \in BOOLEAN,
           svcs # {} \/ ip \/ w.pcb[c].probing # {} \/ w.pcb[c].ip
    PROVE  LET v == InitPcbProbe(w, c, svcs, ip) IN
           /\ Local(w, v, c) /\ v.pcb[c].state \in {Probe1, Running}
           /\ w.named => v.pcb[c].state = Probe1
           /\ Driven(v, c) /\ Named(v, c) /\ HasTwin(v, c)
           /\ svcs \subseteq w.services /\ Live(w, c) => Live(v, c)
<1> DEFINE u == ClearTxQueueIf(w, c)
           v == InitPcbProbe(w, c, svcs, ip)
<1>1. Local(w, u, c) /\ u.pcb = w.pcb /\ Of(u.txq, c) = {}
  BY ClearTxQueueIfLocal
<1>2. u \in Tab /\ Queue(u.txq) /\ u.ready = w.ready /\ u.services = w.services /\ u.named = w.named
  BY <1>1 DEF Local
<1>3. CASE ~w.named
  <2>1. v = WithState(u, c, Running)
    BY <1>2, <1>3 DEF InitPcbProbe, WithState
  <2> HIDE DEF u
  <2>2. /\ v \in Tab /\ v.txq = u.txq /\ v.ready = u.ready /\ v.services = u.services
        /\ v.named = u.named /\ v.pcb[c].state = Running /\ v.pcb[c].probing = u.pcb[c].probing
        /\ \A d \in Ifs \ {c} : v.pcb[d] = u.pcb[d]
    <3>1. Running \in States
      BY DEF States, Running, Probe1
    <3> QED
      BY <2>1, <1>2, <3>1, WithStateType
  <2> HIDE DEF v
  <2>3. Local(w, v, c)
    BY <2>2, <1>1, <1>2 DEF Local
  <2>4. v.pcb[c].probing = {} /\ Of(v.txq, c) = {}
    BY <2>2, <1>1, <1>3 DEF Named
  <2> QED
    BY <1>3, <2>2, <2>3, <2>4 DEF Driven, Named, HasTwin, Live, Running, Probe1, Probe3,
       Dup, IsAnnouncing, v
<1>4. CASE w.named
  <2> DEFINE all == svcs \cup w.pcb[c].probing
             withIp == w.pcb[c].ip \/ ip
             b == ProbingFrom(w.pcb[c], all, withIp)
             x == WithPcb(u, c, b)
             asks == all \cup HostIf(withIp)
             p == Alloc(u, {}, c, asks, asks, {})
             delay == IF w.pcb[c].failed > FailLimit THEN 2 ELSE 1
  <2> HIDE DEF u
  <2>1. all \subseteq Services /\ withIp \in BOOLEAN /\ asks \subseteq Subjects
    BY DEF Tab, PcbState, Subjects, HostIf
  <2>2. all # {} \/ withIp
    BY DEF Tab, PcbState
  <2>3. p \in Packet /\ p.if = c /\ p.q = asks /\ p.srv = asks /\ p.ans = {} /\ p.addr \notin Addresses(u.txq)
    BY <1>2, <2>1, FS_EmptySet, AllocFresh
  <2>4. w.pcb[c] \in PcbState
    BY DEF Tab
  <2>5. /\ b \in PcbState /\ b.state = Probe1 /\ b.probing = all /\ b.ip = withIp
    BY <2>1, <2>4, ProbingFromType, ZenonT(30)
  <2>6. v = SendAfter(x, p, delay)
    BY <1>1, <1>2, <1>4 DEF InitPcbProbe, InitProbeNewService, ProbePacket, WithPcb, ProbingFrom, u
  <2> HIDE DEF b, p, v, delay, asks
  <2>7. /\ x \in Tab /\ x.txq = u.txq /\ x.ready = u.ready /\ x.services = u.services
        /\ x.named = u.named /\ x.pcb[c] = b /\ \A d \in Ifs \ {c} : x.pcb[d] = u.pcb[d]
    BY <1>2, <2>5, WithPcbType
  <2> HIDE DEF x
  <2>8. delay \in Delays
    BY DEF delay, Delays
  <2>9. /\ v \in Tab /\ Queue(v.txq)
        /\ v.ready = x.ready /\ v.services = x.services /\ v.named = x.named /\ v.pcb = x.pcb
        /\ \A d \in Ifs \ {c} : Of(v.txq, d) = Of(x.txq, d)
    BY <1>2, <2>3, <2>6, <2>7, <2>8, SendAfterQueue
  <2> DEFINE r == Sent(x, p, delay)
  <2>10. /\ r \in Packet /\ r.q = asks /\ r.srv = asks /\ r.ans = {}
         /\ Of(v.txq, c) = Of(x.txq, c) \cup {r}
    <3>1. x \in Tab /\ Queue(x.txq) /\ p \in Packet /\ p.addr \notin Addresses(x.txq)
      BY <1>2, <2>3, <2>7
    <3>2. r \in Packet /\ r.q = p.q /\ r.srv = p.srv /\ r.ans = p.ans
      BY <2>8, <3>1, SendAfterQueue
    <3>3. Of(v.txq, c) = Plus(Of(x.txq, c), r)
      BY <2>3, <2>6, <2>8, <3>1, SendAfterQueue
    <3> HIDE DEF r
    <3> QED
      BY <2>3, <3>2, <3>3 DEF Plus
  <2> HIDE DEF r
  <2>12. Local(w, v, c)
    BY <1>1, <1>2, <2>7, <2>9 DEF Local
  <2>13. Of(v.txq, c) = {r} /\ v.pcb[c] = b
    BY <1>1, <2>7, <2>9, <2>10
  <2>14. asks # {}
    BY <2>2 DEF asks, HostIf
  <2>15. Driven(v, c)
    <3> HIDE DEF all, withIp
    <3>1. /\ b.state \in Probe1..Probe3 /\ ~IsAnnouncing(b)
          /\ b.probing # {} \/ b.ip
      BY <2>2, <2>5 DEF Probe1, Probe3, IsAnnouncing
    <3>2. r.srv = b.probing \cup HostIf(b.ip) /\ r.srv # {}
      BY <2>5, <2>10, <2>14 DEF asks
    <3> QED
      BY <2>13, <3>1, <3>2 DEF Driven
  <2>16. Named(v, c) /\ HasTwin(v, c)
    BY <1>2, <1>4, <2>5, <2>7, <2>9, <2>13 DEF Named, HasTwin, Probe1, Dup
  <2>17. svcs \subseteq w.services /\ Live(w, c) => Live(v, c)
    <3> SUFFICES ASSUME svcs \subseteq w.services, Live(w, c) PROVE Live(v, c)
      OBVIOUS
    <3>1. all \subseteq w.services
      BY DEF Live
    <3>2. asks \ {Host} \subseteq w.services
      BY <3>1 DEF asks, HostIf
    <3>3. IsProbing(b)
      BY <2>5 DEF IsProbing, Probe1, Off, Announce1
    <3> QED
      BY <1>2, <2>5, <2>7, <2>9, <2>10, <2>13, <3>1, <3>2, <3>3 DEF Live
  <2> QED
    BY <1>4, <2>5, <2>12, <2>13, <2>15, <2>16, <2>17 DEF v
<1> QED
  BY <1>3, <1>4

\* A change to one interface that leaves that interface in order.
LEMMA LocalGood ==
    ASSUME NEW w, NEW v, NEW c \in Ifs, Local(w, v, c),
           Driven(v, c), Named(v, c), HasTwin(v, c)
    PROVE  /\ Good(w) => Good(v)
           /\ Clean(w) /\ Silent(v, c) /\ Live(v, c) => Clean(v)
<1>1. v \in Tab /\ Queue(v.txq)
  BY DEF Local
<1>2. \A d \in Ifs : d = c \/ d \in Ifs \ {c}
  OBVIOUS
<1> QED
  BY <1>1, <1>2, LocalFrame DEF Good, Clean

\* Two changes of one interface are a change of that interface.
LEMMA LocalTrans ==
    ASSUME NEW w, NEW u, NEW v, NEW c, Local(w, u, c), Local(u, v, c)
    PROVE  Local(w, v, c)
  BY DEF Local

\* So is no change.
LEMMA LocalSame ==
    ASSUME NEW w \in Tab, Queue(w.txq), NEW c
    PROVE  Local(w, w, c)
  BY DEF Local

\* mdns_priv_probe_all_pcbs for one interface: it probes, or is left as it was.
LEMMA ProbePcbLocal ==
    ASSUME NEW w \in Tab, Queue(w.txq), NEW c \in Ifs, Named(w, c), HasTwin(w, c),
           NEW svcs \in SUBSET Services, NEW ip \in BOOLEAN, NEW clearOld \in BOOLEAN,
           svcs # {} \/ ip
    PROVE  LET v == ProbePcb(w, c, svcs, ip, clearOld) IN
           /\ Local(w, v, c) /\ Driven(v, c) /\ Named(v, c) /\ HasTwin(v, c)
           /\ Silent(w, c) => Silent(v, c)
           /\ svcs \subseteq w.services /\ Live(w, c) => Live(v, c)
<1> DEFINE v == ProbePcb(w, c, svcs, ip, clearOld)
<1>1. CASE c \notin w.ready
  <2>1. v = w
    BY <1>1 DEF ProbePcb
  <2> HIDE DEF v
  <2> QED
    BY <1>1, <2>1, LocalSame DEF Driven, v
<1>2. CASE c \in w.ready /\ ~clearOld
  <2>1. v = InitPcbProbe(w, c, svcs, ip)
    BY <1>2 DEF ProbePcb
  <2> HIDE DEF v
  <2>2. Local(w, v, c) /\ Driven(v, c) /\ Named(v, c) /\ HasTwin(v, c)
    BY <2>1, InitPcbProbeLocal
  <2>3. svcs \subseteq w.services /\ Live(w, c) => Live(v, c)
    BY <2>1, InitPcbProbeLocal
  <2>4. Silent(v, c)
    BY <1>2, <2>2 DEF Silent, Local
  <2> QED
    BY <2>2, <2>3, <2>4 DEF v
<1>3. CASE c \in w.ready /\ clearOld
  <2> DEFINE b == [w.pcb[c] EXCEPT !.probing = {}, !.running = FALSE]
             u == WithPcb(w, c, b)
  <2>1. w.pcb[c] \in PcbState
    BY DEF Tab
  <2>2. b \in PcbState /\ b.probing = {}
    BY <2>1 DEF PcbState
  <2>3. v = InitPcbProbe(u, c, svcs, ip)
    BY <1>3 DEF ProbePcb, WithPcb
  <2> HIDE DEF b, u, v
  <2>4. /\ u \in Tab /\ u.pcb[c] = b /\ \A d \in Ifs \ {c} : u.pcb[d] = w.pcb[d]
        /\ u.txq = w.txq /\ u.ready = w.ready /\ u.services = w.services /\ u.named = w.named
    BY <2>2, WithPcbType DEF u
  <2>5. Local(w, u, c) /\ Named(u, c)
    BY <2>2, <2>4 DEF Local, Named
  <2>6. u \in Tab /\ Queue(u.txq)
    BY <2>4
  <2>7. Local(u, v, c) /\ Driven(v, c) /\ Named(v, c) /\ HasTwin(v, c)
    BY <2>3, <2>5, <2>6, InitPcbProbeLocal
  <2>8. svcs \subseteq w.services /\ Live(w, c) => Live(v, c)
    <3>1. Live(w, c) => Live(u, c)
      BY <2>2, <2>4 DEF Live
    <3> QED
      BY <2>3, <2>4, <2>5, <2>6, <3>1, InitPcbProbeLocal
  <2>9. Silent(v, c)
    BY <1>3, <2>4, <2>7 DEF Silent, Local
  <2> QED
    BY <2>5, <2>7, <2>8, <2>9, LocalTrans DEF v
<1> QED
  BY <1>1, <1>2, <1>3

\* mdns_priv_probe_all_pcbs puts every interface in order.
LEMMA ProbeAllPcbsGood ==
    ASSUME NEW w \in Tab, Queue(w.txq), \A c \in Ifs : Named(w, c) /\ HasTwin(w, c),
           NEW svcs \in SUBSET Services, NEW ip \in BOOLEAN, NEW clearOld \in BOOLEAN,
           svcs # {} \/ ip
    PROVE  LET v == ProbeAllPcbs(w, svcs, ip, clearOld) IN
           /\ Good(v) /\ v.ready = w.ready /\ v.services = w.services /\ v.named = w.named
           /\ svcs \subseteq w.services /\ Clean(w) => Clean(v)
<1> DEFINE u == ProbePcb(w, "sta", svcs, ip, clearOld)
           v == ProbePcb(u, "eth", svcs, ip, clearOld)
<1>1. "sta" \in Ifs /\ "eth" \in Ifs /\ "eth" \in Ifs \ {"sta"} /\ "sta" \in Ifs \ {"eth"}
      /\ \A c \in Ifs : c = "sta" \/ c = "eth"
  BY DEF Ifs
<1>2. /\ Local(w, u, "sta") /\ Driven(u, "sta") /\ Named(u, "sta") /\ HasTwin(u, "sta")
      /\ Silent(w, "sta") => Silent(u, "sta")
      /\ svcs \subseteq w.services /\ Live(w, "sta") => Live(u, "sta")
  BY <1>1, ProbePcbLocal
<1> HIDE DEF u
<1>3. u \in Tab /\ Queue(u.txq) /\ u.ready = w.ready /\ u.services = w.services /\ u.named = w.named
  BY <1>2 DEF Local
<1>4. /\ Named(u, "eth") /\ HasTwin(u, "eth")
      /\ Silent(w, "eth") => Silent(u, "eth")
      /\ Live(w, "eth") => Live(u, "eth")
  BY <1>1, <1>2, LocalFrame
<1>5. /\ Local(u, v, "eth") /\ Driven(v, "eth") /\ Named(v, "eth") /\ HasTwin(v, "eth")
      /\ Silent(u, "eth") => Silent(v, "eth")
      /\ svcs \subseteq u.services /\ Live(u, "eth") => Live(v, "eth")
  BY <1>1, <1>3, <1>4, ProbePcbLocal
<1>6. ProbeAllPcbs(w, svcs, ip, clearOld) = v
  BY DEF ProbeAllPcbs, u
<1> HIDE DEF v
<1>7. /\ Driven(v, "sta") /\ Named(v, "sta") /\ HasTwin(v, "sta")
      /\ Silent(u, "sta") => Silent(v, "sta")
      /\ Live(u, "sta") => Live(v, "sta")
  BY <1>1, <1>2, <1>5, LocalFrame
<1>8. v \in Tab /\ Queue(v.txq) /\ v.ready = u.ready /\ v.services = u.services /\ v.named = u.named
  BY <1>5 DEF Local
<1>9. Good(v)
  BY <1>1, <1>5, <1>7, <1>8 DEF Good
<1>10. svcs \subseteq w.services /\ Clean(w) => Clean(v)
  BY <1>1, <1>2, <1>3, <1>4, <1>5, <1>7 DEF Clean
<1> QED
  BY <1>3, <1>6, <1>8, <1>9, <1>10

\* mdns_priv_restart_all_pcbs, whatever was in the queue.
LEMMA RestartAllPcbsGood ==
    ASSUME NEW w \in Tab, \A c \in Ifs : Named(w, c) /\ HasTwin(w, c)
    PROVE  LET v == RestartAllPcbs(w) IN
           /\ Good(v) /\ v.ready = w.ready /\ v.services = w.services /\ v.named = w.named
           /\ Clean(w) => Clean(v)
<1> DEFINE u == [w EXCEPT !.txq = {}]
<1>1. /\ u \in Tab /\ u.txq = {} /\ u.pcb = w.pcb /\ u.ready = w.ready
      /\ u.services = w.services /\ u.named = w.named
  BY DEF Tab
<1> DEFINE yes == TRUE
<1>2. RestartAllPcbs(w) = ProbeAllPcbs(u, w.services, yes, yes) /\ yes \in BOOLEAN /\ yes
  BY DEF RestartAllPcbs
<1> HIDE DEF u, yes
<1>3. Queue(u.txq)
  BY <1>1, FS_EmptySet DEF Queue
<1>4. \A c \in Ifs : Named(u, c) /\ HasTwin(u, c)
  BY <1>1 DEF Named, HasTwin
<1>5. Clean(w) => Clean(u)
  BY <1>1 DEF Clean, Silent, Live, Of
<1>6. w.services \in SUBSET Services
  BY DEF Tab
<1> DEFINE v == ProbeAllPcbs(u, w.services, yes, yes)
<1>7. /\ Good(v) /\ v.ready = u.ready /\ v.services = u.services /\ v.named = u.named
      /\ Clean(u) => Clean(v)
  BY <1>1, <1>2, <1>3, <1>4, <1>6, ProbeAllPcbsGood
<1> HIDE DEF v
<1> QED
  BY <1>1, <1>2, <1>5, <1>7 DEF v

-----------------------------------------------------------------------------
(* mdns_pcb.c *)

\* The state of a pcb record is one of ten; the ones that the macros name.
LEMMA Phases ==
    ASSUME NEW b \in PcbState
    PROVE  /\ b.state \in Nat
           /\ IsProbing(b) <=> b.state = Dup \/ b.state \in Probe1..Probe3
           /\ IsAnnouncing(b) <=> b.state \in Announce1..Announce3
<1>1. b.state \in States
  BY DEF PcbState
<1> QED
  BY <1>1 DEF States, IsProbing, IsAnnouncing, Off, Dup, Probe1, Probe3, Announce1, Announce3, Running

\* The record of an interface has its type.
LEMMA PcbType ==
    ASSUME NEW w \in Tab, NEW c \in Ifs
    PROVE  w.pcb[c] \in PcbState
  BY DEF Tab

\* Announcing: the first packet of the interface carries more answers.
LEMMA JoinedQueue ==
    ASSUME NEW Q, Queue(Q), NEW c \in Ifs, NEW new \in SUBSET Subjects
    PROVE  LET J == Joined(Q, c, new) IN
           /\ Queue(J) /\ \A d \in Ifs \ {c} : Of(J, d) = Of(Q, d)
           /\ Of(Q, c) # {} => Of(J, c) # {}
           /\ \A r \in Of(J, c) : \E p \in Of(Q, c) :
                r.q = p.q /\ r.srv = p.srv /\ p.ans \subseteq r.ans /\ r.ans \subseteq p.ans \cup new
<1> DEFINE Join(p) == IF p \in First(Of(Q, c)) THEN [p EXCEPT !.ans = @ \cup new] ELSE p
           f == [p \in Q |-> Join(p)]
           J == Joined(Q, c, new)
<1>1. ASSUME NEW p \in Q
      PROVE  /\ Join(p) \in Packet /\ Join(p).addr = p.addr /\ Join(p).if = p.if
             /\ Join(p).q = p.q /\ Join(p).srv = p.srv
             /\ p.ans \subseteq Join(p).ans /\ Join(p).ans \subseteq p.ans \cup new
             /\ p.if # c => Join(p) = p
  <2>1. p \in Packet
    BY DEF Queue
  <2>2. p \in First(Of(Q, c)) => p.if = c
    BY DEF First, Of
  <2> QED
    BY <2>1, <2>2 DEF Packet
<1>2. J = {Join(p) : p \in Q} /\ J = {f[p] : p \in Q}
  BY DEF Joined
<1> HIDE DEF Join, J
<1>3. IsFiniteSet(J)
  <2>1. IsFiniteSet({f[p] : p \in Q})
    <3> HIDE DEF f
    <3> QED
      BY FiniteImage DEF Queue
  <2> QED
    BY <1>2, <2>1
<1>4. Queue(J)
  BY <1>1, <1>2, <1>3 DEF Queue
<1>5. \A d \in Ifs \ {c} : Of(J, d) = Of(Q, d)
  BY <1>1, <1>2 DEF Of
<1>6. Of(Q, c) # {} => Of(J, c) # {}
  BY <1>1, <1>2 DEF Of
<1>7. \A r \in Of(J, c) : \E p \in Of(Q, c) :
        r.q = p.q /\ r.srv = p.srv /\ p.ans \subseteq r.ans /\ r.ans \subseteq p.ans \cup new
  BY <1>1, <1>2 DEF Of
<1> QED
  BY <1>4, <1>5, <1>6, <1>7 DEF J

\* mdns_priv_pcb_announce
LEMMA AnnounceGood ==
    ASSUME NEW w, Good(w), NEW c \in Ifs,
           NEW svcs \in SUBSET Services, NEW ip \in BOOLEAN, svcs # {} \/ ip
    PROVE  LET v == Announce(w, c, svcs, ip) IN
           /\ Good(v) /\ v.ready = w.ready /\ v.services = w.services /\ v.named = w.named
           /\ svcs \subseteq w.services /\ Clean(w) => Clean(v)
<1> DEFINE v == Announce(w, c, svcs, ip)
<1>1. /\ w \in Tab /\ Queue(w.txq) /\ w.pcb[c] \in PcbState
      /\ Driven(w, c) /\ Named(w, c) /\ HasTwin(w, c)
  BY PcbType DEF Good
<1>2. c \in w.ready => w.pcb[c].state # Dup
  BY <1>1 DEF HasTwin
<1>3. SUFFICES \/ v = w
               \/ /\ c \in w.ready
                  /\ Local(w, v, c) /\ Driven(v, c) /\ Named(v, c) /\ HasTwin(v, c)
                  /\ svcs \subseteq w.services /\ Live(w, c) => Live(v, c)
  <2>1. CASE v = w
    BY <2>1
  <2>2. CASE /\ c \in w.ready
             /\ Local(w, v, c) /\ Driven(v, c) /\ Named(v, c) /\ HasTwin(v, c)
             /\ svcs \subseteq w.services /\ Live(w, c) => Live(v, c)
    <3> HIDE DEF v
    <3>1. v.ready = w.ready /\ v.services = w.services /\ v.named = w.named
      BY <2>2 DEF Local
    <3>2. Good(v)
      BY <2>2, LocalGood
    <3>3. Silent(v, c)
      BY <2>2, <3>1 DEF Silent
    <3>4. svcs \subseteq w.services /\ Clean(w) => Clean(v)
      <4>1. Clean(w) => Live(w, c)
        BY DEF Clean
      <4> QED
        BY <2>2, <3>3, <4>1, LocalGood
    <3> QED
      BY <3>1, <3>2, <3>4 DEF v
  <2> QED
    BY <1>3, <2>1, <2>2
<1>4. CASE c \in w.ready /\ IsProbing(w.pcb[c])
  <2>1. ~IsAnnouncing(w.pcb[c]) /\ w.pcb[c].state # Running /\ w.pcb[c].state \in Probe1..Probe3
    BY <1>1, <1>2, <1>4, Phases DEF Dup, Probe1, Probe3, Announce1, Announce3, Running
  <2>2. v = InitPcbProbe(w, c, svcs, ip)
    BY <1>4, <2>1 DEF Announce
  <2> HIDE DEF v
  <2> QED
    BY <1>1, <1>4, <2>2, InitPcbProbeLocal
<1>5. CASE c \in w.ready /\ IsAnnouncing(w.pcb[c]) /\ Of(w.txq, c) # {}
  <2> DEFINE new == svcs \cup HostIf(ip)
             J == Joined(w.txq, c, new)
             x == WithState(w, c, Announce1)
  <2>1. /\ ~IsProbing(w.pcb[c]) /\ w.pcb[c].state # Running
        /\ w.pcb[c].state \notin Probe1..Probe3 /\ Announce1 \in States /\ Announce1 # Dup
        /\ Announce1 \notin Probe1..Probe3
    BY <1>1, <1>5, Phases DEF States, Dup, Probe1, Probe3, Announce1, Announce3, Running
  <2>2. v = [x EXCEPT !.txq = J]
    BY <1>5, <2>1 DEF Announce, WithState, Tab
  <2> HIDE DEF v
  <2>3. /\ x \in Tab /\ x.pcb[c].state = Announce1
        /\ x.pcb[c].probing = w.pcb[c].probing /\ x.pcb[c].ip = w.pcb[c].ip
        /\ \A d \in Ifs \ {c} : x.pcb[d] = w.pcb[d]
        /\ x.ready = w.ready /\ x.services = w.services /\ x.named = w.named
    BY <1>1, <2>1, WithStateType
  <2>4. new \in SUBSET Subjects /\ new \ {Host} \subseteq svcs
    BY DEF Subjects, HostIf
  <2> HIDE DEF x, new
  <2>5. /\ Queue(J) /\ \A d \in Ifs \ {c} : Of(J, d) = Of(w.txq, d)
        /\ Of(w.txq, c) # {} => Of(J, c) # {}
        /\ \A r \in Of(J, c) : \E p \in Of(w.txq, c) :
             r.q = p.q /\ r.srv = p.srv /\ p.ans \subseteq r.ans /\ r.ans \subseteq p.ans \cup new
    BY <1>1, <2>4, JoinedQueue
  <2> HIDE DEF J
  <2>6. /\ v \in Tab /\ v.txq = J /\ v.pcb = x.pcb
        /\ v.ready = x.ready /\ v.services = x.services /\ v.named = x.named
    BY <2>2, <2>3, <2>5 DEF Tab, Queue
  <2>7. Local(w, v, c)
    BY <2>3, <2>5, <2>6 DEF Local
  <2>8. Driven(v, c)
    <3>1. /\ \A p \in Of(w.txq, c) : p.srv \subseteq {Host} /\ p.q \cup p.srv \cup p.ans # {}
      BY <1>1, <1>5, <2>1 DEF Driven
    <3>2. \A r \in Of(J, c) : r.srv \subseteq {Host} /\ r.q \cup r.srv \cup r.ans # {}
      BY <2>5, <3>1
    <3> QED
      BY <1>5, <2>1, <2>3, <2>5, <2>6, <3>2 DEF Driven
  <2>9. Named(v, c) /\ HasTwin(v, c)
    BY <1>1, <2>1, <2>3, <2>6 DEF Named, HasTwin
  <2>10. svcs \subseteq w.services /\ Live(w, c) => Live(v, c)
    <3> SUFFICES ASSUME svcs \subseteq w.services, Live(w, c) PROVE Live(v, c)
      OBVIOUS
    <3>1. \A r \in Of(J, c) : (r.srv \cup r.ans) \ {Host} \subseteq w.services
      BY <2>4, <2>5 DEF Live
    <3>2. w.pcb[c].probing = {}
      BY <2>1 DEF Live
    <3> QED
      BY <2>3, <2>6, <3>1, <3>2 DEF Live
  <2> QED
    BY <1>5, <2>7, <2>8, <2>9, <2>10
<1>6. CASE c \in w.ready /\ w.pcb[c].state = Running /\ w.named
  <2> DEFINE x == WithState(w, c, Announce1)
             p == Alloc(w, {}, c, {}, HostIf(ip), svcs)
  <2>1. /\ ~IsProbing(w.pcb[c]) /\ ~IsAnnouncing(w.pcb[c])
        /\ w.pcb[c].state \notin Probe1..Probe3 /\ Announce1 \in States /\ Announce1 # Dup
        /\ Announce1 \notin Probe1..Probe3
    BY <1>1, <1>6, Phases DEF States, Dup, Probe1, Probe3, Announce1, Announce3, Running
  <2>2. v = SendAfter(x, p, 0)
    BY <1>6, <2>1 DEF Announce, WithState, AnnouncePacket
  <2> HIDE DEF v
  <2>3. /\ x \in Tab /\ x.pcb[c].state = Announce1
        /\ x.pcb[c].probing = w.pcb[c].probing /\ x.pcb[c].ip = w.pcb[c].ip
        /\ \A d \in Ifs \ {c} : x.pcb[d] = w.pcb[d]
        /\ x.txq = w.txq /\ x.ready = w.ready /\ x.services = w.services /\ x.named = w.named
    BY <1>1, <2>1, WithStateType
  <2>4. HostIf(ip) \in SUBSET Subjects /\ svcs \in SUBSET Subjects /\ HostIf(ip) \subseteq {Host}
        /\ HostIf(ip) \cup svcs # {}
    BY DEF Subjects, HostIf
  <2>5. p \in Packet /\ p.if = c /\ p.srv = HostIf(ip) /\ p.ans = svcs /\ p.addr \notin Addresses(w.txq)
    BY <1>1, <2>4, FS_EmptySet, AllocFresh
  <2> HIDE DEF x, p
  <2> DEFINE r == Sent(x, p, 0)
  <2>x. x \in Tab /\ Queue(x.txq) /\ p.addr \notin Addresses(x.txq) /\ 0 \in Delays
    BY <1>1, <2>3, <2>5 DEF Delays
  <2>6. /\ v \in Tab /\ Queue(v.txq)
        /\ v.ready = x.ready /\ v.services = x.services /\ v.named = x.named /\ v.pcb = x.pcb
        /\ \A d \in Ifs \ {c} : Of(v.txq, d) = Of(x.txq, d)
    BY <2>2, <2>5, <2>x, SendAfterQueue
  <2>7. /\ r \in Packet /\ r.q = p.q /\ r.srv = HostIf(ip) /\ r.ans = svcs
        /\ Of(v.txq, c) = Of(w.txq, c) \cup {r}
    <3>1. r \in Packet /\ r.q = p.q /\ r.srv = p.srv /\ r.ans = p.ans
      BY <2>5, <2>x, SendAfterQueue
    <3>2. Of(v.txq, c) = Plus(Of(x.txq, c), r)
      BY <2>2, <2>5, <2>x, SendAfterQueue
    <3> HIDE DEF r
    <3> QED
      BY <2>3, <2>5, <3>1, <3>2 DEF Plus
  <2> HIDE DEF r
  <2>8. Local(w, v, c)
    BY <2>3, <2>6 DEF Local
  <2>9. Driven(v, c)
    <3>1. \A s \in Of(w.txq, c) : s.srv \subseteq {Host} /\ s.q \cup s.srv \cup s.ans # {}
      BY <1>1, <1>6, <2>1 DEF Driven
    <3>2. r.srv \subseteq {Host} /\ r.q \cup r.srv \cup r.ans # {}
      BY <2>4, <2>7
    <3> QED
      BY <2>1, <2>3, <2>6, <2>7, <3>1, <3>2 DEF Driven
  <2>10. Named(v, c) /\ HasTwin(v, c)
    BY <1>1, <2>1, <2>3, <2>6 DEF Named, HasTwin
  <2>11. svcs \subseteq w.services /\ Live(w, c) => Live(v, c)
    <3> SUFFICES ASSUME svcs \subseteq w.services, Live(w, c) PROVE Live(v, c)
      OBVIOUS
    <3>1. w.pcb[c].probing = {}
      BY <2>1 DEF Live
    <3> QED
      BY <2>3, <2>4, <2>6, <2>7, <3>1 DEF Live
  <2> QED
    BY <1>6, <2>8, <2>9, <2>10, <2>11
<1>7. CASE /\ ~(c \in w.ready /\ IsProbing(w.pcb[c]))
           /\ ~(c \in w.ready /\ IsAnnouncing(w.pcb[c]) /\ Of(w.txq, c) # {})
           /\ ~(c \in w.ready /\ w.pcb[c].state = Running /\ w.named)
  BY <1>7 DEF Announce
<1> QED
  BY <1>4, <1>5, <1>6, <1>7

\* Announcing on both interfaces.
LEMMA AnnounceAllPcbsGood ==
    ASSUME NEW w, Good(w), NEW svcs \in SUBSET Services, NEW ip \in BOOLEAN, svcs # {} \/ ip
    PROVE  LET v == AnnounceAllPcbs(w, svcs, ip) IN
           /\ Good(v) /\ v.ready = w.ready /\ v.services = w.services /\ v.named = w.named
           /\ svcs \subseteq w.services /\ Clean(w) => Clean(v)
<1> DEFINE u == Announce(w, "sta", svcs, ip)
           v == Announce(u, "eth", svcs, ip)
<1>1. "sta" \in Ifs /\ "eth" \in Ifs
  BY DEF Ifs
<1>2. /\ Good(u) /\ u.ready = w.ready /\ u.services = w.services /\ u.named = w.named
      /\ svcs \subseteq w.services /\ Clean(w) => Clean(u)
  BY <1>1, AnnounceGood
<1> HIDE DEF u
<1>3. /\ Good(v) /\ v.ready = u.ready /\ v.services = u.services /\ v.named = u.named
      /\ svcs \subseteq u.services /\ Clean(u) => Clean(v)
  BY <1>1, <1>2, AnnounceGood
<1> HIDE DEF v
<1> QED
  BY <1>2, <1>3 DEF AnnounceAllPcbs, u, v

\* Taking part, or coming back: mdns_priv_pcb_enable.
LEMMA EnableGood ==
    ASSUME NEW w, Good(w), NEW c \in Ifs
    PROVE  LET v == Enable(w, c) IN
           /\ Good(v) /\ v.services = w.services /\ v.named = w.named
           /\ \A d \in Ifs \ {c} : d \in v.ready <=> d \in w.ready
           /\ Clean(w) => Clean(v)
<1> DEFINE v == Enable(w, c)
<1>1. /\ w \in Tab /\ Queue(w.txq) /\ w.pcb[c] \in PcbState
      /\ Driven(w, c) /\ Named(w, c) /\ HasTwin(w, c)
  BY PcbType DEF Good
<1>2. CASE c \notin w.ready /\ c \notin link
  <2> DEFINE b == [w.pcb[c] EXCEPT !.failed = 0]
  <2>1. b \in PcbState /\ b.state = w.pcb[c].state /\ b.probing = w.pcb[c].probing /\ b.ip = w.pcb[c].ip
    BY <1>1, NumbersAssumption DEF PcbState
  <2>2. v = WithPcb(w, c, b)
    BY <1>1, <1>2 DEF Enable, WithPcb, Tab
  <2> HIDE DEF b, v
  <2>3. /\ v \in Tab /\ v.pcb[c] = b /\ \A d \in Ifs \ {c} : v.pcb[d] = w.pcb[d]
        /\ v.txq = w.txq /\ v.ready = w.ready /\ v.services = w.services /\ v.named = w.named
    BY <1>1, <2>1, <2>2, WithPcbType
  <2>4. Local(w, v, c)
    BY <1>1, <2>3 DEF Local
  <2>5. Driven(v, c) /\ Named(v, c) /\ HasTwin(v, c)
    BY <1>1, <1>2, <2>1, <2>3 DEF Driven, Named, HasTwin
  <2>6. (Silent(w, c) => Silent(v, c)) /\ (Live(w, c) => Live(v, c))
    BY <2>1, <2>3 DEF Silent, Live, IsProbing
  <2>7. Good(v)
    BY <2>4, <2>5, LocalGood
  <2>8. Clean(w) => Clean(v)
    <3>1. Clean(w) => Silent(w, c) /\ Live(w, c)
      BY DEF Clean
    <3> QED
      BY <2>4, <2>5, <2>6, <3>1, LocalGood
  <2> QED
    BY <2>3, <2>7, <2>8 DEF v
<1>3. CASE c \in w.ready \/ c \in link
  <2> DEFINE u == [w EXCEPT !.ready = @ \cup {c}]
             yes == TRUE
  <2>1. v = InitPcbProbe(u, c, w.services, yes) /\ yes \in BOOLEAN /\ yes
    BY <1>3 DEF Enable
  <2>2. /\ u \in Tab /\ u.ready = w.ready \cup {c} /\ u.pcb = w.pcb /\ u.txq = w.txq
        /\ u.services = w.services /\ u.named = w.named
    BY <1>1 DEF Tab
  <2>3. w.services \in SUBSET Services
    BY <1>1 DEF Tab
  <2> HIDE DEF u, v, yes
  <2>4. \A d \in Ifs \ {c} : Driven(u, d) /\ Named(u, d) /\ HasTwin(u, d)
    BY <2>2 DEF Good, Driven, Named, HasTwin
  <2>5. \A d \in Ifs \ {c} : (Silent(w, d) => Silent(u, d)) /\ (Live(w, d) => Live(u, d))
    BY <2>2 DEF Silent, Live
  <2>6. Named(u, c) /\ (Live(w, c) => Live(u, c))
    BY <1>1, <2>2 DEF Named, Live
  <2>7. /\ Local(u, v, c) /\ Driven(v, c) /\ Named(v, c) /\ HasTwin(v, c)
        /\ Live(u, c) => Live(v, c)
    BY <1>1, <2>1, <2>2, <2>3, <2>6, InitPcbProbeLocal
  <2>8. v \in Tab /\ Queue(v.txq) /\ v.ready = w.ready \cup {c} /\ v.services = w.services /\ v.named = w.named
    BY <2>2, <2>7 DEF Local
  <2>9. \A d \in Ifs \ {c} : /\ Driven(v, d) /\ Named(v, d) /\ HasTwin(v, d)
                             /\ Silent(u, d) => Silent(v, d)
                             /\ Live(u, d) => Live(v, d)
    BY <2>4, <2>7, LocalFrame
  <2>10. \A d \in Ifs : d = c \/ d \in Ifs \ {c}
    OBVIOUS
  <2>11. Good(v)
    BY <2>7, <2>8, <2>9, <2>10 DEF Good
  <2>12. Silent(v, c)
    BY <2>8 DEF Silent
  <2>13. Clean(w) => Clean(v)
    BY <2>5, <2>6, <2>7, <2>9, <2>10, <2>12 DEF Clean
  <2> QED
    BY <2>8, <2>11, <2>13 DEF v
<1> QED
  BY <1>2, <1>3

\* An interface that leaves: its queue is cleared and its record emptied.
LEMMA LeaveFrame ==
    ASSUME NEW w, Good(w), NEW c \in Ifs
    PROVE  LET v == Deinit(ClearTxQueueIf(w, c), c) IN
           /\ v \in Tab /\ Queue(v.txq) /\ v.ready = w.ready \ {c} /\ v.services = w.services
           /\ v.named = w.named /\ v.pcb[c] = EmptyPcb /\ Of(v.txq, c) = {}
           /\ \A d \in Ifs \ {c} :
                /\ v.pcb[d] = w.pcb[d] /\ Of(v.txq, d) = Of(w.txq, d)
                /\ Driven(v, d) /\ Named(v, d)
                /\ Silent(w, d) => Silent(v, d)
                /\ Live(w, d) => Live(v, d)
<1> DEFINE u == ClearTxQueueIf(w, c)
           v == Deinit(u, c)
<1>1. w \in Tab /\ Queue(w.txq)
  BY DEF Good
<1>2. Local(w, u, c) /\ u.pcb = w.pcb /\ Of(u.txq, c) = {}
  BY <1>1, ClearTxQueueIfLocal
<1> HIDE DEF u
<1>3. EmptyPcb \in PcbState
  BY NumbersAssumption DEF EmptyPcb, PcbState, States, Off
<1>4. /\ u \in Tab /\ Queue(u.txq) /\ u.ready = w.ready /\ u.services = w.services /\ u.named = w.named
      /\ \A d \in Ifs \ {c} : Of(u.txq, d) = Of(w.txq, d)
  BY <1>2 DEF Local
<1>5. /\ v \in Tab /\ v.txq = u.txq /\ v.ready = u.ready \ {c} /\ v.services = u.services
      /\ v.named = u.named /\ v.pcb[c] = EmptyPcb /\ \A d \in Ifs \ {c} : v.pcb[d] = u.pcb[d]
  <2> HIDE DEF EmptyPcb
  <2> QED
    BY <1>3, <1>4 DEF Deinit, Tab
<1> HIDE DEF v
<1>6. \A d \in Ifs \ {c} : v.pcb[d] = w.pcb[d] /\ Of(v.txq, d) = Of(w.txq, d) /\ (d \in v.ready <=> d \in w.ready)
  BY <1>2, <1>4, <1>5
<1>7. \A d \in Ifs \ {c} : Driven(v, d) /\ Named(v, d)
  BY <1>4, <1>5, <1>6 DEF Good, Driven, Named
<1>8. \A d \in Ifs \ {c} : (Silent(w, d) => Silent(v, d)) /\ (Live(w, d) => Live(v, d))
  BY <1>4, <1>5, <1>6 DEF Silent, Live
<1> QED
  BY <1>2, <1>4, <1>5, <1>6, <1>7, <1>8 DEF u, v

\* An interface that takes no part goes off, or is marked as a duplicate.
LEMMA StoppedGood ==
    ASSUME NEW w \in Tab, Queue(w.txq), NEW c \in Ifs, c \notin w.ready, Named(w, c),
           \A d \in Ifs \ {c} : Driven(w, d) /\ Named(w, d) /\ HasTwin(w, d),
           NEW s \in {Off, Dup}, s = Dup => Other(c) \in w.ready
    PROVE  LET v == WithState(w, c, s) IN
           /\ Good(v) /\ v.ready = w.ready /\ v.services = w.services /\ v.named = w.named
           /\ Clean(w) => Clean(v)
<1> DEFINE v == WithState(w, c, s)
<1>1. s \in States
  BY DEF States
<1>2. /\ v \in Tab /\ v.pcb[c].state = s /\ v.pcb[c].probing = w.pcb[c].probing
      /\ \A d \in Ifs \ {c} : v.pcb[d] = w.pcb[d]
      /\ v.txq = w.txq /\ v.ready = w.ready /\ v.services = w.services /\ v.named = w.named
  BY <1>1, WithStateType
<1> HIDE DEF v
<1>3. Local(w, v, c)
  BY <1>2 DEF Local
<1>4. Driven(v, c) /\ Named(v, c)
  BY <1>2 DEF Driven, Named
<1>5. HasTwin(v, c)
  BY <1>2 DEF HasTwin
<1>6. \A d \in Ifs \ {c} : Driven(v, d) /\ Named(v, d) /\ HasTwin(v, d)
  BY <1>3, LocalFrame
<1>7. \A d \in Ifs : d = c \/ d \in Ifs \ {c}
  OBVIOUS
<1>8. Good(v)
  BY <1>2, <1>4, <1>5, <1>6, <1>7 DEF Good
<1>9. Silent(w, c) /\ Live(w, c) => Silent(v, c) /\ Live(v, c)
  BY <1>2 DEF Silent, Live
<1>10. Clean(w) => Clean(v)
  <2>1. Clean(w) => Silent(w, c) /\ Live(w, c)
    BY DEF Clean
  <2> QED
    BY <1>3, <1>4, <1>5, <1>9, <2>1, LocalGood
<1> QED
  BY <1>2, <1>8, <1>10 DEF v

\* There are two interfaces, each the other one's twin.
LEMMA OtherIf ==
    ASSUME NEW c \in Ifs
    PROVE  Other(c) \in Ifs \ {c} /\ Ifs \ {c} = {Other(c)} /\ Ifs = {c, Other(c)} /\ Other(Other(c)) = c
  BY DEF Ifs, Other

\* mdns_priv_pcb_disable
LEMMA DisableGood ==
    ASSUME NEW w, Good(w), NEW c \in Ifs
    PROVE  LET v == Disable(w, c) IN
           Good(v) /\ v.services = w.services /\ (Clean(w) => Clean(v))
<1> DEFINE o == Other(c)
<1>1. w \in Tab /\ Queue(w.txq) /\ \A d \in Ifs : Driven(w, d) /\ Named(w, d) /\ HasTwin(w, d)
  BY DEF Good
<1>2. o \in Ifs \ {c} /\ Ifs \ {c} = {o} /\ Ifs \ {o} = {c} /\ Other(o) = c /\ Ifs = {c, o}
  BY OtherIf
<1>3. Off # Dup /\ Off \in {Off, Dup}
  BY DEF Off, Dup
<1>4. CASE c \notin w.ready
  <2>1. Disable(w, c) = WithState(w, c, Off)
    BY <1>4 DEF Disable, WithState
  <2> QED
    BY <1>1, <1>3, <1>4, <2>1, StoppedGood
<1>5. CASE c \in w.ready
  <2> DEFINE u == Deinit(ClearTxQueueIf(w, c), c)
             x == WithState(u, o, Off)
             y == IF u.pcb[o].state = Dup THEN Enable(x, o) ELSE u
  <2>1. /\ u \in Tab /\ Queue(u.txq) /\ u.ready = w.ready \ {c} /\ u.services = w.services
        /\ u.named = w.named /\ u.pcb[c] = EmptyPcb /\ Of(u.txq, c) = {}
        /\ u.pcb[o] = w.pcb[o] /\ Driven(u, o) /\ Named(u, o)
        /\ Silent(w, o) => Silent(u, o)
        /\ Live(w, o) => Live(u, o)
    BY <1>2, LeaveFrame
  <2>2. Disable(w, c) = WithState(y, c, Off)
    BY <1>5 DEF Disable, WithState
  <2> HIDE DEF u
  <2>3. /\ Driven(u, c) /\ Named(u, c) /\ Silent(u, c) /\ Live(u, c) /\ u.pcb[c].state = Off
    BY <2>1 DEF EmptyPcb, Driven, Named, Silent, Live
  <2>4. HasTwin(u, c)
    BY <1>3, <2>3 DEF HasTwin
  <2>5. Clean(w) => Clean(u)
    BY <1>2, <2>1, <2>3 DEF Clean
  <2>6. Good(y) /\ y.services = w.services /\ c \notin y.ready /\ (Clean(w) => Clean(y))
    <3>1. CASE u.pcb[o].state = Dup
      <4>1. o \notin w.ready /\ o \notin u.ready
        BY <1>1, <1>2, <2>1, <3>1 DEF HasTwin
      <4>2. Good(x) /\ x.ready = u.ready /\ x.services = u.services /\ (Clean(u) => Clean(x))
        BY <1>2, <1>3, <2>1, <2>3, <2>4, <4>1, StoppedGood
      <4>3. y = Enable(x, o)
        BY <3>1
      <4> HIDE DEF x, y
      <4>4. /\ Good(y) /\ y.services = x.services /\ (Clean(x) => Clean(y))
            /\ \A d \in Ifs \ {o} : d \in y.ready <=> d \in x.ready
        BY <1>2, <4>2, <4>3, EnableGood
      <4> QED
        BY <1>2, <2>1, <2>5, <4>2, <4>4
    <3>2. CASE u.pcb[o].state # Dup
      <4>1. HasTwin(u, o)
        BY <3>2 DEF HasTwin
      <4>2. Good(u)
        BY <1>2, <2>1, <2>3, <2>4, <4>1 DEF Good
      <4> QED
        BY <2>1, <2>5, <3>2, <4>2
    <3> QED
      BY <3>1, <3>2
  <2> HIDE DEF y
  <2>7. y \in Tab /\ Queue(y.txq) /\ \A d \in Ifs : Driven(y, d) /\ Named(y, d) /\ HasTwin(y, d)
    BY <2>6 DEF Good
  <2> QED
    BY <1>3, <2>2, <2>6, <2>7, StoppedGood
<1> QED
  BY <1>4, <1>5

\* mdns_priv_pcb_set_duplicate
LEMMA SetDuplicateGood ==
    ASSUME NEW w, Good(w), NEW c \in Ifs
    PROVE  LET v == SetDuplicate(w, c) IN
           Good(v) /\ v.services = w.services /\ (Clean(w) => Clean(v))
<1> DEFINE o == Other(c)
           yes == TRUE
<1>1. w \in Tab /\ Queue(w.txq) /\ \A d \in Ifs : Driven(w, d) /\ Named(w, d) /\ HasTwin(w, d)
  BY DEF Good
<1>2. o \in Ifs \ {c} /\ Ifs \ {c} = {o} /\ Ifs = {c, o}
  BY OtherIf
<1>3. CASE o \notin w.ready
  BY <1>3 DEF SetDuplicate
<1>4. CASE o \in w.ready
  <2> DEFINE u == IF c \in w.ready THEN Deinit(ClearTxQueueIf(w, c), c) ELSE w
             x == WithState(u, c, Dup)
  <2>1. SetDuplicate(w, c) = Announce(x, o, {}, yes) /\ yes \in BOOLEAN /\ yes
    BY <1>4 DEF SetDuplicate, WithState
  <2> HIDE DEF yes
  <2>2. w.pcb[o].state # Dup
    BY <1>1, <1>2, <1>4 DEF HasTwin
  <2>3. /\ u \in Tab /\ Queue(u.txq) /\ u.services = w.services /\ o \in u.ready /\ c \notin u.ready
        /\ Named(u, c) /\ Driven(u, o) /\ Named(u, o) /\ HasTwin(u, o)
        /\ Clean(w) => Clean(u)
    <3>1. CASE c \notin w.ready
      BY <1>1, <1>2, <1>4, <3>1
    <3>2. CASE c \in w.ready
      <4>1. u = Deinit(ClearTxQueueIf(w, c), c)
        BY <3>2
      <4> HIDE DEF u
      <4>2. /\ u \in Tab /\ Queue(u.txq) /\ u.ready = w.ready \ {c} /\ u.services = w.services
            /\ u.named = w.named /\ u.pcb[c] = EmptyPcb /\ Of(u.txq, c) = {}
            /\ u.pcb[o] = w.pcb[o] /\ Driven(u, o) /\ Named(u, o)
            /\ Silent(w, o) => Silent(u, o)
            /\ Live(w, o) => Live(u, o)
        BY <1>2, <4>1, LeaveFrame
      <4>3. Named(u, c) /\ Silent(u, c) /\ Live(u, c)
        BY <4>2 DEF EmptyPcb, Named, Silent, Live
      <4>4. HasTwin(u, o)
        BY <2>2, <4>2 DEF HasTwin
      <4>5. Clean(w) => Clean(u)
        BY <1>2, <4>2, <4>3 DEF Clean
      <4> QED
        BY <1>2, <1>4, <4>2, <4>3, <4>4, <4>5
    <3> QED
      BY <3>1, <3>2
  <2> HIDE DEF u
  <2>4. Good(x) /\ x.services = u.services /\ (Clean(u) => Clean(x))
    BY <1>2, <2>3, StoppedGood
  <2> HIDE DEF x
  <2> DEFINE v == Announce(x, o, {}, yes)
  <2>5. {} \in SUBSET Services
    OBVIOUS
  <2>6. Good(v) /\ v.services = x.services /\ (Clean(x) => Clean(v))
    BY <1>2, <2>1, <2>4, <2>5, AnnounceGood
  <2> HIDE DEF v
  <2> QED
    BY <2>1, <2>3, <2>4, <2>6 DEF v
<1> QED
  BY <1>3, <1>4

-----------------------------------------------------------------------------
(* mdns_send.c *)

\* A packet comes back, and its interface moves to state s.
LEMMA RequeueLocal ==
    ASSUME NEW z \in Tab, Queue(z.txq), NEW c \in Ifs, NEW r \in Packet, r.if = c,
           r.addr \notin Addresses(z.txq), NEW delay \in Delays, NEW s \in States
    PROVE  LET v == WithState(SendAfter(z, r, delay), c, s)
               n == Sent(z, r, delay)
           IN  /\ Local(z, v, c) /\ v.pcb[c].state = s
               /\ v.pcb[c].probing = z.pcb[c].probing /\ v.pcb[c].ip = z.pcb[c].ip
               /\ n \in Packet /\ n.q = r.q /\ n.srv = r.srv /\ n.ans = r.ans
               /\ Of(v.txq, c) = Plus(Of(z.txq, c), n)
<1> DEFINE y == SendAfter(z, r, delay)
           n == Sent(z, r, delay)
           v == WithState(y, c, s)
<1>1. /\ y \in Tab /\ Queue(y.txq)
      /\ y.ready = z.ready /\ y.services = z.services /\ y.named = z.named /\ y.pcb = z.pcb
      /\ \A d \in Ifs \ {c} : Of(y.txq, d) = Of(z.txq, d)
  BY SendAfterQueue
<1>2. n \in Packet /\ n.q = r.q /\ n.srv = r.srv /\ n.ans = r.ans
  BY SendAfterQueue
<1>3. Of(y.txq, c) = Plus(Of(z.txq, c), n)
  BY SendAfterQueue
<1> HIDE DEF y, n
<1>4. /\ v \in Tab /\ v.pcb[c].state = s
      /\ v.pcb[c].probing = y.pcb[c].probing /\ v.pcb[c].ip = y.pcb[c].ip
      /\ \A d \in Ifs \ {c} : v.pcb[d] = y.pcb[d]
      /\ v.txq = y.txq /\ v.ready = y.ready /\ v.services = y.services /\ v.named = y.named
  BY <1>1, WithStateType
<1> HIDE DEF v
<1>5. Local(z, v, c)
  BY <1>1, <1>4 DEF Local
<1> QED
  BY <1>1, <1>2, <1>3, <1>4, <1>5 DEF y, n, v

\* What mdns_priv_pcb_schedule_tx_packet makes of a packet taken from the queue.
LEMMA ScheduleGood ==
    ASSUME NEW w, Good(w), NEW p \in w.txq
    PROVE  LET v == Schedule([w EXCEPT !.txq = @ \ {p}], [p EXCEPT !.queued = FALSE]) IN
           Good(v) /\ v.services = w.services /\ v.ready = w.ready /\ (Clean(w) => Clean(v))
<1> DEFINE c == p.if
           u == [w EXCEPT !.txq = @ \ {p}]
           t == [p EXCEPT !.queued = FALSE]
           v == Schedule(u, t)
           b == w.pcb[c]
<1>1. w \in Tab /\ Queue(w.txq) /\ p \in Packet /\ c \in Ifs /\ b \in PcbState
  BY PcbType DEF Good, Queue, Packet
<1>2. Driven(w, c) /\ Named(w, c) /\ HasTwin(w, c)
  BY <1>1 DEF Good
<1>3. /\ t \in Packet /\ t.addr = p.addr /\ t.if = c /\ t.q = p.q /\ t.srv = p.srv /\ t.ans = p.ans
  BY <1>1 DEF Packet
<1>4. /\ u \in Tab /\ u.txq = w.txq \ {p} /\ u.ready = w.ready /\ u.pcb = w.pcb
      /\ u.services = w.services /\ u.named = w.named
  BY <1>1 DEF Tab
<1>c. p.if = c
  OBVIOUS
<1> HIDE DEF c, u, t, v, b
<1>5. Queue(u.txq) /\ t.addr \notin Addresses(u.txq)
  BY <1>1, <1>3, <1>4, FS_Subset DEF Queue, Addresses
<1>6. /\ Of(u.txq, c) = Of(w.txq, c) \ {p} /\ \A d \in Ifs \ {c} : Of(u.txq, d) = Of(w.txq, d)
      /\ p \in Of(w.txq, c)
  BY <1>1, <1>4, <1>c DEF Of
<1>7. Local(w, u, c)
  BY <1>4, <1>5, <1>6 DEF Local
\* v is in order when it is Local, keeps c in order and sends what is live.
<1>8. SUFFICES /\ Local(w, v, c) /\ Driven(v, c) /\ Named(v, c) /\ HasTwin(v, c)
               /\ Silent(w, c) /\ Live(w, c) => Silent(v, c) /\ Live(v, c)
  <2>1. v.services = w.services /\ v.ready = w.ready
    BY <1>8 DEF Local
  <2>2. Good(v)
    BY <1>1, <1>8, LocalGood
  <2>3. Clean(w) => Clean(v)
    <3>1. Clean(w) => Silent(w, c) /\ Live(w, c)
      BY <1>1 DEF Clean
    <3> QED
      BY <1>1, <1>8, <3>1, LocalGood
  <2> QED
    BY <2>1, <2>2, <2>3 DEF u, t, v
<1>9. Silent(w, c) => c \in w.ready
  BY <1>6 DEF Silent
<1>10. CASE b.state \in {Probe1, Probe2, Announce1, Announce1 + 1}
  <2> DEFINE delay == IF b.state \in {Probe1, Probe2} THEN 1 ELSE 2
             y == SendAfter(u, t, delay)
             s == b.state + 1
             n == Sent(u, t, delay)
  <2>1. delay \in Delays /\ s \in States
    BY <1>1, <1>10 DEF Delays, States, Probe1, Probe2, Announce1, Running
  <2>2. y.pcb = u.pcb
    BY <1>3, <1>4, <1>5, <2>1, SendAfterQueue
  <2>3. v = WithState(y, c, s)
    <3>1. u.pcb[t.if].state = b.state
      BY <1>3, <1>4 DEF b
    <3>2. v = WithState(y, t.if, y.pcb[t.if].state + 1)
      <4>1. CASE b.state \in {Probe1, Probe2}
        <5>1. delay = 1
          BY <4>1
        <5>2. v = [SendAfter(u, t, 1) EXCEPT !.pcb[t.if].state = @ + 1]
          BY <3>1, <4>1 DEF Schedule, v, Probe1, Probe2, Probe3, Announce1, Announce3
        <5> QED
          BY <5>1, <5>2 DEF WithState
      <4>2. CASE b.state \in {Announce1, Announce1 + 1}
        <5>1. delay = 2
          BY <4>2 DEF Probe1, Probe2, Announce1
        <5>2. v = [SendAfter(u, t, 2) EXCEPT !.pcb[t.if].state = @ + 1]
          BY <3>1, <4>2 DEF Schedule, v, Probe1, Probe2, Probe3, Announce1, Announce3
        <5> QED
          BY <5>1, <5>2 DEF WithState
      <4> QED
        BY <1>10, <4>1, <4>2
    <3> HIDE DEF y
    <3> QED
      BY <1>3, <2>2, <3>1, <3>2
  <2> HIDE DEF delay, s
  <2>4. /\ Local(u, v, c) /\ v.pcb[c].state = s
        /\ v.pcb[c].probing = u.pcb[c].probing /\ v.pcb[c].ip = u.pcb[c].ip
        /\ n \in Packet /\ n.q = t.q /\ n.srv = t.srv /\ n.ans = t.ans
        /\ Of(v.txq, c) = Of(u.txq, c) \cup {n}
    <3> DEFINE x == WithState(y, c, s)
    <3>1. /\ u \in Tab /\ Queue(u.txq) /\ c \in Ifs /\ t \in Packet /\ t.if = c
          /\ t.addr \notin Addresses(u.txq)
      BY <1>1, <1>3, <1>4, <1>5
    <3>2. /\ Local(u, x, c) /\ x.pcb[c].state = s
          /\ x.pcb[c].probing = u.pcb[c].probing /\ x.pcb[c].ip = u.pcb[c].ip
      BY <2>1, <3>1, RequeueLocal
    <3>3. /\ n \in Packet /\ n.q = t.q /\ n.srv = t.srv /\ n.ans = t.ans
          /\ Of(x.txq, c) = Plus(Of(u.txq, c), n)
      BY <2>1, <3>1, RequeueLocal
    <3> HIDE DEF x, n
    <3> QED
      BY <2>3, <3>2, <3>3 DEF x, Plus
  <2> HIDE DEF n
  <2>5. Of(v.txq, c) = (Of(w.txq, c) \ {p}) \cup {n} /\ n.q = p.q /\ n.srv = p.srv /\ n.ans = p.ans
    BY <1>3, <1>6, <2>4
  <2>6. v.pcb[c].probing = w.pcb[c].probing /\ v.pcb[c].ip = w.pcb[c].ip /\ v.ready = w.ready
        /\ v.named = w.named /\ v.services = w.services
    BY <1>4, <2>4 DEF Local
  <2>7. b = w.pcb[c] /\ v.pcb[c].state = b.state + 1 /\ v.pcb[c].state # Dup
    BY <1>10, <2>4 DEF b, s, Dup, Probe1, Probe2, Announce1
  <2>8. Driven(v, c)
    <3> SUFFICES ASSUME c \in v.ready PROVE Driven(v, c)
      BY DEF Driven
    <3>1. CASE b.state \in {Probe1, Probe2}
      <4>1. b.state \in Probe1..Probe3 /\ v.pcb[c].state \in Probe1..Probe3 /\ ~IsAnnouncing(v.pcb[c])
        BY <2>7, <3>1 DEF Probe1, Probe2, Probe3, IsAnnouncing
      <4>2. /\ w.pcb[c].probing # {} \/ w.pcb[c].ip
            /\ Of(w.txq, c) = {p} /\ p.srv = w.pcb[c].probing \cup HostIf(w.pcb[c].ip)
            /\ p.q \cup p.srv \cup p.ans # {}
        BY <1>2, <1>6, <2>6, <2>7, <4>1 DEF Driven
      <4> QED
        BY <2>5, <2>6, <4>1, <4>2 DEF Driven
    <3>2. CASE b.state \in {Announce1, Announce1 + 1}
      <4>1. b.state \notin Probe1..Probe3 /\ v.pcb[c].state \notin Probe1..Probe3
        BY <2>7, <3>2 DEF Probe1, Probe3, Announce1
      <4>2. \A r \in Of(w.txq, c) : r.srv \subseteq {Host} /\ r.q \cup r.srv \cup r.ans # {}
        BY <1>2, <2>6, <2>7, <4>1 DEF Driven
      <4>3. \A r \in Of(v.txq, c) : r.srv \subseteq {Host} /\ r.q \cup r.srv \cup r.ans # {}
        BY <1>6, <2>5, <4>2
      <4> QED
        BY <2>5, <4>1, <4>3 DEF Driven
    <3> QED
      BY <1>10, <3>1, <3>2
  <2>9. Named(v, c) /\ HasTwin(v, c)
    BY <1>2, <2>6, <2>7 DEF Named, HasTwin
  <2>10. Silent(w, c) /\ Live(w, c) => Silent(v, c) /\ Live(v, c)
    <3> SUFFICES ASSUME Silent(w, c), Live(w, c) PROVE Silent(v, c) /\ Live(v, c)
      OBVIOUS
    <3>1. Silent(v, c)
      BY <1>9, <2>6 DEF Silent
    <3>2. IsProbing(w.pcb[c]) => IsProbing(v.pcb[c])
      BY <1>10, <2>7 DEF IsProbing, Off, Probe1, Probe2, Announce1
    <3> QED
      BY <1>6, <2>5, <2>6, <3>1, <3>2 DEF Live
  <2>11. Local(w, v, c)
    BY <1>7, <2>4, LocalTrans
  <2> QED
    BY <2>8, <2>9, <2>10, <2>11
\* After the third probe: the list is freed, and the packet announced.
<1>11. CASE b.state = Probe3
  <2> DEFINE e == [EmptyPcb EXCEPT !.state = Probe3]
             z == WithPcb(u, c, e)
             srv == t.srv \cup HostIf(t.srv # {})
             a == Alloc(u, {t.addr}, c, {}, {}, srv)
             y == SendAfter(z, a, 1)
             n == Sent(z, a, 1)
  <2>1. 1 \in Delays /\ Announce1 \in States /\ Probe3 + 1 = Announce1
    BY DEF Delays, States, Announce1, Probe1, Probe3, Running
  <2>2. e \in PcbState /\ e.state = Probe3 /\ e.probing = {}
    <3>1. EmptyPcb \in PcbState /\ EmptyPcb.probing = {}
      BY NumbersAssumption DEF EmptyPcb, PcbState, States, Off
    <3>2. Probe3 \in States
      BY DEF States, Probe1, Probe3, Running
    <3> QED
      BY <3>1, <3>2 DEF PcbState
  <2>3. a \in Packet /\ a.if = c /\ a.srv = {} /\ a.ans = srv /\ a.addr \notin Addresses(u.txq)
    <3>1. srv \in SUBSET Subjects
      BY <1>3 DEF Packet, HostIf, Subjects
    <3> DEFINE none == {}
               taken == {t.addr}
    <3>2. none \in SUBSET Subjects /\ none = {} /\ IsFiniteSet(taken)
      BY FS_Singleton
    <3> HIDE DEF srv, none, taken
    <3>3. a = Alloc(u, taken, c, none, none, srv)
      BY <3>2 DEF taken
    <3>4. u \in Tab /\ Queue(u.txq) /\ c \in Ifs
      BY <1>1, <1>4, <1>5
    <3> DEFINE x == Alloc(u, taken, c, none, none, srv)
    <3>5. x \in Packet /\ x.if = c /\ x.srv = none /\ x.ans = srv
      BY <3>1, <3>2, <3>4, AllocFresh
    <3>6. x.addr \notin Addresses(u.txq)
      BY <3>1, <3>2, <3>4, AllocFresh
    <3> HIDE DEF a, x
    <3> QED
      BY <3>2, <3>3, <3>5, <3>6 DEF x
  <2>4. v = WithState(y, c, y.pcb[c].state + 1)
    <3>1. u.pcb[t.if].state = Probe3
      BY <1>3, <1>4, <1>11 DEF b
    <3>2. v = WithState(SendAfter(WithPcb(u, t.if, e), AnnounceFromProbe(u, t), 1), t.if,
                SendAfter(WithPcb(u, t.if, e), AnnounceFromProbe(u, t), 1).pcb[t.if].state + 1)
      BY <3>1 DEF Schedule, v, WithState, WithPcb, Probe1, Probe2, Probe3, Announce1, Announce3
    <3>3. AnnounceFromProbe(u, t) = a
      BY <1>3 DEF AnnounceFromProbe
    <3> HIDE DEF a, e
    <3> QED
      BY <1>3, <3>2, <3>3
  <2> HIDE DEF e, z, srv, a
  <2>5. /\ z \in Tab /\ z.pcb[c] = e /\ \A d \in Ifs \ {c} : z.pcb[d] = u.pcb[d]
        /\ z.txq = u.txq /\ z.ready = u.ready /\ z.services = u.services /\ z.named = u.named
    BY <1>1, <1>4, <2>2, WithPcbType, SMTT(30) DEF z
  <2>6. Local(u, z, c)
    BY <1>5, <2>5 DEF Local
  <2>7. Queue(z.txq) /\ a.addr \notin Addresses(z.txq)
    BY <1>5, <2>3, <2>5
  <2>8. y.pcb = z.pcb
    BY <2>1, <2>3, <2>5, <2>7, SendAfterQueue
  <2>9. v = WithState(y, c, Announce1)
    <3> HIDE DEF y
    <3> QED
      BY <2>1, <2>2, <2>4, <2>5, <2>8
  <2>10. /\ Local(z, v, c) /\ v.pcb[c].state = Announce1
         /\ v.pcb[c].probing = z.pcb[c].probing /\ v.pcb[c].ip = z.pcb[c].ip
         /\ n \in Packet /\ n.q = a.q /\ n.srv = a.srv /\ n.ans = a.ans
         /\ Of(v.txq, c) = Plus(Of(z.txq, c), n)
    <3> DEFINE x == WithState(y, c, Announce1)
    <3>1. /\ Local(z, x, c) /\ x.pcb[c].state = Announce1
          /\ x.pcb[c].probing = z.pcb[c].probing /\ x.pcb[c].ip = z.pcb[c].ip
      BY <1>1, <2>1, <2>3, <2>5, <2>7, RequeueLocal
    <3>2. /\ n \in Packet /\ n.q = a.q /\ n.srv = a.srv /\ n.ans = a.ans
          /\ Of(x.txq, c) = Plus(Of(z.txq, c), n)
      BY <1>1, <2>1, <2>3, <2>5, <2>7, RequeueLocal
    <3> HIDE DEF x, n
    <3> QED
      BY <2>9, <3>1, <3>2 DEF x
  <2> HIDE DEF n
  <2>11. Of(v.txq, c) = (Of(w.txq, c) \ {p}) \cup {n} /\ n.srv = {} /\ n.ans = srv
    BY <1>6, <2>3, <2>5, <2>10 DEF Plus
  <2>12. Local(w, v, c)
    BY <1>7, <2>6, <2>10, LocalTrans
  <2>13. v.ready = w.ready /\ v.named = w.named /\ v.services = w.services
    BY <2>12 DEF Local
  <2>14. v.pcb[c].state \notin Probe1..Probe3 /\ v.pcb[c].state # Dup /\ v.pcb[c].probing = {}
    BY <2>2, <2>5, <2>10 DEF Probe1, Probe3, Announce1, Dup
  <2>15. Driven(v, c)
    <3> SUFFICES ASSUME c \in v.ready PROVE Driven(v, c)
      BY DEF Driven
    <3>1. b.state \in Probe1..Probe3 /\ b = w.pcb[c]
      BY <1>11 DEF Probe1, Probe3, b
    <3>2. /\ w.pcb[c].probing # {} \/ w.pcb[c].ip
          /\ Of(w.txq, c) = {p} /\ p.srv = w.pcb[c].probing \cup HostIf(w.pcb[c].ip)
      BY <1>2, <1>6, <2>13, <3>1 DEF Driven
    <3>3. n.ans # {}
      BY <1>3, <2>11, <3>2 DEF srv, HostIf
    <3> QED
      BY <2>11, <2>14, <3>2, <3>3 DEF Driven
  <2>16. Named(v, c) /\ HasTwin(v, c)
    BY <2>14 DEF Named, HasTwin
  <2>17. Silent(w, c) /\ Live(w, c) => Silent(v, c) /\ Live(v, c)
    <3> SUFFICES ASSUME Silent(w, c), Live(w, c) PROVE Silent(v, c) /\ Live(v, c)
      OBVIOUS
    <3>1. Silent(v, c)
      BY <1>9, <2>13 DEF Silent
    <3>2. srv \ {Host} \subseteq w.services
      BY <1>3, <1>6 DEF Live, srv, HostIf
    <3> QED
      BY <2>11, <2>13, <2>14, <3>1, <3>2 DEF Live
  <2> QED
    BY <2>12, <2>15, <2>16, <2>17
\* The packet is freed: an interface that takes part is running.
<1>12. CASE b.state \notin {Probe1, Probe2, Probe3, Announce1, Announce1 + 1}
  <2> DEFINE s == IF b.state = Announce3 THEN Running ELSE b.state
  <2>1. s \in States /\ s \notin Probe1..Probe3 /\ ~(s > Probe3 /\ s < Running) /\ (s = Dup <=> b.state = Dup)
        /\ b.state \notin Probe1..Probe3
    <3>1. b.state \in States
      BY <1>1 DEF PcbState
    <3> QED
      BY <1>12, <3>1 DEF States, Off, Dup, Probe1, Probe2, Probe3, Announce1, Announce3, Running
  <2>2. v.pcb[c].state = s /\ v.pcb[c].probing = w.pcb[c].probing /\ Local(u, v, c) /\ Of(v.txq, c) = Of(u.txq, c)
    <3>1. u.pcb[t.if].state = b.state
      BY <1>3, <1>4 DEF b
    <3>2. CASE b.state = Announce3
      <4>1. v = WithState(u, t.if, Running)
        BY <3>1, <3>2 DEF Schedule, v, WithState, Probe1, Probe2, Probe3, Announce1, Announce3
      <4>2. v = WithState(u, c, s)
        BY <1>3, <3>2, <4>1
      <4> HIDE DEF s
      <4>3. /\ v \in Tab /\ v.pcb[c].state = s /\ v.pcb[c].probing = u.pcb[c].probing
            /\ \A d \in Ifs \ {c} : v.pcb[d] = u.pcb[d]
            /\ v.txq = u.txq /\ v.ready = u.ready /\ v.services = u.services /\ v.named = u.named
        BY <1>1, <1>4, <2>1, <4>2, WithStateType
      <4> QED
        BY <1>4, <1>5, <4>3 DEF Local
    <3>3. CASE b.state # Announce3
      <4>1. v = u
        BY <1>12, <3>1, <3>3 DEF Schedule, v
      <4> QED
        BY <1>4, <1>5, <3>3, <4>1, LocalSame DEF b
    <3> QED
      BY <3>2, <3>3
  <2>3. Local(w, v, c)
    BY <1>7, <2>2, LocalTrans
  <2>4. v.ready = w.ready /\ v.named = w.named /\ v.services = w.services
    BY <2>3 DEF Local
  <2> HIDE DEF s
  <2>5. Of(v.txq, c) \subseteq Of(w.txq, c)
    BY <1>6, <2>2
  <2>6. Driven(v, c)
    BY <1>2, <2>1, <2>2, <2>4, <2>5 DEF Driven, IsAnnouncing, b
  <2>7. Named(v, c) /\ HasTwin(v, c)
    BY <1>2, <2>1, <2>2, <2>4 DEF Named, HasTwin, b
  <2>8. Silent(w, c) /\ Live(w, c) => Silent(v, c) /\ Live(v, c)
    <3> SUFFICES ASSUME Silent(w, c), Live(w, c) PROVE Silent(v, c) /\ Live(v, c)
      OBVIOUS
    <3>1. Silent(v, c)
      BY <1>9, <2>4 DEF Silent
    <3>2. w.pcb[c].state # Dup
      BY <1>2, <1>9 DEF HasTwin
    <3>3. w.pcb[c].probing = {}
      BY <1>1, <2>1, <3>2, Phases DEF Live, b
    <3> QED
      BY <2>2, <2>4, <2>5, <3>1, <3>3 DEF Live
  <2> QED
    BY <2>3, <2>6, <2>7, <2>8
<1> QED
  BY <1>10, <1>11, <1>12

\* The action of a packet: mdns_priv_send_packet of its head of the queue.
LEMMA SendPacketGood ==
    ASSUME NEW w, Good(w), NEW addr
    PROVE  LET v == SendPacket(w, addr) IN
           Good(v) /\ v.services = w.services /\ (Clean(w) => Clean(v))
<1> DEFINE head == {p \in First(w.txq) : p.addr = addr /\ p.queued}
           p == CHOOSE r \in head : TRUE
           u == [w EXCEPT !.txq = @ \ {p}]
           t == [p EXCEPT !.queued = FALSE]
<1>1. CASE head = {}
  BY <1>1 DEF SendPacket
<1>2. CASE head # {}
  <2>1. p \in w.txq
    BY <1>2 DEF First
  <2>2. SendPacket(w, addr) = HandlePacket(u, t)
    BY <1>2 DEF SendPacket
  <2> HIDE DEF p
  <2>3. HandlePacket(u, t) = Schedule(u, t)
    <3> HIDE DEF u, t
    <3>1. CASE u.pcb[t.if].state = Off
      BY <3>1 DEF HandlePacket, Schedule, Off, Probe1, Probe2, Probe3, Announce1, Announce3
    <3>2. CASE u.pcb[t.if].state # Off
      BY <3>2 DEF HandlePacket
    <3> QED
      BY <3>1, <3>2
  <2>4. /\ Good(Schedule(u, t)) /\ Schedule(u, t).services = w.services
        /\ Clean(w) => Clean(Schedule(u, t))
    BY <2>1, ScheduleGood
  <2> HIDE DEF u, t
  <2> QED
    BY <2>2, <2>3, <2>4
<1> QED
  BY <1>1, <1>2

\* What mdns_priv_pcb_check_probing_services leaves of the record.
LEMMA CheckProbingServicesResult ==
    ASSUME NEW b \in PcbState, NEW s, NEW removed
    PROVE  LET e == CheckProbingServices(b, s, removed) IN
           /\ e \in PcbState /\ e.ip = b.ip /\ e.state \in {b.state, Running}
           /\ IsProbing(b) /\ s \in b.probing =>
                /\ e.probing = b.probing \ {s}
                /\ e.state = IF b.probing \ {s} = {} /\ ~b.ip THEN Running ELSE b.state
           /\ ~(IsProbing(b) /\ s \in b.probing) => e.probing = b.probing
           /\ ~(IsProbing(b) /\ s \in b.probing) /\ ~(IsAnnouncing(b) /\ removed) => e = b
           /\ IsAnnouncing(b) /\ removed => e.state = Running
<1> DEFINE e == CheckProbingServices(b, s, removed)
           rest == b.probing \ {s}
<1>1. /\ Running \in States /\ b.state \in States /\ b.probing \in SUBSET Services
      /\ b.ip \in BOOLEAN /\ b.running \in BOOLEAN
  BY DEF PcbState, States, Probe1, Running
<1>2. ~(IsProbing(b) /\ IsAnnouncing(b))
  BY Phases DEF Dup, Probe1, Probe3, Announce1, Announce3
<1>3. CASE IsProbing(b) /\ s \in b.probing
  <2> DEFINE run == b.running /\ (rest # {} \/ b.ip)
             st == IF rest = {} /\ ~b.ip THEN Running ELSE b.state
  <2>1. run \in BOOLEAN /\ st \in States /\ st \in {b.state, Running} /\ rest \in SUBSET Services
    BY <1>1
  <2>2. e = [b EXCEPT !.probing = rest, !.running = run, !.state = st]
    BY <1>2, <1>3 DEF CheckProbingServices
  <2> HIDE DEF run, st, rest, e
  <2>3. e \in PcbState /\ e.ip = b.ip /\ e.probing = rest /\ e.state = st
    BY <2>1, <2>2 DEF PcbState
  <2> QED
    BY <1>2, <1>3, <2>1, <2>3 DEF e, st, rest
<1>4. CASE ~(IsProbing(b) /\ s \in b.probing) /\ IsAnnouncing(b) /\ removed
  <2>1. e = [b EXCEPT !.state = Running]
    BY <1>4 DEF CheckProbingServices
  <2> HIDE DEF e
  <2>2. e \in PcbState /\ e.ip = b.ip /\ e.probing = b.probing /\ e.state = Running
    BY <1>1, <2>1 DEF PcbState
  <2> QED
    BY <1>4, <2>2 DEF e
<1>5. CASE ~(IsProbing(b) /\ s \in b.probing) /\ ~(IsAnnouncing(b) /\ removed)
  <2>1. e = b
    BY <1>5 DEF CheckProbingServices
  <2> HIDE DEF e
  <2> QED
    BY <1>5, <2>1 DEF e
<1> QED
  BY <1>3, <1>4, <1>5

\* A packet of the queue when s is removed.
LEMMA StrippedResult ==
    ASSUME NEW w, NEW p \in Packet, NEW s
    PROVE  LET x == Stripped(w, p, s) IN
           /\ x \in Packet /\ x.addr = p.addr /\ x.if = p.if
           /\ x.srv = p.srv \ {s} /\ x.ans = p.ans \ {s}
           /\ ~(p.if \in w.ready /\ IsProbing(w.pcb[p.if])) => x.q = p.q
<1> DEFINE c == p.if
           asks == /\ c \in w.ready /\ IsProbing(w.pcb[c]) /\ s \in w.pcb[c].probing
                   /\ p \in First(Of(w.txq, c)) /\ Alike(p.q, s) # {}
           q == IF asks THEN p.q \ {CHOOSE t \in Alike(p.q, s) : TRUE} ELSE p.q
           x == [p EXCEPT !.ans = p.ans \ {s}, !.srv = p.srv \ {s}, !.q = q]
<1>1. Stripped(w, p, s) = x
  BY DEF Stripped
<1>2. /\ q \in SUBSET Subjects /\ p.ans \in SUBSET Subjects /\ p.srv \in SUBSET Subjects
      /\ ~(p.if \in w.ready /\ IsProbing(w.pcb[p.if])) => q = p.q
  BY DEF Packet
<1> HIDE DEF q
<1>3. /\ x \in Packet /\ x.addr = p.addr /\ x.if = p.if
      /\ x.srv = p.srv \ {s} /\ x.ans = p.ans \ {s} /\ x.q = q
  BY <1>2 DEF Packet
<1> HIDE DEF x
<1> QED
  BY <1>1, <1>2, <1>3

\* mdns_priv_remove_scheduled_service_packets, after the service left the list.
LEMMA RemoveScheduledPacketsGood ==
    ASSUME NEW w, Good(w), NEW s \in Services
    PROVE  LET v == RemoveScheduledPackets([w EXCEPT !.services = @ \ {s}], s) IN
           Good(v) /\ (Clean(w) => Clean(v))
<1> DEFINE u == [w EXCEPT !.services = @ \ {s}]
           v == RemoveScheduledPackets(u, s)
           removed(c) == \E p \in Of(u.txq, c) : p.ans = {s}
           Check(c) == IF c \in u.ready /\ Of(u.txq, c) # {}
                       THEN CheckProbingServices(u.pcb[c], s, removed(c)) ELSE u.pcb[c]
           Kept(x) == x.q \cup x.srv \cup x.ans # {}
           T == {Stripped(u, p, s) : p \in u.txq}
           f == [p \in u.txq |-> Stripped(u, p, s)]
<1>1. w \in Tab /\ Queue(w.txq) /\ \A c \in Ifs : Driven(w, c) /\ Named(w, c) /\ HasTwin(w, c)
  BY DEF Good
<1>2. /\ u \in Tab /\ u.txq = w.txq /\ u.pcb = w.pcb /\ u.ready = w.ready /\ u.named = w.named
      /\ u.services = w.services \ {s}
  BY <1>1 DEF Tab
<1>3. s # Host
  BY ServicesAssumption
<1>4. v = [u EXCEPT !.pcb = [c \in Ifs |-> Check(c)], !.txq = {x \in T : Kept(x)}]
  BY DEF RemoveScheduledPackets
<1> HIDE DEF u, v, removed
<1>5. \A c \in Ifs : u.pcb[c] \in PcbState /\ Check(c) \in PcbState
  BY <1>2, PcbType, CheckProbingServicesResult
<1>6. ASSUME NEW p \in w.txq
      PROVE  LET x == Stripped(u, p, s) IN
             /\ p \in Packet /\ x \in Packet /\ x.addr = p.addr /\ x.if = p.if
             /\ x.srv = p.srv \ {s} /\ x.ans = p.ans \ {s}
             /\ ~(p.if \in u.ready /\ IsProbing(u.pcb[p.if])) => x.q = p.q
  BY <1>1, StrippedResult DEF Queue
<1>7. IsFiniteSet({x \in T : Kept(x)})
  <2>1. IsFiniteSet({f[p] : p \in u.txq})
    <3> HIDE DEF f
    <3> QED
      BY <1>1, <1>2, FiniteImage DEF Queue
  <2>2. T = {f[p] : p \in u.txq}
    OBVIOUS
  <2> QED
    BY <2>1, <2>2, FS_Subset
<1>8. T \subseteq Packet /\ \A x, y \in T : x.addr = y.addr => x = y
  BY <1>1, <1>2, <1>6 DEF Queue
<1> HIDE DEF Check, Kept
<1>9. /\ v \in Tab /\ v.txq = {x \in T : Kept(x)} /\ \A c \in Ifs : v.pcb[c] = Check(c)
      /\ v.ready = u.ready /\ v.services = u.services /\ v.named = u.named
  <2> DEFINE Q == {x \in T : Kept(x)}
             B == [c \in Ifs |-> Check(c)]
  <2>1. Q \subseteq Packet /\ B \in [Ifs -> PcbState] /\ \A c \in Ifs : B[c] = Check(c)
    BY <1>5, <1>8
  <2>2. v = [u EXCEPT !.pcb = B, !.txq = Q]
    BY <1>4
  <2> HIDE DEF Q, B
  <2>3. /\ v \in Tab /\ v.txq = Q /\ v.pcb = B
        /\ v.ready = u.ready /\ v.services = u.services /\ v.named = u.named
    BY <1>2, <2>1, <2>2 DEF Tab
  <2> QED
    BY <2>1, <2>3 DEF Q
<1>10. Queue(v.txq)
  BY <1>7, <1>8, <1>9 DEF Queue
\* The packets of an interface, and its record, afterwards.
<1>11. \A c \in Ifs : Of(v.txq, c) = {x \in {Stripped(u, p, s) : p \in Of(w.txq, c)} : Kept(x)}
  BY <1>2, <1>6, <1>9 DEF Of
<1>12. ASSUME NEW c \in Ifs
       PROVE  Driven(v, c) /\ Named(v, c) /\ HasTwin(v, c)
              /\ (Silent(w, c) /\ Live(w, c) => Silent(v, c) /\ Live(v, c))
  <2> DEFINE b == w.pcb[c]
             e == v.pcb[c]
             mine == Of(w.txq, c)
  <2>1. b \in PcbState
    BY <1>1, PcbType
  <2>2. /\ \A x \in Of(v.txq, c) : \E p \in mine : x = Stripped(u, p, s) /\ Kept(x)
        /\ \A p \in mine : Kept(Stripped(u, p, s)) => Stripped(u, p, s) \in Of(v.txq, c)
    BY <1>11
  <2>3. \A p \in mine :
          LET x == Stripped(u, p, s) IN
          /\ x.srv = p.srv \ {s} /\ x.ans = p.ans \ {s}
          /\ ~(c \in w.ready /\ IsProbing(b)) => x.q = p.q
    BY <1>2, <1>6 DEF Of
  <2>4. /\ v.ready = w.ready /\ v.named = w.named /\ v.services = w.services \ {s}
    BY <1>2, <1>9
  <2>5. e = IF c \in w.ready /\ mine # {} THEN CheckProbingServices(b, s, removed(c)) ELSE b
    BY <1>2, <1>9 DEF Check
  <2>6. removed(c) <=> \E p \in mine : p.ans = {s}
    BY <1>2 DEF removed
  <2>7. Driven(w, c) /\ Named(w, c) /\ HasTwin(w, c)
    BY <1>1
  <2>8. /\ e \in PcbState /\ e.ip = b.ip /\ e.state \in {b.state, Running} /\ e.probing \subseteq b.probing
    BY <2>1, <2>5, CheckProbingServicesResult
  <2> HIDE DEF e
  <2>9. Named(v, c) /\ HasTwin(v, c)
    <3>1. Named(v, c)
      BY <2>4, <2>7, <2>8 DEF Named, e
    <3>2. e.state = Dup => b.state = Dup
      BY <2>8 DEF Dup, Running
    <3> QED
      BY <2>4, <2>7, <3>1, <3>2 DEF HasTwin, e
  <2>10. ASSUME c \in w.ready, IsProbing(b)
         PROVE  /\ b.state \in Probe1..Probe3
                /\ b.probing # {} \/ b.ip
                /\ \E p \in mine : mine = {p} /\ p.srv = b.probing \cup HostIf(b.ip)
                /\ e = CheckProbingServices(b, s, removed(c))
    <3>1. b.state \in Probe1..Probe3
      BY <2>1, <2>7, <2>10, Phases DEF HasTwin
    <3>2. /\ b.probing # {} \/ b.ip
          /\ \E p \in mine : mine = {p} /\ p.srv = b.probing \cup HostIf(b.ip)
      BY <2>7, <2>10, <3>1 DEF Driven
    <3> QED
      BY <2>5, <2>10, <3>1, <3>2
  <2>11. Driven(v, c)
    <3> SUFFICES ASSUME c \in w.ready PROVE Driven(v, c)
      BY <2>4 DEF Driven
    <3>1. \A x \in Of(v.txq, c) : x.q \cup x.srv \cup x.ans # {}
      BY <2>2 DEF Kept
    <3>2. Running \notin Probe1..Probe3 /\ ~(Running > Probe3 /\ Running < Running)
      BY DEF Running, Probe1, Probe3
    <3>3. CASE IsProbing(b)
      <4>1. PICK p \in mine : mine = {p} /\ p.srv = b.probing \cup HostIf(b.ip)
        BY <2>10, <3>3
      <4>2. Stripped(u, p, s).srv = e.probing \cup HostIf(e.ip)
        <5>1. e.probing = b.probing \ {s}
          BY <2>1, <2>10, <3>3, CheckProbingServicesResult
        <5>2. Stripped(u, p, s).srv = p.srv \ {s}
          BY <2>3
        <5> QED
          BY <1>3, <2>8, <4>1, <5>1, <5>2 DEF HostIf
      <4>3. CASE e.probing = {} /\ ~e.ip
        <5>1. e.state = Running
          <6>1. s \in b.probing
            <7>1. s \notin b.probing => e.probing = b.probing
              BY <2>1, <2>10, <3>3, CheckProbingServicesResult
            <7> QED
              BY <2>8, <2>10, <3>3, <4>3, <7>1
          <6>2. /\ e.probing = b.probing \ {s}
                /\ e.state = IF b.probing \ {s} = {} /\ ~b.ip THEN Running ELSE b.state
            BY <2>1, <2>10, <3>3, <6>1, CheckProbingServicesResult
          <6> QED
            BY <2>8, <4>3, <6>2
        <5>2. \A x \in Of(v.txq, c) : x.srv = {}
          BY <2>2, <4>1, <4>2, <4>3 DEF HostIf
        <5> QED
          BY <3>1, <3>2, <5>1, <5>2 DEF Driven, IsAnnouncing, e
      <4>4. CASE e.probing # {} \/ e.ip
        <5>1. e.state = b.state
          <6>1. s \in b.probing =>
                  /\ e.probing = b.probing \ {s}
                  /\ e.state = IF b.probing \ {s} = {} /\ ~b.ip THEN Running ELSE b.state
            BY <2>1, <2>10, <3>3, CheckProbingServicesResult
          <6>2. ~IsAnnouncing(b)
            BY <2>1, <3>3, Phases DEF Dup, Probe1, Probe3, Announce1, Announce3
          <6>3. s \notin b.probing => e = b
            BY <2>1, <2>10, <3>3, <6>2, CheckProbingServicesResult
          <6> QED
            BY <2>8, <4>4, <6>1, <6>3
        <5>2. Kept(Stripped(u, p, s))
          BY <4>2, <4>4 DEF Kept, HostIf
        <5>3. Of(v.txq, c) = {Stripped(u, p, s)}
          BY <2>2, <4>1, <5>2
        <5>4. e.state \in Probe1..Probe3 /\ ~IsAnnouncing(e)
          <6>1. b.state \in Probe1..Probe3
            BY <2>10, <3>3
          <6> QED
            BY <5>1, <6>1 DEF Probe1, Probe3, IsAnnouncing
        <5> QED
          BY <3>1, <4>2, <4>4, <5>3, <5>4 DEF Driven, e
      <4> QED
        BY <4>3, <4>4
    <3>4. CASE ~IsProbing(b)
      <4>1. b.state \notin Probe1..Probe3 /\ e.state \notin Probe1..Probe3
        BY <2>1, <2>8, <3>2, <3>4, Phases
      <4>2. \A p \in mine : p.srv \subseteq {Host} /\ p.q \cup p.srv \cup p.ans # {}
        BY <2>7, <4>1 DEF Driven, b, mine
      <4>3. \A x \in Of(v.txq, c) : x.srv \subseteq {Host}
        BY <2>2, <2>3, <4>2
      <4>4. IsAnnouncing(e) => Of(v.txq, c) # {}
        <5> SUFFICES ASSUME IsAnnouncing(e) PROVE Of(v.txq, c) # {}
          OBVIOUS
        <5>1. e.state = b.state /\ IsAnnouncing(b)
          <6>1. e.state # Running
            BY DEF IsAnnouncing, Running
          <6>2. e.state = b.state
            BY <2>8, <6>1
          <6> QED
            BY <6>2 DEF IsAnnouncing
        <5>2. mine # {}
          BY <2>7, <5>1 DEF Driven, b, mine
        <5>3. ~removed(c)
          <6>1. removed(c) => e.state = Running
            <7>1. e = CheckProbingServices(b, s, removed(c))
              BY <2>5, <5>2
            <7>2. CheckProbingServices(b, s, removed(c)).state = e.state
              BY <7>1
            <7> HIDE DEF b
            <7>3. IsAnnouncing(b) /\ removed(c) => CheckProbingServices(b, s, removed(c)).state = Running
              BY <2>1, <3>4 DEF CheckProbingServices, PcbState
            <7> QED
              BY <5>1, <7>2, <7>3
          <6> QED
            BY <3>2, <6>1 DEF IsAnnouncing
        <5>4. PICK p \in mine : p.ans # {s}
          BY <2>6, <5>2, <5>3
        <5>5. /\ Stripped(u, p, s).srv = p.srv /\ Stripped(u, p, s).q = p.q
              /\ Stripped(u, p, s).ans = p.ans \ {s}
          <6>1. p.srv \ {s} = p.srv
            BY <1>3, <4>2
          <6> QED
            BY <2>3, <3>4, <6>1
        <5>6. Kept(Stripped(u, p, s))
          BY <4>2, <5>4, <5>5 DEF Kept
        <5> QED
          BY <2>2, <5>6
      <4> QED
        BY <3>1, <4>1, <4>3, <4>4 DEF Driven, e
    <3> QED
      BY <3>3, <3>4
  <2>12. Silent(w, c) /\ Live(w, c) => Silent(v, c) /\ Live(v, c)
    <3> SUFFICES ASSUME Silent(w, c), Live(w, c) PROVE Silent(v, c) /\ Live(v, c)
      OBVIOUS
    <3>1. Silent(v, c)
      <4> SUFFICES ASSUME c \notin w.ready PROVE Silent(v, c)
        BY <2>4 DEF Silent
      <4>1. e = b /\ mine = {} /\ b.state \in {Off, Dup} /\ b.probing = {}
        BY <2>5 DEF Silent, b, mine
      <4> QED
        BY <2>2, <4>1 DEF Silent, e
    <3>2. \A x \in Of(v.txq, c) : (x.srv \cup x.ans) \ {Host} \subseteq v.services
      BY <2>2, <2>3, <2>4 DEF Live, mine
    <3>3. b.probing \subseteq w.services /\ (b.probing # {} => c \in w.ready /\ IsProbing(b))
      BY DEF Live, Silent, b
    <3>4. e.probing \subseteq v.services /\ (e.probing # {} => IsProbing(e))
      <4>1. CASE b.probing = {}
        BY <2>8, <4>1
      <4>2. CASE b.probing # {} /\ s \notin b.probing
        <5>1. ~IsAnnouncing(b)
          BY <2>1, <3>3, <4>2, Phases DEF Dup, Probe1, Probe3, Announce1, Announce3
        <5>2. e = b
          BY <2>1, <2>10, <3>3, <4>2, <5>1, CheckProbingServicesResult
        <5> QED
          BY <2>4, <3>3, <4>2, <5>2
      <4>3. CASE s \in b.probing
        <5>1. /\ e.probing = b.probing \ {s}
              /\ e.state = IF b.probing \ {s} = {} /\ ~b.ip THEN Running ELSE b.state
          BY <2>1, <2>10, <3>3, <4>3, CheckProbingServicesResult
        <5> QED
          BY <2>4, <3>3, <4>3, <5>1 DEF IsProbing
      <4> QED
        BY <4>1, <4>2, <4>3
    <3> QED
      BY <3>1, <3>2, <3>4 DEF Live, e
  <2> QED
    BY <2>9, <2>11, <2>12
<1>13. Good(v)
  BY <1>9, <1>10, <1>12 DEF Good
<1>14. Clean(w) => Clean(v)
  BY <1>12 DEF Clean
<1> QED
  BY <1>13, <1>14 DEF u, v

\* Every interface that takes no part is off or a duplicate.
Stopped(w) == \A c \in Ifs \ w.ready : w.pcb[c].state \in {Off, Dup}

\* One more failed probe is counted.
Counted(b) == [b EXCEPT !.failed = IF @ > FailLimit THEN @ ELSE @ + 1]

\* Counting a failed probe changes nothing else.
LEMMA CountedResult ==
    ASSUME NEW w \in Tab, Queue(w.txq), NEW c \in Ifs
    PROVE  LET v == WithPcb(w, c, Counted(w.pcb[c])) IN
           /\ v \in Tab /\ Queue(v.txq) /\ v.services = w.services /\ v.named = w.named
           /\ v.ready = w.ready
           /\ Clean(w) => Clean(v)
           /\ \A d \in Ifs : (Named(w, d) => Named(v, d)) /\ (HasTwin(w, d) => HasTwin(v, d))
<1> DEFINE b == w.pcb[c]
           f == IF b.failed > FailLimit THEN b.failed ELSE b.failed + 1
           e == [b EXCEPT !.failed = f]
           v == WithPcb(w, c, e)
<1>1. b \in PcbState
  BY PcbType
<1>2. f \in 0..FailLimit + 1
  BY <1>1, NumbersAssumption DEF PcbState
<1>3. Counted(b) = e
  BY DEF Counted
<1> HIDE DEF f
<1>4. e \in PcbState /\ e.state = b.state /\ e.probing = b.probing /\ e.ip = b.ip
  BY <1>1, <1>2 DEF PcbState
<1> HIDE DEF e
<1>5. /\ v \in Tab /\ v.pcb[c] = e /\ \A d \in Ifs \ {c} : v.pcb[d] = w.pcb[d]
      /\ v.txq = w.txq /\ v.ready = w.ready /\ v.services = w.services /\ v.named = w.named
  BY <1>4, WithPcbType
<1> HIDE DEF v
<1>6. \A d \in Ifs : v.pcb[d].state = w.pcb[d].state /\ v.pcb[d].probing = w.pcb[d].probing
  BY <1>4, <1>5
<1>7. \A d \in Ifs : (Named(w, d) => Named(v, d)) /\ (HasTwin(w, d) => HasTwin(v, d))
  BY <1>5, <1>6 DEF Named, HasTwin
<1>8. \A d \in Ifs : (Silent(w, d) => Silent(v, d)) /\ (Live(w, d) => Live(v, d))
  BY <1>5, <1>6 DEF Silent, Live, IsProbing
<1>9. Clean(w) => Clean(v)
  BY <1>8 DEF Clean
<1>10. v = WithPcb(w, c, Counted(w.pcb[c]))
  BY <1>3 DEF v
<1> HIDE DEF b
<1> QED
  BY <1>5, <1>7, <1>9, <1>10

\* A query for what is ours, answered later.
LEMMA AnswerGood ==
    ASSUME NEW w, Good(w), NEW c \in Ifs, NEW t \in Subjects, t \in w.services \cup {Host},
           w.pcb[c].state > Probe3
    PROVE  LET v == SendAfter(w, Alloc(w, {}, c, {}, {}, {t}), 0) IN
           /\ Good(v) /\ v.services = w.services
           /\ Clean(w) => Clean(v)
<1> DEFINE p == Alloc(w, {}, c, {}, {}, {t})
           delay == 0
           v == SendAfter(w, p, delay)
           n == Sent(w, p, delay)
<1>1. w \in Tab /\ Queue(w.txq) /\ Driven(w, c) /\ Named(w, c) /\ HasTwin(w, c)
  BY DEF Good
<1>2. p \in Packet /\ p.if = c /\ p.srv = {} /\ p.ans = {t} /\ p.addr \notin Addresses(w.txq)
  BY <1>1, FS_EmptySet, AllocFresh
<1>3. delay \in Delays
  BY DEF Delays
<1> HIDE DEF p, delay
<1>4. /\ v \in Tab /\ Queue(v.txq) /\ v.ready = w.ready /\ v.services = w.services
      /\ v.named = w.named /\ v.pcb = w.pcb /\ \A d \in Ifs \ {c} : Of(v.txq, d) = Of(w.txq, d)
  BY <1>1, <1>2, <1>3, SendAfterQueue
<1>5. n.srv = {} /\ n.ans = {t} /\ Of(v.txq, c) = Plus(Of(w.txq, c), n)
  <2>1. n.srv = p.srv /\ n.ans = p.ans
    BY <1>1, <1>2, <1>3, SendAfterQueue
  <2>2. Of(v.txq, c) = Plus(Of(w.txq, c), n)
    BY <1>1, <1>2, <1>3, SendAfterQueue
  <2> QED
    BY <1>2, <2>1, <2>2
<1> HIDE DEF v, n
<1>6. Local(w, v, c)
  BY <1>4 DEF Local
<1>7. w.pcb[c].state \notin Probe1..Probe3 /\ w.pcb[c].state \notin {Off, Dup}
  BY DEF Probe1, Probe3, Off, Dup
<1>8. Driven(v, c) /\ Named(v, c) /\ HasTwin(v, c)
  BY <1>1, <1>4, <1>5, <1>7 DEF Driven, Named, HasTwin, Plus
<1>9. Silent(w, c) => Silent(v, c)
  BY <1>4, <1>7 DEF Silent
<1>10. Live(w, c) => Live(v, c)
  BY <1>4, <1>5 DEF Live, Plus
<1>11. \A d \in Ifs \ {c} : /\ Driven(v, d) /\ Named(v, d) /\ HasTwin(v, d)
                            /\ (Silent(w, d) => Silent(v, d)) /\ (Live(w, d) => Live(v, d))
  BY <1>6, LocalFrame DEF Good
<1>12. Good(v) /\ (Clean(w) => Clean(v))
  BY <1>4, <1>8, <1>9, <1>10, <1>11 DEF Good, Clean
<1> QED
  BY <1>4, <1>12 DEF v, p, delay

\* Another device claims t while this interface does not probe: it starts again,
\* also when it takes no part, and then it is no longer stopped.
LEMMA ProbeAgainGood ==
    ASSUME NEW w, Good(w), NEW c \in Ifs, w.named, NEW svcs \in SUBSET Services,
           NEW ip \in BOOLEAN, svcs # {} \/ ip, svcs \subseteq w.services
    PROVE  LET v == InitPcbProbe(w, c, svcs, ip) IN
           /\ Good(v) /\ v.services = w.services
           /\ Clean(w) /\ Stopped(v) => Clean(v)
<1> DEFINE v == InitPcbProbe(w, c, svcs, ip)
<1>1. w \in Tab /\ Queue(w.txq) /\ Named(w, c)
  BY DEF Good
<1>2. /\ Local(w, v, c) /\ v.pcb[c].state = Probe1
      /\ Driven(v, c) /\ Named(v, c) /\ HasTwin(v, c) /\ (Live(w, c) => Live(v, c))
  BY <1>1, InitPcbProbeLocal
<1> HIDE DEF v
<1>3. v \in Tab /\ Queue(v.txq) /\ v.services = w.services
  BY <1>2 DEF Local
<1>4. \A d \in Ifs \ {c} : /\ Driven(v, d) /\ Named(v, d) /\ HasTwin(v, d)
                           /\ (Silent(w, d) => Silent(v, d)) /\ (Live(w, d) => Live(v, d))
  BY <1>2, LocalFrame DEF Good
<1>5. Stopped(v) => Silent(v, c)
  BY <1>2 DEF Stopped, Silent, Probe1, Off, Dup
<1>6. Good(v) /\ (Clean(w) /\ Stopped(v) => Clean(v))
  BY <1>2, <1>3, <1>4, <1>5 DEF Good, Clean
<1> QED
  BY <1>3, <1>6 DEF v

\* A packet arrives.
LEMMA ReceivePacketGood ==
    ASSUME NEW w, Good(w), NEW c \in Ifs, NEW a \in Arrivals
    PROVE  LET v == ReceivePacket(w, c, a) IN
           /\ Good(v) /\ v.services = w.services
           /\ Clean(w) /\ Stopped(v) => Clean(v)
<1> DEFINE v == ReceivePacket(w, c, a)
           ours == w.named /\ a.of \in w.services \cup {Host}
           u == WithPcb(w, c, Counted(w.pcb[c]))
           free == w.services \ Instanced
<1>1. /\ a.of \in Subjects /\ a.ev \in {"asked", "lost", "twin"}
      /\ w \in Tab /\ Queue(w.txq)
  BY DEF Arrivals, Asked, Lost, Twin, Subjects, Good
<1> SUFFICES Good(v) /\ v.services = w.services /\ (Clean(w) /\ Stopped(v) => Clean(v))
  BY DEF v
<1>2. CASE ~ours
  <2>1. v = w
    BY <1>2 DEF ReceivePacket
  <2> HIDE DEF v
  <2> QED
    BY <2>1
<1>3. CASE ours /\ a.ev = "asked"
  <2>1. CASE w.pcb[c].state <= Probe3
    <3>1. v = w
      BY <1>3, <2>1 DEF ReceivePacket
    <3> HIDE DEF v
    <3> QED
      BY <3>1
  <2>2. CASE ~(w.pcb[c].state <= Probe3)
    <3> DEFINE t == a.of
    <3>1. v = SendAfter(w, Alloc(w, {}, c, {}, {}, {t}), 0)
      BY <1>3, <2>2 DEF ReceivePacket
    <3>2. w.pcb[c].state > Probe3
      <4>1. w.pcb[c].state \in Nat
        BY <1>1, PcbType, Phases
      <4> QED
        BY <2>2, <4>1 DEF Probe3
    <3>3. t \in Subjects /\ t \in w.services \cup {Host}
      BY <1>1, <1>3
    <3> HIDE DEF v, t
    <3> QED
      BY <3>1, <3>2, <3>3, AnswerGood
  <2> QED
    BY <2>1, <2>2
<1>4. CASE ours /\ a.ev = "lost" /\ ~w.pcb[c].running
  <2> DEFINE svcs == {a.of} \ {Host}
             ip == a.of = Host
  <2>1. v = InitPcbProbe(w, c, svcs, ip)
    BY <1>4 DEF ReceivePacket
  <2>2. /\ svcs \in SUBSET Services /\ ip \in BOOLEAN /\ (svcs # {} \/ ip)
        /\ svcs \subseteq w.services /\ w.named
    BY <1>1, <1>4 DEF Subjects
  <2> HIDE DEF v, svcs, ip
  <2> QED
    BY <2>1, <2>2, ProbeAgainGood
<1>5. CASE ours /\ a.ev = "lost" /\ w.pcb[c].running
  <2>1. /\ u \in Tab /\ Queue(u.txq) /\ u.services = w.services /\ u.named = w.named
        /\ u.ready = w.ready /\ (Clean(w) => Clean(u))
    BY <1>1, CountedResult
  <2>2. \A d \in Ifs : Named(u, d) /\ HasTwin(u, d)
    BY <1>1, CountedResult DEF Good
  <2>3. v = CASE a.of = Host -> RestartAllPcbs(u)
              [] a.of \in Instanced -> ProbeAllPcbs(u, {a.of}, FALSE, FALSE)
              [] a.of \notin Instanced \cup {Host} /\ w.inst -> ProbeAllPcbs(u, free, FALSE, TRUE)
              [] OTHER -> RestartAllPcbs(u)
    BY <1>5 DEF ReceivePacket, WithPcb, Counted
  <2> HIDE DEF u, v
  <2>4. CASE v = RestartAllPcbs(u)
    BY <2>1, <2>2, <2>4, RestartAllPcbsGood
  <2>5. CASE a.of \in Instanced /\ v = ProbeAllPcbs(u, {a.of}, FALSE, FALSE)
    <3> DEFINE svcs == {a.of}
               no == FALSE
    <3>1. /\ svcs \in SUBSET Services /\ no \in BOOLEAN /\ svcs # {} /\ svcs \subseteq u.services
      BY <1>1, <1>5, <2>1, <2>5, ServicesAssumption
    <3>2. v = ProbeAllPcbs(u, svcs, no, no)
      BY <2>5
    <3> HIDE DEF svcs, no
    <3> QED
      BY <2>1, <2>2, <3>1, <3>2, ProbeAllPcbsGood
  <2>6. CASE a.of \notin Instanced \cup {Host} /\ v = ProbeAllPcbs(u, free, FALSE, TRUE)
    <3> DEFINE no == FALSE
               yes == TRUE
    <3>1. free \in SUBSET Services /\ free # {} /\ free \subseteq u.services
      BY <1>1, <1>5, <2>1, <2>6 DEF Tab
    <3>2. v = ProbeAllPcbs(u, free, no, yes) /\ no \in BOOLEAN /\ yes \in BOOLEAN
      BY <2>6
    <3> HIDE DEF free, no, yes
    <3> QED
      BY <2>1, <2>2, <3>1, <3>2, ProbeAllPcbsGood
  <2> QED
    BY <2>3, <2>4, <2>5, <2>6, ServicesAssumption
<1>6. CASE ours /\ a.ev = "twin"
  <2>1. v = SetDuplicate(w, c)
    BY <1>6 DEF ReceivePacket
  <2> HIDE DEF v
  <2> QED
    BY <2>1, SetDuplicateGood
<1> HIDE DEF v
<1> QED
  BY <1>1, <1>2, <1>3, <1>4, <1>5, <1>6

\* A step of the service task.
LEMMA EffectGood ==
    ASSUME NEW w, Good(w), NEW a \in Action
    PROVE  LET v == Effect(w, a) IN
           Good(v) /\ (Clean(w) /\ Stopped(v) => Clean(v))
<1> DEFINE v == Effect(w, a)
<1>1. SUFFICES Good(v) /\ (Clean(w) /\ Stopped(v) => Clean(v))
  BY DEF v
<1>2. w \in Tab
  BY DEF Good
<1>3. /\ a.type \in {"enable", "disable", "announce"} => a.if \in Ifs
      /\ a.type = "rx" => a.if \in Ifs /\ a.a \in Arrivals
  BY DEF Action
<1>4. CASE a.type = "enable"
  <2>1. v = Enable(w, a.if)
    BY <1>4 DEF Effect
  <2> HIDE DEF v
  <2> QED
    BY <1>3, <1>4, <2>1, EnableGood
<1>5. CASE a.type = "disable"
  <2>1. v = Disable(w, a.if)
    BY <1>5 DEF Effect
  <2> HIDE DEF v
  <2> QED
    BY <1>3, <1>5, <2>1, DisableGood
<1>6. CASE a.type = "announce"
  <2> DEFINE none == {}
             yes == TRUE
  <2>1. v = Announce(w, a.if, none, yes) /\ none \in SUBSET Services /\ none \subseteq w.services
    BY <1>6 DEF Effect
  <2>2. yes \in BOOLEAN /\ yes
    OBVIOUS
  <2> HIDE DEF v, none, yes
  <2> QED
    BY <1>3, <1>6, <2>1, <2>2, AnnounceGood
<1>7. CASE a.type = "rx"
  <2>1. v = ReceivePacket(w, a.if, a.a)
    BY <1>7 DEF Effect
  <2> HIDE DEF v
  <2> QED
    BY <1>3, <1>7, <2>1, ReceivePacketGood
<1>8. CASE a.type = "tx"
  <2>1. v = SendPacket(w, a.addr)
    BY <1>8 DEF Effect
  <2> HIDE DEF v
  <2> QED
    BY <2>1, SendPacketGood
<1>9. CASE a.type = "hostname"
  <2> DEFINE u == [w EXCEPT !.named = TRUE]
  <2>1. v = RestartAllPcbs(u)
    BY <1>9 DEF Effect
  <2>2. /\ u \in Tab /\ u.named /\ u.pcb = w.pcb /\ u.txq = w.txq /\ u.ready = w.ready
        /\ u.services = w.services
    BY <1>2 DEF Tab
  <2> HIDE DEF u, v
  <2>3. \A c \in Ifs : Named(u, c) /\ HasTwin(u, c)
    BY <2>2 DEF Good, Named, HasTwin
  <2>4. Clean(w) => Clean(u)
    BY <2>2 DEF Clean, Silent, Live
  <2> QED
    BY <2>1, <2>2, <2>3, <2>4, RestartAllPcbsGood
<1>10. CASE a.type = "instance"
  <2> DEFINE free == w.services \ Instanced
             u == [w EXCEPT !.inst = TRUE]
             no == FALSE
             yes == TRUE
  <2>1. v = IF free = {} THEN u ELSE ProbeAllPcbs(u, free, no, yes)
    BY <1>10 DEF Effect
  <2>2. /\ u \in Tab /\ u.named = w.named /\ u.pcb = w.pcb /\ u.txq = w.txq
        /\ u.ready = w.ready /\ u.services = w.services
    BY <1>2 DEF Tab
  <2>3. free \in SUBSET Services /\ free \subseteq w.services
    BY <1>2 DEF Tab
  <2>4. no \in BOOLEAN /\ yes \in BOOLEAN
    OBVIOUS
  <2> HIDE DEF u, v, free, no, yes
  <2>5. Good(u) /\ (Clean(w) => Clean(u))
    BY <2>2 DEF Good, Driven, Named, HasTwin, Clean, Silent, Live
  <2>6. CASE free = {}
    BY <2>1, <2>5, <2>6
  <2>7. CASE free # {}
    <3>1. v = ProbeAllPcbs(u, free, no, yes)
      BY <2>1, <2>7
    <3>2. Queue(u.txq) /\ \A c \in Ifs : Named(u, c) /\ HasTwin(u, c)
      BY <2>5 DEF Good
    <3> QED
      BY <2>2, <2>3, <2>4, <2>5, <2>7, <3>1, <3>2, ProbeAllPcbsGood
  <2> QED
    BY <2>6, <2>7
<1>11. CASE a.type \notin {"enable", "disable", "announce", "rx", "tx", "hostname", "instance"}
  <2>1. v = w
    BY <1>11 DEF Effect
  <2> HIDE DEF v
  <2> QED
    BY <2>1
<1> HIDE DEF v
<1> QED
  BY <1>4, <1>5, <1>6, <1>7, <1>8, <1>9, <1>10, <1>11

\* The packets may change their times and marks.
LEMMA RemarkedGood ==
    ASSUME NEW w, Good(w), NEW v \in Tab, NEW f,
           v.ready = w.ready, v.pcb = w.pcb, v.services = w.services, v.named = w.named,
           v.txq = {f[p] : p \in w.txq},
           \A p \in w.txq : /\ f[p] \in Packet /\ f[p].addr = p.addr /\ f[p].if = p.if
                            /\ f[p].q = p.q /\ f[p].srv = p.srv /\ f[p].ans = p.ans
    PROVE  Good(v) /\ (Clean(w) => Clean(v))
<1>1. Queue(w.txq)
  BY DEF Good
<1>2. Queue(v.txq)
  <2>1. IsFiniteSet(v.txq)
    BY <1>1, FiniteImage DEF Queue
  <2> QED
    BY <1>1, <2>1 DEF Queue
<1>3. ASSUME NEW c \in Ifs
      PROVE  /\ \A r \in Of(v.txq, c) : \E p \in Of(w.txq, c) : r = f[p]
             /\ \A p \in Of(w.txq, c) : f[p] \in Of(v.txq, c)
             /\ \A p \in Of(w.txq, c) : f[p].q = p.q /\ f[p].srv = p.srv /\ f[p].ans = p.ans
  BY DEF Of
<1>4. ASSUME NEW c \in Ifs
      PROVE  /\ Driven(v, c) /\ Named(v, c) /\ HasTwin(v, c)
             /\ (Silent(w, c) => Silent(v, c)) /\ (Live(w, c) => Live(v, c))
  <2>1. Driven(w, c) /\ Named(w, c) /\ HasTwin(w, c)
    BY DEF Good
  <2>2. Named(v, c) /\ HasTwin(v, c)
    BY <2>1 DEF Named, HasTwin
  <2>3. Silent(w, c) => Silent(v, c)
    BY <1>3 DEF Silent
  <2>4. Live(w, c) => Live(v, c)
    BY <1>3 DEF Live
  <2>5. Driven(v, c)
    <3> SUFFICES ASSUME c \in w.ready PROVE Driven(v, c)
      BY DEF Driven
    <3>1. /\ IsAnnouncing(v.pcb[c]) => Of(v.txq, c) # {}
          /\ \A r \in Of(v.txq, c) : r.q \cup r.srv \cup r.ans # {}
      <4>1. /\ IsAnnouncing(v.pcb[c]) => Of(w.txq, c) # {}
            /\ \A p \in Of(w.txq, c) : p.q \cup p.srv \cup p.ans # {}
        BY <2>1 DEF Driven
      <4>2. IsAnnouncing(v.pcb[c]) => Of(v.txq, c) # {}
        BY <1>3, <4>1
      <4>3. ASSUME NEW r \in Of(v.txq, c) PROVE r.q \cup r.srv \cup r.ans # {}
        <5>1. PICK p \in Of(w.txq, c) : r = f[p]
          BY <1>3
        <5>2. r.q = p.q /\ r.srv = p.srv /\ r.ans = p.ans
          BY <1>3, <5>1
        <5> QED
          BY <4>1, <5>2
      <4> QED
        BY <4>2, <4>3
    <3>2. CASE w.pcb[c].state \in Probe1..Probe3
      <4>1. PICK p : /\ Of(w.txq, c) = {p}
                     /\ p.srv = w.pcb[c].probing \cup HostIf(w.pcb[c].ip)
        BY <2>1, <3>2 DEF Driven
      <4>2. Of(v.txq, c) = {f[p]} /\ f[p].srv = p.srv
        BY <1>3, <4>1
      <4>3. v.pcb[c].probing # {} \/ v.pcb[c].ip
        BY <2>1, <3>2 DEF Driven
      <4>4. \E r \in Of(v.txq, c) :
              Of(v.txq, c) = {r} /\ r.srv = v.pcb[c].probing \cup HostIf(v.pcb[c].ip)
        BY <4>1, <4>2
      <4> QED
        BY <3>1, <3>2, <4>3, <4>4 DEF Driven
    <3>3. CASE w.pcb[c].state \notin Probe1..Probe3
      <4>1. \A r \in Of(v.txq, c) : r.srv \subseteq {Host}
        BY <1>3, <2>1, <3>3 DEF Driven
      <4> QED
        BY <3>1, <3>3, <4>1 DEF Driven
    <3> QED
      BY <3>2, <3>3
  <2> QED
    BY <2>2, <2>3, <2>4, <2>5
<1> QED
  BY <1>2, <1>4 DEF Good, Clean

-----------------------------------------------------------------------------
(* The theorems *)

\* The inductive invariant: what NoInterfaceStuck and MemorySafe say is not
\* enough for one step, which also needs that the packet of an interface asks
\* for what the interface probes, and that an interface outside has no packet.
TxInv == TypeOK /\ Good(Tables) /\ (~stray => Clean(Tables))

\* The tables of the two types are the same.
LEMMA TablesType ==
    ASSUME TypeOK
    PROVE  Tables \in Tab /\ Queue(Tables.txq)
  BY DEF TypeOK, Tables, Tab, Queue

\* An operation on the tables sets each of them.
LEMMA SetTablesResult ==
    ASSUME NEW w \in Tab, SetTables(w)
    PROVE  Tables' = w
  BY DEF SetTables, Tables, Tab

\* Posting keeps the queue within its length.
LEMMA PostType ==
    ASSUME NEW q \in Seq(Action), Len(q) <= QueueLen, NEW a \in Action
    PROVE  Post(q, a) \in Seq(Action) /\ Len(Post(q, a)) <= QueueLen
<1>1. CASE Len(q) < QueueLen
  <2>1. Post(q, a) = Append(q, a)
    BY <1>1 DEF Post
  <2>2. Append(q, a) \in Seq(Action) /\ Len(Append(q, a)) = Len(q) + 1
    OBVIOUS
  <2>3. Len(q) \in Nat /\ QueueLen \in Nat
    BY NumbersAssumption
  <2> QED
    BY <1>1, <2>1, <2>2, <2>3
<1>2. CASE ~(Len(q) < QueueLen)
  BY <1>2 DEF Post
<1> QED
  BY <1>1, <1>2

\* A step that leaves the packets alone leaves the timer at its packet.
LEMMA TypeStep ==
    ASSUME TypeOK, Tables' \in Tab, Queue(Tables'.txq),
           link' \subseteq Ifs, stray' \in BOOLEAN, events' \in 0..MaxEvents,
           actq' \in Seq(Action), Len(actq') <= QueueLen, cur' \in Action \cup {NoAction},
           scan' \in {0} \cup Addresses(txq')
    PROVE  TypeOK'
  BY DEF TypeOK, Tables, Tab, Queue

\* The actions that only post leave the invariant to the queue of actions.
LEMMA PostStep ==
    ASSUME TxInv, UNCHANGED <<tables, scan, stray>>,
           link' \subseteq Ifs, events' \in 0..MaxEvents,
           actq' \in Seq(Action), Len(actq') <= QueueLen, cur' \in Action \cup {NoAction}
    PROVE  TxInv'
<1>1. Tables' = Tables /\ txq' = txq /\ scan' = scan /\ stray' = stray
  BY DEF tables, Tables
<1>2. TypeOK
  BY DEF TxInv
<1>3. TypeOK'
  <2>1. Tables' \in Tab /\ Queue(Tables'.txq)
    BY <1>1, <1>2, TablesType
  <2>2. scan' \in {0} \cup Addresses(txq') /\ stray' \in BOOLEAN
    BY <1>1, <1>2 DEF TypeOK
  <2> QED
    BY <1>2, <2>1, <2>2, TypeStep
<1>4. Good(Tables') /\ (~stray' => Clean(Tables'))
  BY <1>1 DEF TxInv
<1> QED
  BY <1>3, <1>4 DEF TxInv

\* A call of the library's API.
LEMMA CallStep ==
    ASSUME TxInv, NEW v, SetTables(v), Good(v), Clean(Tables) => Clean(v),
           Moves, Unlocked, UNCHANGED <<link, actq, cur, scan, stray>>
    PROVE  TxInv'
<1>1. v \in Tab /\ Queue(v.txq)
  BY DEF Good
<1>2. Tables' = v
  BY <1>1, SetTablesResult
<1>3. TypeOK
  BY DEF TxInv
<1>4. events' \in 0..MaxEvents
  BY <1>3, NumbersAssumption DEF TypeOK, Moves
<1>5. TypeOK'
  <2>1. /\ link' \subseteq Ifs /\ stray' \in BOOLEAN /\ actq' \in Seq(Action)
        /\ Len(actq') <= QueueLen /\ cur' \in Action \cup {NoAction}
        /\ scan' \in {0} \cup Addresses(txq')
    BY <1>3 DEF TypeOK, Unlocked
  <2> QED
    BY <1>1, <1>2, <1>3, <1>4, <2>1, TypeStep
<1>6. Good(Tables') /\ (~stray' => Clean(Tables'))
  BY <1>2 DEF TxInv
<1> QED
  BY <1>5, <1>6 DEF TxInv

\* The invariant holds at the start.
LEMMA TxInvInit == Init => TxInv
<1> SUFFICES ASSUME Init PROVE TxInv
  OBVIOUS
<1> DEFINE Start(c) == [EmptyPcb EXCEPT !.state = IF c \in link THEN Running ELSE Off]
<1>1. \A c \in Ifs : /\ Start(c) \in PcbState
                     /\ Start(c).state = IF c \in link THEN Running ELSE Off
                     /\ Start(c).probing = {} /\ Start(c).ip = FALSE
  <2> SUFFICES ASSUME NEW c \in Ifs
               PROVE  /\ Start(c) \in PcbState
                      /\ Start(c).state = IF c \in link THEN Running ELSE Off
                      /\ Start(c).probing = {} /\ Start(c).ip = FALSE
    OBVIOUS
  <2> DEFINE s == IF c \in link THEN Running ELSE Off
             none == {}
             b == [EmptyPcb EXCEPT !.state = s]
  <2>1. s \in States /\ Off \in States
    BY DEF States, Off, Running, Probe1
  <2>2. EmptyPcb = [state |-> Off, probing |-> none, ip |-> FALSE, running |-> FALSE, failed |-> 0]
    BY DEF EmptyPcb
  <2>3. none \in SUBSET Services /\ 0 \in 0..FailLimit + 1
    BY NumbersAssumption
  <2>4. Start(c) = b
    OBVIOUS
  <2> HIDE DEF s, none
  <2>5. b \in PcbState /\ b.state = s /\ b.probing = none /\ b.ip = FALSE
    BY <2>1, <2>2, <2>3 DEF PcbState
  <2> HIDE DEF b, Start
  <2> QED
    BY <2>4, <2>5 DEF s, none
<1>2. pcb = [c \in Ifs |-> Start(c)]
  BY DEF Init
<1> HIDE DEF Start
<1>3. pcb \in [Ifs -> PcbState] /\ \A c \in Ifs : pcb[c] = Start(c)
  BY <1>1, <1>2
<1>4. TypeOK
  <2>1. actq = <<>> /\ actq \in Seq(Action) /\ Len(actq) <= QueueLen
    BY NumbersAssumption DEF Init
  <2>2. txq = {} /\ IsFiniteSet(txq)
    BY FS_EmptySet DEF Init
  <2>3. /\ link \subseteq Ifs /\ ready \subseteq Ifs /\ services \subseteq Services
        /\ named \in BOOLEAN /\ inst \in BOOLEAN /\ stray \in BOOLEAN
    BY DEF Init
  <2>4. cur \in Action \cup {NoAction} /\ scan \in {0} \cup Addresses(txq)
        /\ events \in 0..MaxEvents
    BY NumbersAssumption DEF Init
  <2> QED
    BY <1>3, <2>1, <2>2, <2>3, <2>4 DEF TypeOK
<1>5. Tables \in Tab /\ Queue(Tables.txq)
  BY <1>4, TablesType
<1>6. /\ Tables.txq = {} /\ Tables.ready = link /\ Tables.pcb = pcb /\ Tables.services = {}
  BY DEF Init, Tables
<1> HIDE DEF Tables
<1>7. ASSUME NEW c \in Ifs
      PROVE  /\ Driven(Tables, c) /\ Named(Tables, c) /\ HasTwin(Tables, c)
             /\ Silent(Tables, c) /\ Live(Tables, c)
  <2>1. Of(Tables.txq, c) = {}
    BY <1>6 DEF Of
  <2>2. Tables.pcb[c].probing = {} /\ Tables.pcb[c].state \in {Off, Running}
    BY <1>1, <1>3, <1>6
  <2>3. /\ c \in Tables.ready => Tables.pcb[c].state = Running
        /\ c \notin Tables.ready => Tables.pcb[c].state = Off
    BY <1>1, <1>3, <1>6
  <2>4. Driven(Tables, c)
    BY <2>1, <2>3 DEF Driven, IsAnnouncing, Running, Probe1, Probe3
  <2>5. Named(Tables, c) /\ HasTwin(Tables, c)
    BY <2>2 DEF Named, HasTwin, Off, Running, Dup
  <2>6. Silent(Tables, c) /\ Live(Tables, c)
    BY <2>1, <2>2, <2>3 DEF Silent, Live
  <2> QED
    BY <2>4, <2>5, <2>6
<1> QED
  BY <1>4, <1>5, <1>7 DEF TxInv, Good, Clean

\* The invariant holds after each step.
LEMMA TxInvNext == TxInv /\ [Next]_vars => TxInv'
<1> SUFFICES ASSUME TxInv, [Next]_vars PROVE TxInv'
  OBVIOUS
<1>1. /\ TypeOK /\ Good(Tables) /\ (~stray => Clean(Tables))
      /\ Tables \in Tab /\ Queue(Tables.txq)
  BY TablesType DEF TxInv
<1>2. /\ link \subseteq Ifs /\ events \in 0..MaxEvents /\ actq \in Seq(Action)
      /\ Len(actq) <= QueueLen /\ cur \in Action \cup {NoAction} /\ services \subseteq Services
      /\ stray \in BOOLEAN /\ ready \subseteq Ifs /\ scan \in {0} \cup Addresses(txq)
  BY <1>1 DEF TypeOK
<1>3. Moves => events' \in 0..MaxEvents
  BY <1>2, NumbersAssumption DEF Moves
<1>4. ASSUME NEW c \in Ifs, NetifEvent(c) PROVE TxInv'
  <2> DEFINE off == [type |-> "disable", if |-> c]
             on == [type |-> "enable", if |-> c]
             six == [type |-> "ipv6"]
  <2>1. off \in Action /\ on \in Action /\ six \in Action
    BY DEF Action
  <2>2. /\ \/ actq' = Post(Post(actq, off), six)
           \/ actq' = Post(Post(actq, on), six)
           \/ actq' = Post(actq, on)
        /\ link' \subseteq Ifs /\ UNCHANGED <<tables, cur, scan, stray>> /\ Moves
    BY <1>2, <1>4 DEF NetifEvent
  <2> HIDE DEF off, on, six
  <2>3. /\ Post(actq, off) \in Seq(Action) /\ Len(Post(actq, off)) <= QueueLen
        /\ Post(actq, on) \in Seq(Action) /\ Len(Post(actq, on)) <= QueueLen
    BY <1>2, <2>1, PostType
  <2>4. actq' \in Seq(Action) /\ Len(actq') <= QueueLen
    BY <2>1, <2>2, <2>3, PostType
  <2> QED
    BY <1>2, <1>3, <2>2, <2>4, PostStep
<1>5. ASSUME NEW c \in Ifs, AnnounceEvent(c) PROVE TxInv'
  <2> DEFINE a == [type |-> "announce", if |-> c]
  <2>1. a \in Action
    BY DEF Action
  <2>2. actq' = Post(actq, a) /\ UNCHANGED <<link, tables, cur, scan, stray>> /\ Moves
    BY <1>5 DEF AnnounceEvent
  <2> HIDE DEF a
  <2>3. actq' \in Seq(Action) /\ Len(actq') <= QueueLen
    BY <1>2, <2>1, <2>2, PostType
  <2> QED
    BY <1>2, <1>3, <2>2, <2>3, PostStep
<1>6. ASSUME NEW c \in Ifs, PacketArrives(c) PROVE TxInv'
  <2>1. PICK t \in Arrivals : actq' = Post(actq, [type |-> "rx", if |-> c, a |-> t])
    BY <1>6 DEF PacketArrives
  <2> DEFINE a == [type |-> "rx", if |-> c, a |-> t]
  <2>2. a \in Action
    BY DEF Action
  <2>3. actq' = Post(actq, a) /\ UNCHANGED <<link, tables, cur, scan, stray>> /\ Moves
    BY <1>6, <2>1 DEF PacketArrives
  <2> HIDE DEF a
  <2>4. actq' \in Seq(Action) /\ Len(actq') <= QueueLen
    BY <1>2, <2>2, <2>3, PostType
  <2> QED
    BY <1>2, <1>3, <2>3, <2>4, PostStep
<1>7. ASSUME NEW type \in {"hostname", "instance"}, SetName(type) PROVE TxInv'
  <2> DEFINE a == [type |-> type]
  <2>1. a \in Action
    BY DEF Action
  <2>2. actq' = Post(actq, a) /\ UNCHANGED <<link, tables, cur, scan, stray>>
    BY <1>7 DEF SetName
  <2>3. events' \in 0..MaxEvents
    BY <1>2, <1>3, <1>7 DEF SetName
  <2> HIDE DEF a
  <2>4. actq' \in Seq(Action) /\ Len(actq') <= QueueLen
    BY <1>2, <2>1, <2>2, PostType
  <2> QED
    BY <1>2, <2>2, <2>3, <2>4, PostStep
<1>8. ASSUME NEW s \in Services, AddService(s) PROVE TxInv'
  <2> DEFINE u == [Tables EXCEPT !.services = @ \cup {s}]
             svcs == {s}
             no == FALSE
             v == ProbeAllPcbs(u, svcs, no, no)
  <2>1. /\ SetTables(v) /\ Moves /\ Unlocked /\ UNCHANGED <<link, actq, cur, scan, stray>>
    BY <1>8 DEF AddService
  <2>2. /\ u \in Tab /\ u.txq = Tables.txq /\ u.pcb = Tables.pcb /\ u.ready = Tables.ready
        /\ u.named = Tables.named /\ u.services = Tables.services \cup {s}
    BY <1>1 DEF Tab
  <2>3. svcs \in SUBSET Services /\ svcs # {} /\ svcs \subseteq u.services /\ no \in BOOLEAN
    BY <2>2
  <2> HIDE DEF u, svcs, no
  <2>4. \A c \in Ifs : Named(u, c) /\ HasTwin(u, c)
    BY <1>1, <2>2 DEF Good, Named, HasTwin
  <2>5. Clean(Tables) => Clean(u)
    BY <2>2 DEF Clean, Silent, Live
  <2>6. Good(v) /\ (Clean(Tables) => Clean(v))
    BY <1>1, <2>2, <2>3, <2>4, <2>5, ProbeAllPcbsGood
  <2> HIDE DEF v
  <2> QED
    BY <2>1, <2>6, CallStep
<1>9. ASSUME NEW s \in Services, NEW ip \in BOOLEAN, UpdateService(s, ip) PROVE TxInv'
  <2> DEFINE svcs == {s}
             v == AnnounceAllPcbs(Tables, svcs, ip)
  <2>1. /\ SetTables(v) /\ Moves /\ Unlocked /\ UNCHANGED <<link, actq, cur, scan, stray>>
    BY <1>9 DEF UpdateService
  <2>2. svcs \in SUBSET Services /\ svcs # {} /\ svcs \subseteq Tables.services
    BY <1>9 DEF UpdateService, Tables
  <2> HIDE DEF svcs
  <2>3. Good(v) /\ (Clean(Tables) => Clean(v))
    BY <1>1, <2>2, AnnounceAllPcbsGood
  <2> HIDE DEF v
  <2> QED
    BY <2>1, <2>3, CallStep
<1>10. ASSUME NEW s \in Services, RemoveService(s) PROVE TxInv'
  <2> DEFINE v == RemoveScheduledPackets([Tables EXCEPT !.services = @ \ {s}], s)
  <2>1. /\ SetTables(v) /\ Moves /\ Unlocked /\ UNCHANGED <<link, actq, cur, scan, stray>>
    BY <1>10 DEF RemoveService
  <2>2. Good(v) /\ (Clean(Tables) => Clean(v))
    BY <1>1, RemoveScheduledPacketsGood
  <2> HIDE DEF v
  <2> QED
    BY <2>1, <2>2, CallStep
<1>11. CASE ReceiveAction
  <2>1. /\ cur' = Head(actq) /\ actq' = Tail(actq) /\ actq # <<>>
        /\ UNCHANGED <<link, tables, scan, events, stray>>
    BY <1>11 DEF ReceiveAction
  <2>2. cur' \in Action /\ actq' \in Seq(Action) /\ Len(actq') <= QueueLen
    BY <1>2, <2>1, NumbersAssumption
  <2> QED
    BY <1>2, <2>1, <2>2, PostStep
<1>12. CASE ExecuteAction
  <2> DEFINE v == Effect(Tables, cur)
  <2>1. /\ cur # NoAction /\ Unlocked /\ SetTables(v) /\ cur' = NoAction
        /\ stray' = (stray \/ ~StoppedIsSilent') /\ UNCHANGED <<link, actq, scan, events>>
    BY <1>12 DEF ExecuteAction
  <2>2. cur \in Action
    BY <1>2, <2>1
  <2>3. Good(v) /\ (Clean(Tables) /\ Stopped(v) => Clean(v))
    BY <1>1, <2>2, EffectGood
  <2> HIDE DEF v
  <2>4. Tables' = v /\ v \in Tab /\ Queue(v.txq)
    BY <2>1, <2>3, SetTablesResult DEF Good
  <2>5. StoppedIsSilent' => Stopped(v)
    BY <2>4 DEF StoppedIsSilent, Stopped, Tables
  <2>6. stray' \in BOOLEAN /\ (~stray' => ~stray /\ Stopped(v))
    BY <1>2, <2>1, <2>5
  <2>7. TypeOK'
    <3>1. scan' \in {0} \cup Addresses(txq')
      BY <2>1 DEF Unlocked
    <3> QED
      BY <1>1, <1>2, <2>1, <2>4, <2>6, <3>1, TypeStep
  <2>8. Good(Tables') /\ (~stray' => Clean(Tables'))
    BY <1>1, <2>3, <2>4, <2>6
  <2> QED
    BY <2>7, <2>8 DEF TxInv
<1>13. CASE BeginScan
  <2>1. /\ \E p \in txq : scan' = p.addr
        /\ UNCHANGED <<link, tables, actq, cur, events, stray>>
    BY <1>13 DEF BeginScan, First
  <2>2. Tables' = Tables /\ txq' = txq
    BY <2>1 DEF tables, Tables
  <2>3. scan' \in {0} \cup Addresses(txq')
    BY <2>1, <2>2 DEF Addresses
  <2>4. TypeOK'
    BY <1>1, <1>2, <2>1, <2>2, <2>3, TypeStep
  <2>5. Good(Tables') /\ (~stray' => Clean(Tables'))
    BY <1>1, <2>1, <2>2
  <2> QED
    BY <2>4, <2>5 DEF TxInv
<1>14. CASE ScanPacket
  <2>1. PICK p \in txq :
          /\ p.addr = scan
          /\ actq' = Post(actq, [type |-> "tx", addr |-> scan])
          /\ txq' = (txq \ {p}) \cup {[p EXCEPT !.queued = Len(actq) < QueueLen]}
          /\ scan' \in IF \E r \in First({r \in txq : Before(p, r)}) : r.wait = 0
                       THEN Addresses(First({r \in txq : Before(p, r)})) ELSE {0}
          /\ UNCHANGED <<link, ready, pcb, services, named, inst, cur, events, stray>>
    BY <1>14 DEF ScanPacket
  <2> DEFINE posted == Len(actq) < QueueLen
             m == [p EXCEPT !.queued = posted]
             f == [r \in txq |-> IF r = p THEN m ELSE r]
             a == [type |-> "tx", addr |-> scan]
  <2>2. txq \subseteq Packet /\ p \in Packet /\ posted \in BOOLEAN
    BY <1>1, <2>1 DEF TypeOK
  <2>3. txq' = (txq \ {p}) \cup {m} /\ actq' = Post(actq, a)
    BY <2>1
  <2> HIDE DEF posted
  <2>4. m \in Packet /\ m.addr = p.addr /\ m.if = p.if /\ m.q = p.q /\ m.srv = p.srv /\ m.ans = p.ans
    BY <2>2 DEF Packet
  <2>5. a \in Action
    BY <2>1, <2>2 DEF Action, Packet
  <2> HIDE DEF m, a
  <2>6. txq' = {f[r] : r \in txq}
    BY <2>1, <2>3
  <2>7. \A r \in txq : /\ f[r] \in Packet /\ f[r].addr = r.addr /\ f[r].if = r.if
                       /\ f[r].q = r.q /\ f[r].srv = r.srv /\ f[r].ans = r.ans
    BY <2>2, <2>4
  <2> HIDE DEF f
  <2>8. /\ Tables'.ready = Tables.ready /\ Tables'.pcb = Tables.pcb
        /\ Tables'.services = Tables.services /\ Tables'.named = Tables.named
        /\ Tables'.txq = txq' /\ Tables.txq = txq /\ Tables' \in Tab
    BY <1>1, <2>1, <2>6, <2>7 DEF Tables, Tab
  <2>9. Good(Tables') /\ (Clean(Tables) => Clean(Tables'))
    BY <1>1, <2>6, <2>7, <2>8, RemarkedGood
  <2>10. scan' \in {0} \cup Addresses(txq')
    <3>1. Addresses(First({r \in txq : Before(p, r)})) \subseteq Addresses(txq)
      BY DEF Addresses, First
    <3>2. Addresses(txq) \subseteq Addresses(txq')
      BY <2>6, <2>7 DEF Addresses
    <3> QED
      BY <2>1, <3>1, <3>2
  <2>11. actq' \in Seq(Action) /\ Len(actq') <= QueueLen
    BY <1>2, <2>3, <2>5, PostType
  <2>12. TypeOK'
    BY <1>1, <1>2, <2>1, <2>8, <2>9, <2>10, <2>11, TypeStep DEF Good
  <2> QED
    BY <1>1, <2>1, <2>9, <2>12 DEF TxInv
<1>15. CASE Tick
  <2> DEFINE f == [p \in txq |-> [p EXCEPT !.wait = @ - 1]]
  <2>1. /\ Unlocked /\ \A p \in txq : p.wait > 0
        /\ txq' = {[p EXCEPT !.wait = @ - 1] : p \in txq}
        /\ UNCHANGED <<link, ready, pcb, services, named, inst, actq, cur, scan, events, stray>>
    BY <1>15 DEF Tick
  <2>2. txq' = {f[p] : p \in txq}
    BY <2>1
  <2>3. \A p \in txq : /\ f[p] \in Packet /\ f[p].addr = p.addr /\ f[p].if = p.if
                       /\ f[p].q = p.q /\ f[p].srv = p.srv /\ f[p].ans = p.ans
    <3>1. txq \subseteq Packet
      BY <1>1 DEF TypeOK
    <3> QED
      BY <2>1, <3>1 DEF Packet
  <2> HIDE DEF f
  <2>4. /\ Tables'.ready = Tables.ready /\ Tables'.pcb = Tables.pcb
        /\ Tables'.services = Tables.services /\ Tables'.named = Tables.named
        /\ Tables'.txq = txq' /\ Tables.txq = txq /\ Tables' \in Tab
    BY <1>1, <2>1, <2>2, <2>3 DEF Tables, Tab
  <2>5. Good(Tables') /\ (Clean(Tables) => Clean(Tables'))
    BY <1>1, <2>2, <2>3, <2>4, RemarkedGood
  <2>6. TypeOK'
    <3>1. scan' \in {0} \cup Addresses(txq')
      BY <2>1 DEF Unlocked
    <3> QED
      BY <1>1, <1>2, <2>1, <2>4, <2>5, <3>1, TypeStep DEF Good
  <2> QED
    BY <1>1, <2>1, <2>5, <2>6 DEF TxInv
<1>16. CASE UNCHANGED vars
  <2>1. /\ UNCHANGED <<tables, scan, stray>> /\ link' = link /\ events' = events
        /\ actq' = actq /\ cur' = cur
    BY <1>16 DEF vars
  <2> QED
    BY <1>2, <2>1, PostStep
<1> QED
  BY <1>4, <1>5, <1>6, <1>7, <1>8, <1>9, <1>10, <1>11, <1>12, <1>13, <1>14, <1>15, <1>16
  DEF Next, Surroundings, ServiceTask, Timer

\* The inductive invariant holds in every behaviour of the library's tasks.
THEOREM TxInvariant == Spec => []TxInv
  BY TxInvInit, TxInvNext, PTL DEF Spec

\* Every variable keeps its type; no two packets share an address, and the timer
\* never holds a packet that somebody freed (mdns_priv_send_packets).
THEOREM TypeCorrect == Spec => []TypeOK
<1>1. TxInv => TypeOK
  BY DEF TxInv
<1> QED
  BY <1>1, TxInvariant, PTL

\* No interface waits for what nobody will do: one that probes has its one packet
\* in the queue, one that announces has a packet, and a duplicate has its twin.
THEOREM NeverStuck == Spec => []NoInterfaceStuck
<1>1. TxInv => NoInterfaceStuck
  <2> SUFFICES ASSUME TxInv PROVE NoInterfaceStuck
    OBVIOUS
  <2>1. /\ \A c \in Ifs : Driven(Tables, c) /\ HasTwin(Tables, c)
        /\ ready \subseteq Ifs
    BY DEF TxInv, Good, TypeOK
  <2>2. Tables.ready = ready /\ Tables.pcb = pcb /\ Tables.txq = txq
    BY DEF Tables
  <2>3. ASSUME NEW c \in ready
        PROVE  /\ pcb[c].state \in Probe1..Probe3 => \E p \in txq : Of(txq, c) = {p}
               /\ IsAnnouncing(pcb[c]) => Of(txq, c) # {}
    <3>1. Driven(Tables, c)
      BY <2>1
    <3>2. IsAnnouncing(pcb[c]) => Of(txq, c) # {}
      BY <2>2, <3>1 DEF Driven
    <3>3. pcb[c].state \in Probe1..Probe3 => \E p \in Of(txq, c) : Of(txq, c) = {p}
      BY <2>2, <3>1 DEF Driven
    <3> QED
      BY <3>2, <3>3 DEF Of
  <2>4. DuplicateHasTwin
    BY <2>1, <2>2 DEF DuplicateHasTwin, HasTwin
  <2> QED
    BY <2>3, <2>4 DEF NoInterfaceStuck, AlwaysAPacket
<1> QED
  BY <1>1, TxInvariant, PTL

\* The list of probed services is never copied into one that is too short, and no
\* packet points to a service that was freed, as long as no interface has been
\* probing while it takes no part.
THEOREM MemoryIsSafe == Spec => []MemorySafe
<1>1. TxInv => MemorySafe
  <2> SUFFICES ASSUME TxInv, ~stray PROVE ProbeListFits /\ RecordsLive
    BY DEF MemorySafe
  <2>1. /\ \A c \in Ifs : Live(Tables, c)
        /\ txq \subseteq Packet
    BY DEF TxInv, Clean, TypeOK
  <2>2. Tables.services = services /\ Tables.pcb = pcb /\ Tables.txq = txq
    BY DEF Tables
  <2>3. ProbeListFits
    BY <2>1, <2>2 DEF ProbeListFits, Live
  <2>4. ASSUME NEW p \in txq PROVE (p.srv \cup p.ans) \ {Host} \subseteq services
    <3>1. p.if \in Ifs /\ p \in Of(txq, p.if)
      BY <2>1 DEF Packet, Of
    <3> QED
      BY <2>1, <2>2, <3>1 DEF Live
  <2> QED
    BY <2>3, <2>4 DEF RecordsLive
<1> QED
  BY <1>1, TxInvariant, PTL
=============================================================================
