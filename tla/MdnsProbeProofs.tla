---------------------------- MODULE MdnsProbeProofs ----------------------------
(***************************************************************************)
(* Machine-checked proofs about MdnsProbe, for every set of devices, every *)
(* number of free names, and any number of lost packets and power cycles.  *)
(*                                                                         *)
(* The type invariant is inductive as it stands, and is what shows that    *)
(* the highest address keeps its name: who can win a conflict over it has  *)
(* sent a packet, and so is one of the devices.  That a name found free is *)
(* free needs FreeInv: what is on its way to a device that asks.           *)
(*                                                                         *)
(* That host names are unique needs HostInv, FreeInv and ThreeChances: two *)
(* devices with one host name are left with at least three chances to see  *)
(* it, in the probes one of them has still to send, the announcements of   *)
(* the other and the packets on their way between them, less those lost.   *)
(*                                                                         *)
(* That two devices have two instance names needs InstInv: the same count  *)
(* for the service (ThreeSrvChances), and, as a device may announce its    *)
(* address alone, which names the two can have (NamesInv): who does has    *)
(* the lower address and faroldns1, and that host name beats no other one. *)
(***************************************************************************)
EXTENDS MdnsProbe, FiniteSetTheorems, TLAPS

States == Running .. Announce3

-----------------------------------------------------------------------------
(* The steps of one device. *)

LEMMA SetFields ==
    ASSUME NEW x \in Records, NEW s \in States, NEW p \in BOOLEAN, NEW q \in BOOLEAN
    PROVE  /\ [x EXCEPT !.state = s, !.srv = p, !.a = q] \in Records
           /\ [x EXCEPT !.state = s, !.srv = p, !.a = q].host = x.host
  BY DEF Records, States

LEMMA InitProbeType ==
    ASSUME NEW x \in Records, NEW srv \in BOOLEAN, NEW a \in BOOLEAN
    PROVE  InitProbe(x, srv, a) \in Records /\ InitProbe(x, srv, a).host = x.host
<1> DEFINE p == (Probing(x) /\ x.srv) \/ srv
           q == (Probing(x) /\ x.a) \/ a
<1>1. p \in BOOLEAN /\ q \in BOOLEAN
  OBVIOUS
<1>2. Probe1 \in States
  BY DEF Probe1, States, Running, Announce3
<1>3. InitProbe(x, srv, a) = [x EXCEPT !.state = Probe1, !.srv = p, !.a = q]
  BY DEF InitProbe
<1> HIDE DEF p, q
<1>4. [x EXCEPT !.state = Probe1, !.srv = p, !.a = q] \in Records
  BY <1>1, <1>2, SetFields
<1>5. [x EXCEPT !.state = Probe1, !.srv = p, !.a = q].host = x.host
  BY DEF Records
<1> QED
  BY <1>3, <1>4, <1>5

LEMMA RestartType ==
    ASSUME NEW x \in Records
    PROVE  /\ RestartAll(x) \in Records /\ RestartAll(x).host = x.host
           /\ RestartNoInstance(x) \in Records /\ RestartNoInstance(x).host = x.host
<1> DEFINE y == [x EXCEPT !.srv = FALSE]
<1>1. y \in Records /\ y.host = x.host /\ x.service \in BOOLEAN
  BY DEF Records
<1> HIDE DEF y
<1>2. RestartAll(x) = InitProbe(y, x.service, TRUE) /\ RestartNoInstance(x) = InitProbe(y, TRUE, FALSE)
  BY DEF RestartAll, RestartNoInstance, y
<1> QED
  BY <1>1, <1>2, InitProbeType, ZenonT(30)

LEMMA HostType ==
    ASSUME NEW n \in Nat \ {0}, NEW k \in Nat \ {0}
    PROVE  Host(n, k) \in Hosts /\ Host(n, k) # NoHost
  BY DEF Host, Hosts, NoHost

LEMMA MangledType ==
    ASSUME NEW h \in Hosts, h # NoHost
    PROVE  Mangled(h) \in Hosts /\ Mangled(h) # NoHost
  BY DEF Hosts, NoHost, Host, Mangled

LEMMA ScheduledType ==
    ASSUME NEW x \in Records, x.state # Running
    PROVE  Scheduled(x) \in Records /\ Scheduled(x).host = x.host
<1>0. Announce3 # Probe3
  BY DEF Announce3, Probe3
<1>1. CASE x.state = Announce3
  <2>1. Scheduled(x) = [x EXCEPT !.state = Running, !.srv = FALSE, !.a = FALSE]
    BY <1>0, <1>1, Zenon DEF Scheduled
  <2>2. Running \in States /\ FALSE \in BOOLEAN
    BY DEF States, Running, Announce3
  <2>3. /\ [x EXCEPT !.state = Running, !.srv = FALSE, !.a = FALSE] \in Records
        /\ [x EXCEPT !.state = Running, !.srv = FALSE, !.a = FALSE].host = x.host
    BY <2>2, SetFields
  <2> QED
    BY <2>1, <2>3, Zenon
<1>2. CASE x.state = Probe3
  <2> DEFINE p == x.srv
             q == x.srv \/ x.a
  <2>1. p \in BOOLEAN /\ q \in BOOLEAN /\ Announce1 \in States
    BY DEF States, Running, Announce1, Announce3, Records
  <2>2. Scheduled(x) = [x EXCEPT !.state = Announce1, !.a = q]
    BY <1>0, <1>2, Zenon DEF Scheduled
  <2> HIDE DEF q
  <2>3. [x EXCEPT !.state = Announce1, !.a = q] = [x EXCEPT !.state = Announce1, !.srv = p, !.a = q]
    BY DEF Records
  <2> HIDE DEF p
  <2>4. /\ [x EXCEPT !.state = Announce1, !.srv = p, !.a = q] \in Records
        /\ [x EXCEPT !.state = Announce1, !.srv = p, !.a = q].host = x.host
    <3>1. \A v \in States : \A w \in BOOLEAN : \A u \in BOOLEAN :
            /\ [x EXCEPT !.state = v, !.srv = w, !.a = u] \in Records
            /\ [x EXCEPT !.state = v, !.srv = w, !.a = u].host = x.host
      BY SetFields
    <3> QED
      BY <2>1, <3>1, Zenon
  <2> QED
    BY <2>2, <2>3, <2>4, Zenon
<1>3. CASE x.state # Announce3 /\ x.state # Probe3
  <2>1. Scheduled(x) = [x EXCEPT !.state = @ + 1]
    BY <1>3 DEF Scheduled
  <2> QED
    BY <1>3, <2>1 DEF Records, Announce3, Running
<1> QED
  BY <1>1, <1>2, <1>3

LEMMA SetHostnameType ==
    ASSUME NEW x \in Records, last \in Nat
    PROVE  /\ SetHostname(x, x.counter) \in Records
           /\ SetHostname(x, x.counter).host = Host(x.counter, 1)
<1> DEFINE y == [x EXCEPT !.phase = "named", !.host = Host(x.counter, 1)]
<1>1. x.counter \in Nat \ {0}
  BY DEF Records
<1>2. Host(x.counter, 1) \in Hosts
  BY <1>1, HostType
<1>3. y \in Records /\ y.host = Host(x.counter, 1)
  BY <1>2 DEF Records
<1>4. SetHostname(x, x.counter) = RestartAll(y)
  BY DEF SetHostname
<1> HIDE DEF y
<1> QED
  BY <1>3, <1>4, RestartType

-----------------------------------------------------------------------------
(* Packets. *)

LEMMA CopiesType ==
    ASSUME NEW d \in Devices, NEW x, x.host \in Hosts, x.inst \in Nat,
           NEW kind \in {"query", "probe", "response"}, NEW srv \in BOOLEAN, NEW a \in BOOLEAN,
           NEW nth \in States, NEW receivers \in SUBSET Devices
    PROVE  Copies(d, x, kind, srv, a, nth, receivers) \subseteq Messages
<1> SUFFICES ASSUME NEW r \in receivers \ {d}
             PROVE  [from |-> d, to |-> r, kind |-> kind, host |-> x.host, inst |-> x.inst,
                     srv |-> srv, a |-> a, nth |-> nth, late |-> FALSE] \in Messages
  BY DEF Copies
<1> QED
  BY DEF Messages, States

LEMMA AskForType ==
    ASSUME NEW d \in Devices, NEW n \in Nat \ {0}
    PROVE  AskFor(d, n) \subseteq Messages
<1> DEFINE x == [host |-> Host(n, 1), inst |-> 0]
<1>1. x.host \in Hosts /\ x.inst \in Nat
  BY HostType, Host(n, 1) \in Hosts
<1>2. Up \subseteq Devices /\ 0 \in States
  BY DEF Up, States, Running, Announce3
<1>3. AskFor(d, n) = Copies(d, x, "query", FALSE, TRUE, 0, Up)
  BY DEF AskFor
<1> HIDE DEF x
<1>4. FALSE \in BOOLEAN /\ TRUE \in BOOLEAN /\ "query" \in {"query", "probe", "response"}
  OBVIOUS
<1>5. Copies(d, x, "query", FALSE, TRUE, 0, Up) \subseteq Messages
  BY <1>1, <1>2, <1>4, CopiesType, Zenon
<1> QED
  BY <1>3, <1>5

-----------------------------------------------------------------------------
(* Conflicts. *)

LEMMA AfterSrvType ==
    ASSUME NEW x \in Records, NEW m \in Messages
    PROVE  AfterSrv(x, m) \in Records /\ AfterSrv(x, m).host = x.host
<1>1. CASE ~LosesSrv(x, m)
  BY <1>1 DEF AfterSrv
<1>2. CASE LosesSrv(x, m) /\ Probing(x)
  <2> DEFINE y == [x EXCEPT !.inst = @ + 1]
  <2>1. y \in Records /\ y.host = x.host
    BY DEF Records
  <2>2. AfterSrv(x, m) = RestartNoInstance(y)
    BY <1>2 DEF AfterSrv
  <2> HIDE DEF y
  <2> QED
    BY <2>1, <2>2, RestartType
<1>3. CASE LosesSrv(x, m) /\ ~Probing(x)
  BY <1>3, InitProbeType DEF AfterSrv
<1> QED
  BY <1>1, <1>2, <1>3

LEMMA AfterAType ==
    ASSUME NEW d \in Devices, NEW x \in Records, x.host # NoHost, NEW m \in Messages
    PROVE  /\ AfterA(d, x, m) \in Records /\ AfterA(d, x, m).host # NoHost
           /\ AfterA(d, x, m).host # x.host => m.from > d
<1>1. CASE ~LosesA(d, x, m)
  BY <1>1 DEF AfterA
<1>2. CASE LosesA(d, x, m) /\ Probing(x)
  <2> DEFINE y == [x EXCEPT !.host = Mangled(@)]
  <2>1. x.host \in Hosts
    BY DEF Records
  <2>2. Mangled(x.host) \in Hosts /\ Mangled(x.host) # NoHost
    BY <2>1, MangledType
  <2>3. y \in Records /\ y.host # NoHost
    BY <2>2 DEF Records
  <2>4. AfterA(d, x, m) = RestartAll(y)
    BY <1>2 DEF AfterA
  <2>5. m.from > d
    BY <1>2 DEF LosesA, ABeats
  <2> HIDE DEF y
  <2> QED
    BY <2>3, <2>4, <2>5, RestartType
<1>3. CASE LosesA(d, x, m) /\ ~Probing(x)
  BY <1>3, InitProbeType DEF AfterA
<1> QED
  BY <1>1, <1>2, <1>3

LEMMA AnswerType ==
    ASSUME NEW d \in Devices, NEW x \in Records, NEW m \in Messages
    PROVE  Answer(d, x, m) \subseteq Messages
<1> DEFINE to == IF m.nth = Probe1 THEN Up \cap {m.from} ELSE Up
<1>1. to \in SUBSET Devices
  BY DEF Messages, Up
<1>2. SrvIsOurs(x, m) \in BOOLEAN
  BY DEF SrvIsOurs, Messages, Records
<1>3. x.host \in Hosts /\ x.inst \in Nat /\ m.nth \in States
  BY DEF Records, Messages, States
<1>4. Answer(d, x, m) = Copies(d, x, "response", SrvIsOurs(x, m), TRUE, m.nth, to)
  BY DEF Answer
<1> HIDE DEF to
<1>5. TRUE \in BOOLEAN /\ "response" \in {"query", "probe", "response"}
  OBVIOUS
<1>6. Copies(d, x, "response", SrvIsOurs(x, m), TRUE, m.nth, to) \subseteq Messages
  BY <1>1, <1>2, <1>3, <1>5, CopiesType, Zenon
<1> QED
  BY <1>4, <1>6

LEMMA AgedType ==
    ASSUME net \subseteq Messages, NEW d \in Devices
    PROVE  Aged(d) \subseteq Messages
<1> SUFFICES ASSUME NEW m \in net
             PROVE  [m EXCEPT !.late = @ \/ d \in {m.from, m.to}] \in Messages
  BY DEF Aged
<1> DEFINE l == m.late \/ d \in {m.from, m.to}
<1>1. l \in BOOLEAN /\ m \in Messages
  OBVIOUS
<1> HIDE DEF l
<1>2. [m EXCEPT !.late = l] \in Messages
  BY <1>1 DEF Messages
<1> QED
  BY <1>2 DEF l

-----------------------------------------------------------------------------
(* The steps of the system.  What each of them shows: the records of one    *)
(* device change, and its host name only to a name it asked for, or because *)
(* a device with a higher address has it.                                   *)

Sound(d, r) ==
    /\ r \in Records
    /\ r.host.form <= 1 \/ r.host = dev[d].host \/ \E e \in Devices : e > d

StepSound ==
    /\ net' \subseteq Messages /\ last' = last
    /\ \/ dev' = dev
       \/ \E d \in Devices, r \in Records : Sound(d, r) /\ dev' = [dev EXCEPT ![d] = r]

LEMMA StartSound ==
    ASSUME TypeOK, NEW d \in Devices, Start(d)
    PROVE  StepSound
<1> DEFINE r == [dev[d] EXCEPT !.phase = "query"]
<1>1. dev[d] \in Records /\ net \subseteq Messages
  BY DEF TypeOK
<1>2. r \in Records /\ r.host = dev[d].host
  BY <1>1 DEF Records
<1>3. dev' = [dev EXCEPT ![d] = r]
  BY DEF Start
<1>4. net' \subseteq Messages /\ last' = last
  BY <1>1, AskForType, 1 \in Nat \ {0} DEF Start, bounds
<1> HIDE DEF r
<1> QED
  BY <1>2, <1>3, <1>4 DEF StepSound, Sound

LEMMA QueryEndsSound ==
    ASSUME TypeOK, NEW d \in Devices, QueryEnds(d)
    PROVE  StepSound
<1> DEFINE x == dev[d]
           y == SetHostname(x, x.counter)
           r == [y EXCEPT !.found = TRUE]
<1>1. x \in Records /\ last \in Nat
  BY NumbersAssumption DEF TypeOK
<1>2. dev' = [dev EXCEPT ![d] = r]
  BY DEF QueryEnds
<1> HIDE DEF x
<1>3. y \in Records /\ y.host = Host(x.counter, 1)
  BY <1>1, SetHostnameType
<1> HIDE DEF y
<1>4. r \in Records /\ r.host = y.host
  BY <1>3 DEF Records
<1>5. r.host.form <= 1
  BY <1>3, <1>4 DEF Host
<1>6. net' \subseteq Messages /\ last' = last
  BY DEF TypeOK, QueryEnds, bounds
<1> HIDE DEF r
<1> QED
  BY <1>2, <1>4, <1>5, <1>6 DEF StepSound, Sound

LEMMA AddServiceSound ==
    ASSUME TypeOK, NEW d \in Devices, AddService(d)
    PROVE  StepSound
<1> DEFINE y == [dev[d] EXCEPT !.phase = "done", !.service = TRUE]
           r == InitProbe(y, TRUE, FALSE)
<1>1. dev[d] \in Records
  BY DEF TypeOK
<1>2. y \in Records /\ y.host = dev[d].host
  BY <1>1 DEF Records
<1>3. dev' = [dev EXCEPT ![d] = r]
  BY DEF AddService
<1> HIDE DEF y
<1>4. r \in Records /\ r.host = dev[d].host
  BY <1>2, InitProbeType
<1>5. net' \subseteq Messages /\ last' = last
  BY DEF TypeOK, AddService, bounds
<1> HIDE DEF r
<1> QED
  BY <1>3, <1>4, <1>5 DEF StepSound, Sound

LEMMA SendSound ==
    ASSUME TypeOK, NEW d \in Devices, Send(d)
    PROVE  StepSound
<1> DEFINE x == dev[d]
           r == Scheduled(x)
           kind == IF Probing(x) THEN "probe" ELSE "response"
<1>1. /\ x \in Records /\ x.state # Running
      /\ x.host \in Hosts /\ x.inst \in Nat /\ x.srv \in BOOLEAN /\ x.a \in BOOLEAN /\ x.state \in States
  BY DEF TypeOK, Send, Records, States
<1>2. dev' = [dev EXCEPT ![d] = r] /\ net' = Aged(d) \cup Copies(d, x, kind, x.srv, x.a, x.state, Up)
  BY DEF Send
<1>3. kind \in {"query", "probe", "response"} /\ Up \in SUBSET Devices
  BY DEF Up
<1> HIDE DEF x, kind
<1>4. r \in Records /\ r.host = x.host
  BY <1>1, ScheduledType
<1>5. Copies(d, x, kind, x.srv, x.a, x.state, Up) \subseteq Messages
  BY <1>1, <1>3, CopiesType, Zenon
<1>6. net' \subseteq Messages /\ last' = last
  BY <1>2, <1>5, AgedType DEF TypeOK, Send, bounds
<1> HIDE DEF r
<1> QED
  BY <1>2, <1>4, <1>6 DEF StepSound, Sound, x

LEMMA PowerCycleSound ==
    ASSUME TypeOK, NEW d \in Devices, PowerCycle(d)
    PROVE  StepSound
<1>1. Off \in Records /\ Off.host.form <= 1
  BY NumbersAssumption DEF TypeOK, Off, Records, Hosts, NoHost, Host, Running, Announce3
<1>2. dev' = [dev EXCEPT ![d] = Off]
  BY DEF PowerCycle
<1>3. net' \subseteq Messages /\ last' = last
  BY DEF TypeOK, PowerCycle
<1> QED
  BY <1>1, <1>2, <1>3 DEF StepSound, Sound

LEMMA InUseSound ==
    ASSUME TypeOK, NEW m \in net, dev[m.to].host = NoHost, Receive(m)
    PROVE  StepSound
<1> DEFINE d == m.to
           x == dev[d]
           n == x.counter
           answered == m.kind = "response" /\ m.a /\ m.host = Host(n, 1)
<1>1. d \in Devices /\ x \in Records /\ last \in Nat /\ n \in 1 .. last /\ net \subseteq Messages
  BY NumbersAssumption DEF TypeOK, Messages, Records
<1>2. InUse(d, m) /\ last' = last
  BY DEF Receive, bounds
<1>3. CASE ~answered
  <2>1. dev' = dev
    BY <1>2, <1>3, Zenon DEF InUse
  <2>2. net' \subseteq Messages
    BY <1>1, <1>2, <1>3 DEF InUse
  <2> QED
    BY <1>2, <2>1, <2>2 DEF StepSound
<1>4. CASE answered /\ NamesLeft(n)
  <2> DEFINE r == [x EXCEPT !.counter = n + 1]
  <2>1. dev' = [dev EXCEPT ![d].counter = n + 1]
    BY <1>2, <1>4, Zenon DEF InUse
  <2>2. r \in Records /\ r.host = x.host
    BY <1>1, <1>4 DEF Records, NamesLeft
  <2>3. net' \subseteq Messages
    BY <1>1, <1>2, <1>4, AskForType, n + 1 \in Nat \ {0} DEF InUse
  <2>4. dev' = [dev EXCEPT ![d] = r]
    BY <2>1
  <2> HIDE DEF r
  <2> QED
    BY <1>1, <1>2, <2>2, <2>3, <2>4 DEF StepSound, Sound
<1>5. CASE answered /\ ~NamesLeft(n)
  <2> DEFINE r == SetHostname(x, n)
  <2>1. dev' = [dev EXCEPT ![d] = r]
    BY <1>2, <1>5, Zenon DEF InUse
  <2>2. r \in Records /\ r.host = Host(n, 1)
    BY <1>1, SetHostnameType
  <2>3. r.host.form <= 1
    BY <2>2 DEF Host
  <2>4. net' \subseteq Messages
    BY <1>1, <1>2, <1>5 DEF InUse
  <2> HIDE DEF r
  <2> QED
    BY <1>1, <1>2, <2>1, <2>2, <2>3, <2>4 DEF StepSound, Sound
<1> QED
  BY <1>3, <1>4, <1>5

LEMMA ResolveSound ==
    ASSUME TypeOK, NEW m \in net, dev[m.to].host # NoHost, Receive(m)
    PROVE  StepSound
<1> DEFINE d == m.to
           x == dev[d]
           y == AfterSrv(x, m)
           z == AfterA(d, y, m)
           r == IF m.kind # "query" THEN z ELSE x
<1>1. d \in Devices /\ m.from \in Devices /\ x \in Records /\ m \in Messages /\ x.host # NoHost
  BY DEF TypeOK, Messages
<1>2. Resolve(d, m) /\ last' = last
  BY DEF Receive, bounds
<1>3. dev' = [dev EXCEPT ![d] = r]
  BY <1>2 DEF Resolve
<1>4. net' \subseteq net \cup Answer(d, x, m)
  BY <1>2 DEF Resolve
<1> HIDE DEF d, x
<1>5. y \in Records /\ y.host = x.host
  BY <1>1, AfterSrvType
<1> HIDE DEF y
<1>6. z \in Records /\ (z.host # y.host => m.from > d)
  BY <1>1, <1>5, AfterAType
<1> HIDE DEF z
<1>7. r \in Records /\ (r.host # x.host => m.from > d)
  BY <1>1, <1>5, <1>6
<1>8. net' \subseteq Messages
  BY <1>1, <1>4, AnswerType DEF TypeOK
<1> HIDE DEF r
<1>9. Sound(d, r)
  BY <1>1, <1>7 DEF Sound, x
<1> QED
  BY <1>1, <1>2, <1>3, <1>7, <1>8, <1>9 DEF StepSound

-----------------------------------------------------------------------------
(* What such a step preserves. *)

LEMMA NextSound ==
    ASSUME TypeOK, Next
    PROVE  StepSound /\ lost' \in 0 .. MaxLost /\ cycles' \in 0 .. MaxCycles
<1>1. ASSUME NEW d \in Devices, Start(d) \/ Device(d)
      PROVE  StepSound /\ lost' = lost /\ cycles' = cycles
  <2>1. StepSound
    BY <1>1, StartSound, QueryEndsSound, AddServiceSound, SendSound DEF Device
  <2>2. lost' = lost /\ cycles' = cycles
    BY <1>1 DEF Start, Device, QueryEnds, AddService, Send, bounds
  <2> QED
    BY <2>1, <2>2
<1>2. ASSUME NEW d \in Devices, PowerCycle(d)
      PROVE  StepSound /\ lost' = lost /\ cycles < MaxCycles /\ cycles' = cycles + 1
  BY <1>2, PowerCycleSound DEF PowerCycle
<1>3. ASSUME NEW m \in net, Receive(m)
      PROVE  StepSound /\ lost' = lost /\ cycles' = cycles
  <2>1. StepSound
    BY <1>3, InUseSound, ResolveSound
  <2> QED
    BY <1>3, <2>1 DEF Receive, bounds
<1>4. ASSUME NEW m \in net, Lose(m)
      PROVE  StepSound /\ lost < MaxLost /\ lost' = lost + 1 /\ cycles' = cycles
  BY <1>4 DEF Lose, StepSound, TypeOK
<1>7. ASSUME NEW m \in net, AnswerDropped(m)
      PROVE  StepSound /\ lost' = lost /\ cycles' = cycles
  BY <1>7 DEF AnswerDropped, StepSound, TypeOK, bounds
<1>5. lost \in 0 .. MaxLost /\ cycles \in 0 .. MaxCycles /\ MaxLost \in Nat /\ MaxCycles \in Nat
  BY NumbersAssumption DEF TypeOK
<1>6. \/ \E d \in Devices : Start(d) \/ Device(d)
      \/ \E d \in Devices : PowerCycle(d)
      \/ \E m \in net : Receive(m)
      \/ \E m \in net : Lose(m)
      \/ \E m \in net : AnswerDropped(m)
  BY DEF Next
<1> QED
  BY <1>1, <1>2, <1>3, <1>4, <1>5, <1>6, <1>7

LEMMA TypeStep ==
    ASSUME TypeOK, [Next]_vars
    PROVE  TypeOK'
<1>1. CASE UNCHANGED vars
  BY <1>1 DEF TypeOK, vars, Records, Messages
<1>2. CASE Next
  <2>1. StepSound /\ lost' \in 0 .. MaxLost /\ cycles' \in 0 .. MaxCycles
    BY <1>2, NextSound
  <2>2. dev' \in [Devices -> Records]
    BY <2>1 DEF TypeOK, StepSound
  <2>3. Records' = Records /\ Messages' = Messages
    BY <2>1 DEF StepSound, Records, Messages
  <2>4. last' \in FreeNames /\ net' \subseteq Messages
    BY <2>1 DEF TypeOK, StepSound
  <2> QED
    BY <2>1, <2>2, <2>3, <2>4 DEF TypeOK
<1> QED
  BY <1>1, <1>2

LEMMA HighestStep ==
    ASSUME TypeOK, HighestKeepsName, [Next]_vars
    PROVE  HighestKeepsName'
<1>1. CASE UNCHANGED vars
  BY <1>1 DEF HighestKeepsName, vars
<1>2. CASE Next
  <2> SUFFICES ASSUME NEW d \in Devices, \A e \in Devices : e <= d
               PROVE  dev'[d].host.form <= 1
    BY DEF HighestKeepsName
  <2>1. StepSound
    BY <1>2, NextSound
  <2>2. dev[d].host.form <= 1
    BY DEF HighestKeepsName
  <2>3. ~ \E e \in Devices : e > d
    BY DevicesAssumption
  <2>4. CASE dev' = dev
    BY <2>2, <2>4
  <2>5. ASSUME NEW c \in Devices, NEW r \in Records, Sound(c, r), dev' = [dev EXCEPT ![c] = r]
        PROVE  dev'[d].host.form <= 1
    <3>1. CASE c = d
      <4>1. dev'[d] = r
        BY <2>5, <3>1 DEF TypeOK
      <4> QED
        BY <2>2, <2>3, <2>5, <3>1, <4>1 DEF Sound
    <3>2. CASE c # d
      BY <2>2, <2>5, <3>2 DEF TypeOK
    <3> QED
      BY <3>1, <3>2
  <2> QED
    BY <2>1, <2>4, <2>5 DEF StepSound
<1> QED
  BY <1>1, <1>2

LEMMA InitSound ==
    ASSUME Init
    PROVE  TypeOK /\ HighestKeepsName
<1>1. last \in FreeNames /\ lost \in 0 .. MaxLost /\ cycles \in 0 .. MaxCycles /\ net \subseteq Messages
  BY NumbersAssumption DEF Init
<1>2. Off \in Records /\ Off.host.form <= 1
  BY <1>1, NumbersAssumption DEF Off, Records, Hosts, NoHost, Host, Running, Announce3
<1>3. dev = [d \in Devices |-> Off]
  BY DEF Init
<1> QED
  BY <1>1, <1>2, <1>3 DEF TypeOK, HighestKeepsName

-----------------------------------------------------------------------------
\* The type invariant of MdnsProbe: whatever packets are lost and devices cut
\* off, mdns_probe_task and the conflicts leave every device with proper
\* records, and its counter among the names there are.
THEOREM TypeCorrect == Spec => []TypeOK
<1>1. Init => TypeOK
  BY InitSound
<1>2. TypeOK /\ [Next]_vars => TypeOK'
  BY TypeStep
<1> QED
  BY <1>1, <1>2, PTL DEF Spec

\* check_a_collision lets the higher address win: the device with the highest
\* one is never renamed in a conflict, however many devices there are.
THEOREM HighestKeepsNameTheorem == Spec => []HighestKeepsName
<1>1. Init => TypeOK /\ HighestKeepsName
  BY InitSound
<1>2. TypeOK /\ HighestKeepsName /\ [Next]_vars => TypeOK' /\ HighestKeepsName'
  BY TypeStep, HighestStep
<1> QED
  BY <1>1, <1>2, PTL DEF Spec

-----------------------------------------------------------------------------
(* Why a free name is free.  While no packet was lost, and a device e asks   *)
(* for the name of another one, d, that has announced it, the answer to e or *)
(* the question to d is on its way: what e asks reaches whoever has the name *)
(* by then, who answers unless it still probes, and who probes announces the *)
(* name to e later.  So nothing can be quiet around e.                       *)

Good(x) ==
    /\ x.phase \in {"off", "query"} <=> x.host = NoHost
    /\ x.phase = "off" => x.counter = 1 /\ x.state = Running
    /\ x.host = NoHost => ~x.found
    /\ Probing(x) => x.srv \/ x.a
    /\ x.state \in Announce1 .. Announce3 => x.a

Waits(d, e) ==
    /\ dev[e].phase = "query" /\ dev[d].host = Host(dev[e].counter, 1)
    /\ dev[d].state \notin Probe1 .. Announce1

\* m tells e that d has the name that e asks for, or asks d for it.
Coming(d, e, n, m) ==
    /\ m.a /\ m.host = Host(n, 1)
    /\ \/ m.kind = "response" /\ m.from = d /\ m.to = e
       \/ m.kind = "query" /\ m.from = e /\ m.to = d /\ m.nth # Probe1

AnswerComes ==
    lost = 0 => \A d, e \in Devices :
                   Waits(d, e) => \E m \in net : Coming(d, e, dev[e].counter, m)

\* Nothing is on its way to a device that is off.
Reached == \A m \in net : m.to \in Up

FreeInv == TypeOK /\ Reached /\ (\A d \in Devices : Good(dev[d])) /\ AnswerComes

\* y is x probing again, with something to probe for.
Again(y, x) ==
    /\ y.phase = x.phase /\ y.counter = x.counter /\ y.found = x.found
    /\ y.state = Probe1 /\ (y.srv \/ y.a)

LEMMA InitProbeAgain ==
    ASSUME NEW x \in Records, NEW srv \in BOOLEAN, NEW a \in BOOLEAN, srv \/ a
    PROVE  Again(InitProbe(x, srv, a), x)
<1> DEFINE p == (Probing(x) /\ x.srv) \/ srv
           q == (Probing(x) /\ x.a) \/ a
           y == [x EXCEPT !.state = Probe1, !.srv = p, !.a = q]
<1>1. p \/ q
  OBVIOUS
<1>2. InitProbe(x, srv, a) = y
  BY DEF InitProbe
<1> HIDE DEF p, q
<1>3. /\ y.phase = x.phase /\ y.counter = x.counter /\ y.found = x.found
      /\ y.state = Probe1 /\ y.srv = p /\ y.a = q
  BY DEF Records
<1> HIDE DEF y
<1> QED
  BY <1>1, <1>2, <1>3 DEF Again

LEMMA RestartAgain ==
    ASSUME NEW x \in Records
    PROVE  Again(RestartAll(x), x) /\ Again(RestartNoInstance(x), x)
<1> DEFINE y == [x EXCEPT !.srv = FALSE]
           yes == TRUE
           no == FALSE
<1>1. /\ y \in Records /\ x.service \in BOOLEAN
      /\ y.phase = x.phase /\ y.counter = x.counter /\ y.found = x.found
  BY DEF Records
<1> HIDE DEF y
<1>2. RestartAll(x) = InitProbe(y, x.service, yes) /\ RestartNoInstance(x) = InitProbe(y, yes, no)
  BY DEF RestartAll, RestartNoInstance, y
<1>3. yes \in BOOLEAN /\ no \in BOOLEAN /\ yes
  OBVIOUS
<1> HIDE DEF yes, no
<1>4. Again(InitProbe(y, x.service, yes), y) /\ Again(InitProbe(y, yes, no), y)
  BY <1>1, <1>3, InitProbeAgain
<1> QED
  BY <1>1, <1>2, <1>4 DEF Again

LEMMA SetHostnameAgain ==
    ASSUME NEW x \in Records, last \in Nat
    PROVE  Again(SetHostname(x, x.counter), [x EXCEPT !.phase = "named"])
<1> DEFINE y == [x EXCEPT !.phase = "named", !.host = Host(x.counter, 1)]
           z == [x EXCEPT !.phase = "named"]
<1>1. x.counter \in Nat \ {0}
  BY DEF Records
<1>2. Host(x.counter, 1) \in Hosts
  BY <1>1, HostType
<1>3. y \in Records /\ y.phase = z.phase /\ y.counter = z.counter /\ y.found = z.found
  BY <1>2 DEF Records
<1>4. SetHostname(x, x.counter) = RestartAll(y)
  BY DEF SetHostname
<1> HIDE DEF y, z
<1>5. Again(RestartAll(y), y)
  BY <1>3, RestartAgain
<1>6. Again(RestartAll(y), z)
  BY <1>3, <1>5 DEF Again
<1> QED
  BY <1>4, <1>6 DEF z

LEMMA AfterSrvAgain ==
    ASSUME NEW x \in Records, NEW m \in Messages
    PROVE  AfterSrv(x, m) = x \/ Again(AfterSrv(x, m), x)
<1>1. CASE ~LosesSrv(x, m)
  BY <1>1 DEF AfterSrv
<1>2. CASE LosesSrv(x, m) /\ Probing(x)
  <2> DEFINE y == [x EXCEPT !.inst = @ + 1]
  <2>1. y \in Records /\ y.phase = x.phase /\ y.counter = x.counter /\ y.found = x.found
    BY DEF Records
  <2>2. AfterSrv(x, m) = RestartNoInstance(y)
    BY <1>2 DEF AfterSrv
  <2> HIDE DEF y
  <2>3. Again(RestartNoInstance(y), y)
    BY <2>1, RestartAgain
  <2> QED
    BY <2>1, <2>2, <2>3 DEF Again
<1>3. CASE LosesSrv(x, m) /\ ~Probing(x)
  BY <1>3, InitProbeAgain DEF AfterSrv
<1> QED
  BY <1>1, <1>2, <1>3

LEMMA AfterAAgain ==
    ASSUME NEW d \in Devices, NEW x \in Records, x.host # NoHost, NEW m \in Messages
    PROVE  AfterA(d, x, m) = x \/ Again(AfterA(d, x, m), x)
<1>1. CASE ~LosesA(d, x, m)
  BY <1>1 DEF AfterA
<1>2. CASE LosesA(d, x, m) /\ Probing(x)
  <2> DEFINE y == [x EXCEPT !.host = Mangled(@)]
  <2>1. x.host \in Hosts
    BY DEF Records
  <2>2. Mangled(x.host) \in Hosts
    BY <2>1, MangledType
  <2>3. y \in Records /\ y.phase = x.phase /\ y.counter = x.counter /\ y.found = x.found
    BY <2>2 DEF Records
  <2>4. AfterA(d, x, m) = RestartAll(y)
    BY <1>2 DEF AfterA
  <2> HIDE DEF y
  <2>5. Again(RestartAll(y), y)
    BY <2>3, RestartAgain
  <2> QED
    BY <2>3, <2>4, <2>5 DEF Again
<1>3. CASE LosesA(d, x, m) /\ ~Probing(x)
  BY <1>3, InitProbeAgain DEF AfterA
<1> QED
  BY <1>1, <1>2, <1>3

\* A device that probes again, with a name as before, stays good.
LEMMA AgainGood ==
    ASSUME NEW x, NEW y, Good(x), Again(y, x), x.host # NoHost, y.host # NoHost
    PROVE  Good(y)
BY DEF Good, Again, Probing, Probe1, Probe3, Announce1, Announce3

LEMMA ScheduledIs ==
    ASSUME NEW x \in Records, x.state # Running, Good(x)
    PROVE  /\ Good(Scheduled(x))
           /\ Scheduled(x).phase = x.phase /\ Scheduled(x).counter = x.counter
           /\ Scheduled(x).state \notin Probe1 .. Announce1 => x.state \in Announce1 .. Announce3
<1>0. /\ Announce3 = 6 /\ Announce1 = 4 /\ Probe3 = 3 /\ Probe1 = 1 /\ Running = 0
      /\ x.state \in 1 .. 6
  BY DEF Announce1, Announce3, Probe1, Probe3, Running, Records
<1> DEFINE p == x.srv \/ x.a
<1>1. x.state = 3 => p
  BY <1>0 DEF Good, Probing
<1> HIDE DEF p
<1> DEFINE y == Scheduled(x)
<1>2. /\ y.phase = x.phase /\ y.counter = x.counter /\ y.found = x.found /\ y.host = x.host
      /\ y.state = IF x.state = 6 THEN 0 ELSE x.state + 1
      /\ x.state = 3 => y.a = p
      /\ x.state \notin {3, 6} => y.a = x.a /\ y.srv = x.srv
  <2>1. CASE x.state = 6
    <3>1. x.state = Announce3 /\ Announce3 # Probe3
      BY <1>0, <2>1
    <3>2. y = [x EXCEPT !.state = Running, !.srv = FALSE, !.a = FALSE]
      BY <3>1, Zenon DEF Scheduled
    <3> QED
      BY <1>0, <2>1, <3>2 DEF Records
  <2>2. CASE x.state = 3
    <3>1. y = [x EXCEPT !.state = Announce1, !.a = p]
      BY <1>0, <2>2 DEF Scheduled, p
    <3> QED
      BY <1>0, <2>2, <3>1 DEF Records
  <2>3. CASE x.state \notin {3, 6}
    <3>1. y = [x EXCEPT !.state = @ + 1]
      BY <1>0, <2>3 DEF Scheduled
    <3> QED
      BY <1>0, <2>3, <3>1 DEF Records
  <2> QED
    BY <2>1, <2>2, <2>3
<1> HIDE DEF y
<1>3. Good(y)
  BY <1>0, <1>1, <1>2 DEF Good, Probing
<1>4. y.state \notin 1 .. 4 => x.state \in 4 .. 6
  BY <1>0, <1>2
<1> QED
  BY <1>0, <1>2, <1>3, <1>4 DEF y

\* What Copies and AskFor put on the way.
LEMMA CopyIs ==
    ASSUME NEW d, NEW x, NEW kind, NEW srv, NEW a, NEW nth, NEW receivers,
           NEW r \in receivers, r # d
    PROVE  \E m \in Copies(d, x, kind, srv, a, nth, receivers) :
              /\ m.from = d /\ m.to = r /\ m.kind = kind /\ m.host = x.host
              /\ m.inst = x.inst /\ m.srv = srv /\ m.a = a /\ m.nth = nth
<1> DEFINE m == [from |-> d, to |-> r, kind |-> kind, host |-> x.host, inst |-> x.inst,
                 srv |-> srv, a |-> a, nth |-> nth, late |-> FALSE]
<1>1. m \in Copies(d, x, kind, srv, a, nth, receivers)
  BY DEF Copies
<1>2. /\ m.from = d /\ m.to = r /\ m.kind = kind /\ m.host = x.host
      /\ m.inst = x.inst /\ m.srv = srv /\ m.a = a /\ m.nth = nth
  OBVIOUS
<1> HIDE DEF m
<1> QED
  BY <1>1, <1>2

LEMMA AskForComing ==
    ASSUME NEW e, NEW d \in Up, d # e, NEW n
    PROVE  \E m \in AskFor(e, n) : Coming(d, e, n, m)
<1> DEFINE x == [host |-> Host(n, 1), inst |-> 0]
           yes == TRUE
           no == FALSE
           query == "query"
<1>1. AskFor(e, n) = Copies(e, x, query, no, yes, 0, Up) /\ x.host = Host(n, 1)
  BY DEF AskFor
<1>2. yes
  OBVIOUS
<1> HIDE DEF x, yes, no, query
<1>3. PICK m \in Copies(e, x, query, no, yes, 0, Up) :
         m.from = e /\ m.to = d /\ m.kind = query /\ m.host = x.host /\ m.a = yes /\ m.nth = 0
  BY CopyIs
<1>4. m.nth # Probe1
  BY <1>3 DEF Probe1
<1>5. Coming(d, e, n, m)
  BY <1>1, <1>2, <1>3, <1>4, Zenon DEF Coming, query
<1> QED
  BY <1>1, <1>3, <1>5

LEMMA CopiesReach ==
    ASSUME NEW d, NEW x, NEW kind, NEW srv, NEW a, NEW nth, NEW receivers \in SUBSET Up,
           NEW m \in Copies(d, x, kind, srv, a, nth, receivers)
    PROVE  m.to \in Up
<1>1. PICK r \in receivers \ {d} :
        m = [from |-> d, to |-> r, kind |-> kind, host |-> x.host, inst |-> x.inst,
             srv |-> srv, a |-> a, nth |-> nth, late |-> FALSE]
  BY DEF Copies
<1>2. m.to = r
  BY <1>1
<1> QED
  BY <1>2

LEMMA AskForReach ==
    ASSUME NEW e, NEW n, NEW m \in AskFor(e, n)
    PROVE  m.to \in Up
<1> DEFINE x == [host |-> Host(n, 1), inst |-> 0]
           yes == TRUE
           no == FALSE
           query == "query"
<1>1. m \in Copies(e, x, query, no, yes, 0, Up)
  BY DEF AskFor
<1> HIDE DEF x, yes, no, query
<1> QED
  BY <1>1, CopiesReach

LEMMA AgedComing ==
    ASSUME net \subseteq Messages, NEW c, NEW d, NEW e, NEW n, NEW m \in net, Coming(d, e, n, m)
    PROVE  \E w \in Aged(c) : Coming(d, e, n, w)
<1> DEFINE l == m.late \/ c \in {m.from, m.to}
           w == [m EXCEPT !.late = l]
<1>1. w \in Aged(c)
  BY DEF Aged
<1> HIDE DEF l
<1>2. /\ w.a = m.a /\ w.host = m.host /\ w.kind = m.kind /\ w.to = m.to
      /\ w.from = m.from /\ w.nth = m.nth
  BY DEF Messages
<1> HIDE DEF w
<1> QED
  BY <1>1, <1>2 DEF Coming

\* Devices that have no name, and devices whose name is asked for.
LEMMA NamedIsUp ==
    ASSUME FreeInv, NEW d \in Devices, NEW e \in Devices, Waits(d, e)
    PROVE  d \in Up /\ e \in Up /\ d # e /\ dev[e].host = NoHost /\ dev[d].host # NoHost
<1>1. /\ dev[e] \in Records /\ Good(dev[d]) /\ Good(dev[e])
  BY DEF FreeInv, TypeOK
<1>2. dev[d].host # NoHost
  <2>1. dev[e].counter # 0
    BY <1>1, NumbersAssumption DEF FreeInv, TypeOK, Records
  <2> QED
    BY <2>1 DEF Waits, Host, NoHost
<1>3. dev[e].phase = "query" /\ dev[e].host = NoHost
  BY <1>1 DEF Waits, Good
<1> QED
  BY <1>1, <1>2, <1>3 DEF Good, Up

\* The step of a device c that sets its record to r: it stays good, packets go
\* to devices that are on, and what is asked for is on its way still or again.
FreeStep(c, r) ==
    /\ Good(r) /\ dev' = [dev EXCEPT ![c] = r]
    /\ \A m \in net' : m.to \in Up /\ (r.phase = "off" => m.to # c)
    /\ lost' = 0 => \A d, e \in Devices :
                       Waits(d, e)' => \E m \in net' : Coming(d, e, dev'[e].counter, m)

LEMMA FreeStepKeeps ==
    ASSUME FreeInv, NEW c \in Devices, NEW r, FreeStep(c, r)
    PROVE  Reached' /\ (\A d \in Devices : Good(dev'[d])) /\ AnswerComes'
<1>1. AnswerComes'
  BY DEF FreeStep, AnswerComes
<1>2. ASSUME NEW d \in Devices
      PROVE  Good(dev'[d])
  <2>1. dev'[d] = IF d = c THEN r ELSE dev[d]
    BY DEF FreeStep, FreeInv, TypeOK
  <2> QED
    BY <2>1 DEF FreeStep, FreeInv
<1>3. ASSUME NEW m \in net'
      PROVE  m.to \in Up'
  <2>1. m.to \in Up /\ (r.phase = "off" => m.to # c)
    BY DEF FreeStep
  <2>2. dev'[m.to] = IF m.to = c THEN r ELSE dev[m.to]
    BY <2>1 DEF FreeStep, FreeInv, TypeOK, Up
  <2> QED
    BY <2>1, <2>2 DEF Up
<1> QED
  BY <1>1, <1>2, <1>3 DEF Reached

\* What was on its way before such a step to others, and is not handled by it,
\* is still what they wait for.
LEMMA OthersWait ==
    ASSUME FreeInv, NEW c \in Devices, NEW r, dev' = [dev EXCEPT ![c] = r], lost' = lost,
           lost' = 0, NEW d \in Devices, NEW e \in Devices, Waits(d, e)', c # d, c # e
    PROVE  /\ Waits(d, e) /\ dev'[e].counter = dev[e].counter
           /\ \E m \in net : m.to # c /\ Coming(d, e, dev[e].counter, m)
<1>1. dev'[d] = dev[d] /\ dev'[e] = dev[e]
  BY DEF FreeInv, TypeOK
<1>2. Waits(d, e)
  BY <1>1 DEF Waits
<1>3. PICK m \in net : Coming(d, e, dev[e].counter, m)
  BY <1>2 DEF FreeInv, AnswerComes
<1>4. m.to # c
  BY <1>3 DEF Coming
<1> QED
  BY <1>1, <1>2, <1>3, <1>4

LEMMA StartFree ==
    ASSUME FreeInv, NEW c \in Devices, Start(c)
    PROVE  \E r : FreeStep(c, r)
<1> DEFINE r == [dev[c] EXCEPT !.phase = "query"]
<1>1. dev[c] \in Records /\ Good(dev[c]) /\ dev[c].phase = "off"
  BY DEF FreeInv, TypeOK, Start
<1>2. /\ r.phase = "query" /\ r.counter = 1 /\ r.found = dev[c].found /\ r.host = NoHost
      /\ r.state = dev[c].state /\ r.srv = dev[c].srv /\ r.a = dev[c].a
  BY <1>1 DEF Records, Good
<1>3. dev' = [dev EXCEPT ![c] = r] /\ dev'[c] = r
  BY DEF Start, FreeInv, TypeOK
<1>4. net' = net \cup AskFor(c, 1) /\ lost' = lost
  BY DEF Start, bounds
<1> HIDE DEF r
<1>5. Good(r)
  BY <1>1, <1>2 DEF Good, Probing
<1>6. ASSUME NEW d \in Devices, NEW e \in Devices, Waits(d, e)', lost' = 0
      PROVE  \E m \in net' : Coming(d, e, dev'[e].counter, m)
  <2>1. d # c
    <3>1. NoHost # Host(dev'[e].counter, 1)
      BY DEF NoHost, Host
    <3> QED
      BY <1>2, <1>3, <1>6, <3>1 DEF Waits
  <2>2. CASE e = c
    <3>1. dev'[d] = dev[d] /\ dev[d].host # NoHost
      BY <1>2, <1>3, <1>6, <2>1, <2>2 DEF FreeInv, TypeOK, Waits, Host, NoHost
    <3>2. d \in Up
      BY <3>1 DEF FreeInv, Good, Up
    <3>3. \E m \in AskFor(e, 1) : Coming(d, e, 1, m)
      BY <2>1, <2>2, <3>2, AskForComing
    <3> QED
      BY <1>2, <1>3, <1>4, <2>2, <3>3
  <2>3. CASE e # c
    BY <1>3, <1>4, <1>6, <2>1, <2>3, OthersWait
  <2> QED
    BY <2>2, <2>3
<1>7. \A m \in net' : m.to \in Up
  BY <1>4, AskForReach DEF FreeInv, Reached
<1> QED
  BY <1>2, <1>3, <1>5, <1>6, <1>7 DEF FreeStep

\* Steps after which the device has a name, probes for it, and left what is on
\* its way to others.
LEMMA FreshFree ==
    ASSUME FreeInv, NEW c \in Devices, NEW r, dev' = [dev EXCEPT ![c] = r],
           lost' = lost, Good(r),
           r.phase # "query", r.host = NoHost \/ r.state = Probe1,
           net' \subseteq net, \A m \in net : m.to # c => m \in net',
           r.phase = "off" => \A m \in net' : m.to # c
    PROVE  FreeStep(c, r)
<1>1. dev'[c] = r
  BY DEF FreeInv, TypeOK
<1> SUFFICES ASSUME NEW d \in Devices, NEW e \in Devices, Waits(d, e)', lost' = 0
             PROVE  \E m \in net' : Coming(d, e, dev'[e].counter, m)
  BY DEF FreeStep, FreeInv, Reached
<1>2. c # e
  BY <1>1 DEF Waits
<1>3. c # d
  BY <1>1 DEF Waits, NoHost, Host, Probe1, Announce1
<1> QED
  BY <1>2, <1>3, OthersWait

LEMMA QueryEndsFree ==
    ASSUME FreeInv, NEW c \in Devices, QueryEnds(c)
    PROVE  \E r : FreeStep(c, r)
<1> DEFINE x == dev[c]
           y == SetHostname(x, x.counter)
           r == [y EXCEPT !.found = TRUE]
<1>1. x \in Records /\ last \in Nat /\ x.counter # 0
  BY NumbersAssumption DEF FreeInv, TypeOK, Records
<1>2. dev' = [dev EXCEPT ![c] = r] /\ net' = net /\ lost' = lost
  BY DEF QueryEnds, bounds
<1> HIDE DEF x
<1>3. y \in Records /\ y.host = Host(x.counter, 1) /\ Again(y, [x EXCEPT !.phase = "named"])
  BY <1>1, SetHostnameType, SetHostnameAgain
<1>4. y.phase = "named" /\ y.state = Probe1 /\ (y.srv \/ y.a)
  BY <1>1, <1>3 DEF Again, Records
<1> HIDE DEF y
<1>5. /\ r.phase = "named" /\ r.state = Probe1 /\ r.srv = y.srv /\ r.a = y.a
      /\ r.host = Host(x.counter, 1)
  BY <1>3, <1>4 DEF Records
<1> HIDE DEF r
<1>6. r.host # NoHost
  BY <1>1, <1>5 DEF Host, NoHost
<1>7. Good(r)
  BY <1>4, <1>5, <1>6 DEF Good, Probe1, Announce1, Announce3
<1> QED
  BY <1>2, <1>5, <1>7, FreshFree

LEMMA AddServiceFree ==
    ASSUME FreeInv, NEW c \in Devices, AddService(c)
    PROVE  \E r : FreeStep(c, r)
<1> DEFINE x == dev[c]
           y == [x EXCEPT !.phase = "done", !.service = TRUE]
           r == InitProbe(y, TRUE, FALSE)
<1>1. x \in Records /\ x.host # NoHost
  BY DEF FreeInv, TypeOK, AddService, Good
<1>2. y \in Records /\ y.host = x.host /\ y.phase = "done"
  BY <1>1 DEF Records
<1>3. dev' = [dev EXCEPT ![c] = r] /\ net' = net /\ lost' = lost
  BY DEF AddService, bounds
<1> HIDE DEF x, y
<1>4. r.host = y.host /\ Again(r, y)
  BY <1>2, InitProbeType, InitProbeAgain
<1> HIDE DEF r
<1>5. r.phase = "done" /\ r.state = Probe1 /\ r.host # NoHost
  BY <1>1, <1>2, <1>4 DEF Again
<1>6. Good(r)
  BY <1>4, <1>5 DEF Good, Again, Probe1, Announce1, Announce3
<1> QED
  BY <1>3, <1>5, <1>6, FreshFree

LEMMA PowerCycleFree ==
    ASSUME FreeInv, NEW c \in Devices, PowerCycle(c)
    PROVE  \E r : FreeStep(c, r)
<1>1. /\ Off.phase = "off" /\ Off.counter = 1 /\ Off.found = FALSE /\ Off.host = NoHost
      /\ Off.state = Running
  BY DEF Off
<1>2. Good(Off)
  BY <1>1 DEF Good, Probing, Running, Probe1, Probe3, Announce1, Announce3
<1>3. /\ dev' = [dev EXCEPT ![c] = Off] /\ lost' = lost
      /\ net' = {m \in net : m.to # c}
  BY DEF PowerCycle
<1>4. Off.phase # "query"
  BY <1>1
<1> QED
  BY <1>1, <1>2, <1>3, <1>4, FreshFree

\* Sending keeps what is on its way, and the first announcement goes to
\* whoever asks.
LEMMA SendFree ==
    ASSUME FreeInv, NEW c \in Devices, Send(c)
    PROVE  \E r : FreeStep(c, r)
<1> DEFINE x == dev[c]
           r == Scheduled(x)
           kind == IF Probing(x) THEN "probe" ELSE "response"
           sent == Copies(c, x, kind, x.srv, x.a, x.state, Up)
<1>1. x \in Records /\ Good(x) /\ x.state # Running /\ net \subseteq Messages
  BY DEF FreeInv, TypeOK, Send
<1>2. dev' = [dev EXCEPT ![c] = r] /\ net' = Aged(c) \cup sent /\ lost' = lost
  BY DEF Send, bounds
<1>3. dev'[c] = r
  BY <1>2 DEF FreeInv, TypeOK
<1>4. x.state \in Announce1 .. Announce3 => kind = "response" /\ x.a
  BY <1>1 DEF Good, Probing, Probe1, Probe3, Announce1, Announce3
<1>5. \A e \in Up : e # c =>
        \E m \in sent : m.from = c /\ m.to = e /\ m.kind = kind /\ m.host = x.host /\ m.a = x.a
  BY CopyIs
<1>8. \A m \in net' : m.to \in Up
  <2>1. \A m \in sent : m.to \in Up
    BY CopiesReach
  <2>2. ASSUME NEW m \in net
        PROVE  [m EXCEPT !.late = @ \/ c \in {m.from, m.to}].to \in Up
    BY <1>1, <2>2 DEF FreeInv, Reached, Messages
  <2> QED
    BY <1>2, <2>1, <2>2 DEF Aged
<1>9. x.phase # "off"
  BY <1>1 DEF Good
<1> HIDE DEF x, kind, sent
<1>6. /\ Good(r) /\ r.phase = x.phase /\ r.counter = x.counter /\ r.host = x.host
      /\ r.state \notin Probe1 .. Announce1 => x.state \in Announce1 .. Announce3
  BY <1>1, ScheduledIs, ScheduledType
<1> HIDE DEF r
<1>7. ASSUME NEW d \in Devices, NEW e \in Devices, Waits(d, e)', lost' = 0
      PROVE  \E m \in net' : Coming(d, e, dev'[e].counter, m)
  <2>1. \A b \in Devices : dev'[b].host = dev[b].host /\ dev'[b].phase = dev[b].phase
                             /\ dev'[b].counter = dev[b].counter
    <3> TAKE b \in Devices
    <3>1. dev'[b] = IF b = c THEN r ELSE dev[b]
      BY <1>2 DEF FreeInv, TypeOK
    <3> QED
      BY <1>6, <3>1 DEF x
  <2>2. dev[e].phase = "query" /\ dev[d].host = Host(dev[e].counter, 1)
    BY <1>7, <2>1 DEF Waits
  <2>3. CASE d = c /\ x.state \in Announce1 .. Announce3
    <3>1. e \in Up /\ e # c
      <4>1. dev[e].host = NoHost /\ dev[e].counter # 0
        BY <2>2, NumbersAssumption DEF FreeInv, TypeOK, Records, Good
      <4> QED
        BY <2>2, <2>3, <4>1 DEF Up, Host, NoHost
    <3>2. PICK m \in sent : m.from = c /\ m.to = e /\ m.kind = kind /\ m.host = x.host /\ m.a = x.a
      BY <1>5, <3>1
    <3>3. x.host = Host(dev'[e].counter, 1)
      BY <2>1, <2>2, <2>3 DEF x
    <3>4. Coming(d, e, dev'[e].counter, m)
      BY <1>4, <2>3, <3>2, <3>3 DEF Coming
    <3> QED
      BY <1>2, <3>4
  <2>4. CASE d # c
    <3>1. dev'[d] = dev[d]
      BY <1>2, <2>4 DEF FreeInv, TypeOK
    <3>2. Waits(d, e)
      BY <1>7, <2>2, <3>1 DEF Waits
    <3>3. PICK m \in net : Coming(d, e, dev[e].counter, m)
      BY <1>2, <1>7, <3>2 DEF FreeInv, AnswerComes
    <3> QED
      BY <1>1, <1>2, <2>1, <3>3, AgedComing
  <2>5. d = c => x.state \in Announce1 .. Announce3
    BY <1>3, <1>6, <1>7 DEF Waits
  <2> QED
    BY <2>3, <2>4, <2>5
<1> QED
  BY <1>2, <1>6, <1>7, <1>8, <1>9 DEF FreeStep

\* A device that asks passes to the next name, or takes the last one, when the
\* answer is there; the answers to others it leaves alone.
LEMMA InUseFree ==
    ASSUME FreeInv, NEW m \in net, dev[m.to].host = NoHost, Receive(m)
    PROVE  (dev' = dev /\ net' \subseteq net /\ AnswerComes') \/ \E r : FreeStep(m.to, r)
<1> DEFINE c == m.to
           x == dev[c]
           n == x.counter
           answered == m.kind = "response" /\ m.a /\ m.host = Host(n, 1)
<1>1. c \in Devices /\ x \in Records /\ Good(x) /\ last \in Nat /\ n \in Nat \ {0}
  BY NumbersAssumption DEF FreeInv, TypeOK, Messages, Records
<1>2. InUse(c, m) /\ lost' = lost
  BY DEF Receive, bounds
<1>3. \A w \in net : w.to # c => w \in net'
  BY <1>2 DEF InUse
<1>7. x.phase # "off"
  BY DEF FreeInv, Reached, Up
<1>4. CASE ~answered
  <2>1. dev' = dev
    BY <1>2, <1>4, Zenon DEF InUse
  <2>2. ASSUME NEW d \in Devices, NEW e \in Devices, Waits(d, e)', lost' = 0
        PROVE  \E w \in net' : Coming(d, e, dev'[e].counter, w)
    <3>1. Waits(d, e)
      BY <2>1, <2>2 DEF Waits
    <3>2. d # c
      BY <3>1, NamedIsUp
    <3>3. PICK w \in net : Coming(d, e, dev[e].counter, w)
      BY <1>2, <2>2, <3>1 DEF FreeInv, AnswerComes
    <3>4. w # m
      <4>1. w.kind # "response" \/ w.to # e \/ e # c \/ ~(w.a /\ w.host = Host(n, 1)) \/ w # m
        BY <1>4
      <4> QED
        BY <3>2, <3>3, <4>1 DEF Coming
    <3>5. w \in net'
      BY <1>2, <3>4 DEF InUse
    <3> QED
      BY <2>1, <3>3, <3>5
  <2>3. net' \subseteq net
    BY <1>2, <1>4 DEF InUse
  <2> QED
    BY <2>1, <2>2, <2>3 DEF AnswerComes
<1>5. CASE answered /\ NamesLeft(n)
  <2> DEFINE r == [x EXCEPT !.counter = n + 1]
  <2>1. dev' = [dev EXCEPT ![c].counter = n + 1] /\ net' = (net \ {m}) \cup AskFor(c, n + 1)
    BY <1>2, <1>5, Zenon DEF InUse
  <2>2. dev' = [dev EXCEPT ![c] = r] /\ dev'[c] = r
    BY <1>1, <2>1 DEF FreeInv, TypeOK
  <2>3. /\ r.host = NoHost /\ r.counter = n + 1 /\ r.phase = x.phase /\ r.found = x.found
        /\ r.state = x.state /\ r.srv = x.srv /\ r.a = x.a
    BY <1>1 DEF Records
  <2> HIDE DEF r
  <2>5. ASSUME NEW d \in Devices, NEW e \in Devices, Waits(d, e)', lost' = 0
        PROVE  \E w \in net' : Coming(d, e, dev'[e].counter, w)
    <3>1. CASE e = c
      <4>1. dev'[e].counter = n + 1 /\ dev'[d].host = Host(n + 1, 1)
        BY <2>2, <2>3, <2>5, <3>1 DEF Waits
      <4>2. d # c
        BY <1>1, <2>2, <2>3, <4>1 DEF Host, NoHost, Records
      <4>3. d \in Up
        <5>1. dev'[d] = dev[d]
          BY <2>2, <4>2 DEF FreeInv, TypeOK
        <5>2. dev[d].host # NoHost
          BY <1>1, <4>1, <5>1 DEF Host, NoHost, Records
        <5> QED
          BY <5>2 DEF FreeInv, Good, Up
      <4>4. \E w \in AskFor(e, n + 1) : Coming(d, e, n + 1, w)
        BY <3>1, <4>2, <4>3, AskForComing
      <4> QED
        BY <2>1, <3>1, <4>1, <4>4
    <3>2. CASE d = c
      <4>1. NoHost = Host(dev'[e].counter, 1)
        BY <2>2, <2>3, <2>5, <3>2 DEF Waits
      <4> QED
        BY <4>1 DEF NoHost, Host
    <3>3. CASE d # c /\ e # c
      BY <1>1, <1>2, <1>3, <2>2, <2>5, <3>3, OthersWait
    <3> QED
      BY <3>1, <3>2, <3>3
  <2>6. n + 1 # 1 /\ x.phase # "off" => Good(r)
    BY <1>1, <2>3 DEF Good, Probing
  <2>7. Good(r)
    BY <1>1, <1>7, <2>6
  <2>8. \A w \in net' : w.to \in Up
    BY <2>1, AskForReach DEF FreeInv, Reached
  <2> QED
    BY <1>7, <2>2, <2>3, <2>5, <2>7, <2>8 DEF FreeStep
<1>6. CASE answered /\ ~NamesLeft(n)
  <2> DEFINE r == SetHostname(x, n)
  <2>1. dev' = [dev EXCEPT ![c] = r]
    BY <1>2, <1>6, Zenon DEF InUse
  <2>2. r.host = Host(n, 1) /\ Again(r, [x EXCEPT !.phase = "named"])
    BY <1>1, SetHostnameType, SetHostnameAgain
  <2> HIDE DEF r
  <2>3. r.phase = "named" /\ r.state = Probe1 /\ (r.srv \/ r.a)
    BY <1>1, <2>2 DEF Again, Records
  <2>4. r.host # NoHost
    BY <1>1, <2>2 DEF Host, NoHost
  <2>5. Good(r)
    BY <2>3, <2>4 DEF Good, Probe1, Announce1, Announce3
  <2>6. net' \subseteq net
    BY <1>2, <1>6 DEF InUse
  <2> QED
    BY <1>1, <1>2, <1>3, <2>1, <2>3, <2>5, <2>6, FreshFree
<1> QED
  BY <1>4, <1>5, <1>6

\* A device that has a name answers the question for it, unless it probes; a
\* conflict makes it probe again.
LEMMA ResolveFree ==
    ASSUME FreeInv, NEW m \in net, dev[m.to].host # NoHost, Receive(m)
    PROVE  \E r : FreeStep(m.to, r)
<1> DEFINE c == m.to
           x == dev[c]
           y == AfterSrv(x, m)
           z == AfterA(c, y, m)
           r == IF m.kind # "query" THEN z ELSE x
           reply == Questions(x, m) /\ ~Probing(x)
                      /\ (m.kind # "query" => ~LosesSrv(x, m) /\ ~LosesA(c, y, m))
           to == IF m.nth = Probe1 THEN Up \cap {m.from} ELSE Up
<1>1. /\ c \in Devices /\ x \in Records /\ m \in Messages /\ x.host # NoHost /\ Good(x)
      /\ net \subseteq Messages
  BY DEF FreeInv, TypeOK, Messages
<1>2. Resolve(c, m) /\ lost' = lost
  BY DEF Receive, bounds
<1>3. /\ dev' = [dev EXCEPT ![c] = r] /\ dev'[c] = r
      /\ net' = (net \ {m}) \cup (IF reply THEN Answer(c, x, m) ELSE {})
  <2>1. dev' = [dev EXCEPT ![c] = r]
    BY <1>2 DEF Resolve
  <2>2. net' = (net \ {m}) \cup (IF reply THEN Answer(c, x, m) ELSE {})
    BY <1>2, Zenon DEF Resolve
  <2> HIDE DEF r, reply
  <2>3. dev'[c] = r
    BY <1>1, <2>1 DEF FreeInv, TypeOK
  <2> QED
    BY <2>1, <2>2, <2>3
<1>4. /\ Answer(c, x, m) = Copies(c, x, "response", SrvIsOurs(x, m), TRUE, m.nth, to)
      /\ to \subseteq Up /\ (m.nth # Probe1 => to = Up)
  BY DEF Answer
<1>5. /\ m.kind = "query" => r = x
      /\ m.kind = "query" /\ m.a /\ m.host = x.host /\ ~Probing(x) => reply
  BY DEF Questions, AIsOurs
<1> HIDE DEF c, x, reply, to
<1>6. y \in Records /\ y.host = x.host /\ (y = x \/ Again(y, x))
  BY <1>1, AfterSrvType, AfterSrvAgain
<1> HIDE DEF y
<1>7. z.host # NoHost /\ (z = y \/ Again(z, y))
  BY <1>1, <1>6, AfterAType, AfterAAgain
<1> HIDE DEF z
<1>8. r.host # NoHost /\ (r = x \/ Again(r, x))
  BY <1>1, <1>6, <1>7 DEF Again
<1> HIDE DEF r
<1>9. Good(r) /\ r.phase # "off" /\ r.phase # "query"
  <2>1. Good(r)
    BY <1>1, <1>8, AgainGood
  <2> QED
    BY <1>8, <2>1 DEF Good
<1>10. \A w \in net' : w.to \in Up
  BY <1>3, <1>4, CopiesReach DEF FreeInv, Reached
<1>11. \A w \in net : w.to # c => w \in net'
  BY <1>3 DEF c
<1>12. ASSUME NEW d \in Devices, NEW e \in Devices, Waits(d, e)', lost' = 0
       PROVE  \E w \in net' : Coming(d, e, dev'[e].counter, w)
  <2>1. e # c
    BY <1>3, <1>9, <1>12 DEF Waits
  <2>2. CASE d # c
    BY <1>1, <1>2, <1>3, <1>11, <1>12, <2>1, <2>2, OthersWait
  <2>3. CASE d = c
    <3>1. dev'[e] = dev[e]
      BY <1>3, <2>1 DEF FreeInv, TypeOK
    <3>2. r = x /\ r.state \notin Probe1 .. Announce1
      <4>1. r.state \notin Probe1 .. Announce1
        BY <1>3, <1>12, <2>3 DEF Waits
      <4> QED
        BY <1>8, <4>1 DEF Again, Probe1, Announce1
    <3>3. Waits(d, e)
      BY <1>3, <1>12, <2>3, <3>1, <3>2 DEF Waits, x
    <3>4. PICK w \in net : Coming(d, e, dev[e].counter, w)
      BY <1>2, <1>12, <3>3 DEF FreeInv, AnswerComes
    <3>5. CASE w # m
      BY <1>3, <3>1, <3>4, <3>5
    <3>6. CASE w = m
      <4>1. m.kind = "query" /\ m.a /\ m.host = Host(dev[e].counter, 1) /\ m.nth # Probe1
        BY <2>1, <3>4, <3>6 DEF Coming, c
      <4>2. m.host = x.host
        BY <2>3, <3>3, <4>1 DEF Waits, x
      <4>3. ~Probing(x)
        BY <3>2 DEF Probing, Probe1, Probe3, Announce1
      <4>4. net' = (net \ {m}) \cup Answer(c, x, m) /\ to = Up
        BY <1>3, <1>4, <1>5, <4>1, <4>2, <4>3
      <4>5. e \in Up
        BY <3>3, NamedIsUp
      <4> DEFINE yes == TRUE
                 response == "response"
      <4>6. Answer(c, x, m) = Copies(c, x, response, SrvIsOurs(x, m), yes, m.nth, Up)
        BY <1>4, <4>4
      <4>7. yes
        OBVIOUS
      <4> HIDE DEF yes, response
      <4>8. PICK v \in Answer(c, x, m) :
                v.from = c /\ v.to = e /\ v.kind = response /\ v.host = x.host /\ v.a = yes
        BY <2>1, <4>5, <4>6, CopyIs
      <4>9. Coming(d, e, dev'[e].counter, v)
        BY <2>3, <3>1, <4>1, <4>2, <4>7, <4>8, Zenon DEF Coming, response
      <4> QED
        BY <4>4, <4>8, <4>9
    <3> QED
      BY <3>5, <3>6
  <2> QED
    BY <2>2, <2>3
<1> QED
  BY <1>3, <1>9, <1>10, <1>12 DEF FreeStep, c

\* An answer is dropped by who probes again, whose name nobody waits for.
LEMMA DroppedFree ==
    ASSUME FreeInv, NEW m \in net, AnswerDropped(m)
    PROVE  dev' = dev /\ net' \subseteq net /\ AnswerComes'
<1>1. dev' = dev /\ net' = net \ {m} /\ lost' = lost
  BY DEF AnswerDropped, bounds
<1>2. ASSUME NEW d \in Devices, NEW e \in Devices, Waits(d, e)', lost' = 0
      PROVE  \E w \in net' : Coming(d, e, dev'[e].counter, w)
  <2>1. Waits(d, e)
    BY <1>1, <1>2 DEF Waits
  <2>2. PICK w \in net : Coming(d, e, dev[e].counter, w)
    BY <1>1, <1>2, <2>1 DEF FreeInv, AnswerComes
  <2>3. ~Probing(dev[d]) /\ dev[d].phase # "off"
    BY <2>1, NamedIsUp DEF Waits, Up, Probing, Probe1, Probe3, Announce1
  <2>4. w # m
    BY <2>2, <2>3 DEF AnswerDropped, Coming
  <2> QED
    BY <1>1, <2>2, <2>4
<1> QED
  BY <1>1, <1>2 DEF AnswerComes

LEMMA FreeInvStep ==
    ASSUME FreeInv, [Next]_vars
    PROVE  FreeInv'
<1>1. TypeOK'
  BY TypeStep DEF FreeInv
<1>2. CASE UNCHANGED vars
  BY <1>1, <1>2 DEF FreeInv, vars, Reached, Up, AnswerComes, Waits
<1>3. ASSUME NEW c \in Devices, NEW r, FreeStep(c, r)
      PROVE  FreeInv'
  BY <1>1, <1>3, FreeStepKeeps DEF FreeInv
<1>4. ASSUME dev' = dev, net' \subseteq net, AnswerComes'
      PROVE  FreeInv'
  BY <1>1, <1>4 DEF FreeInv, Reached, Up
<1>5. ASSUME NEW c \in Devices, Start(c) \/ Device(c) \/ PowerCycle(c)
      PROVE  FreeInv'
  BY <1>3, <1>5, StartFree, QueryEndsFree, AddServiceFree, SendFree, PowerCycleFree DEF Device
<1>6. ASSUME NEW m \in net, Receive(m)
      PROVE  FreeInv'
  <2>1. m.to \in Devices
    BY DEF FreeInv, TypeOK, Messages
  <2> QED
    BY <1>3, <1>4, <1>6, <2>1, InUseFree, ResolveFree
<1>7. ASSUME NEW m \in net, Lose(m)
      PROVE  FreeInv'
  <2>1. lost' # 0 /\ dev' = dev /\ net' \subseteq net
    BY <1>7 DEF Lose, FreeInv, TypeOK
  <2> QED
    BY <1>4, <2>1 DEF AnswerComes
<1>8. ASSUME NEW m \in net, AnswerDropped(m)
      PROVE  FreeInv'
  BY <1>4, <1>8, DroppedFree
<1> QED
  BY <1>2, <1>5, <1>6, <1>7, <1>8 DEF Next

\* Only a query that ends without an answer finds a name free, and while a
\* device with that name is there, something is on its way to its ends.
LEMMA FoundStep ==
    ASSUME FreeInv, [Next]_vars, NEW d \in Devices, NEW e \in Devices,
           lost = 0, dev[d].phase = "done", dev[d].state = Running,
           dev[e].host = NoHost, dev'[e].host = dev[d].host
    PROVE  ~dev'[e].found
<1>1. Good(dev[d]) /\ Good(dev[e]) /\ dev[d].host # NoHost /\ dev'[e].host # NoHost /\ ~dev[e].found
  BY DEF FreeInv, Good
<1>2. ASSUME NEW c \in Devices, NEW r, dev' = [dev EXCEPT ![c] = r]
      PROVE  c = e /\ dev'[e] = r
  BY <1>1, <1>2 DEF FreeInv, TypeOK
<1>3. ASSUME NEW c \in Devices, Start(c) \/ AddService(c) \/ Send(c) \/ PowerCycle(c)
      PROVE  dev'[e].host = NoHost
  <2>1. dev[c] \in Records
    BY DEF FreeInv, TypeOK
  <2>2. CASE Start(c)
    <3> DEFINE r == [dev[c] EXCEPT !.phase = "query"]
    <3>1. dev' = [dev EXCEPT ![c] = r] /\ r.host = dev[c].host
      BY <2>1, <2>2 DEF Start, Records
    <3> HIDE DEF r
    <3> QED
      BY <1>2, <3>1
  <2>3. CASE AddService(c)
    <3>1. c # e
      BY <1>1, <2>3 DEF AddService, Good
    <3> QED
      BY <1>2, <2>3, <3>1 DEF AddService
  <2>4. CASE Send(c)
    <3>1. dev' = [dev EXCEPT ![c] = Scheduled(dev[c])] /\ Scheduled(dev[c]).host = dev[c].host
      BY <2>1, <2>4, ScheduledType DEF Send
    <3> QED
      BY <1>2, <3>1
  <2>5. CASE PowerCycle(c)
    <3>1. dev' = [dev EXCEPT ![c] = Off] /\ Off.host = NoHost
      BY <2>5 DEF PowerCycle, Off
    <3> QED
      BY <1>2, <3>1
  <2> QED
    BY <1>3, <2>2, <2>3, <2>4, <2>5
<1>4. ASSUME NEW c \in Devices, QueryEnds(c)
      PROVE  FALSE
  <2> DEFINE x == dev[c]
             y == SetHostname(x, x.counter)
             r == [y EXCEPT !.found = TRUE]
  <2>1. x \in Records /\ last \in Nat /\ x.phase = "query" /\ Quiet(c)
    BY <1>4, NumbersAssumption DEF FreeInv, TypeOK, QueryEnds
  <2>2. dev' = [dev EXCEPT ![c] = r]
    BY <1>4 DEF QueryEnds
  <2> HIDE DEF x
  <2>3. y \in Records /\ y.host = Host(x.counter, 1)
    BY <2>1, SetHostnameType
  <2> HIDE DEF y
  <2>4. r.host = Host(x.counter, 1)
    BY <2>3 DEF Records
  <2> HIDE DEF r
  <2>5. c = e /\ dev[d].host = Host(dev[e].counter, 1)
    BY <1>2, <2>2, <2>4 DEF x
  <2>6. Waits(d, e)
    BY <2>1, <2>5 DEF Waits, x, Running, Probe1, Announce1
  <2>7. PICK m \in net : Coming(d, e, dev[e].counter, m)
    BY <2>6 DEF FreeInv, AnswerComes
  <2> QED
    BY <2>1, <2>5, <2>7 DEF Coming, Quiet
<1>5. ASSUME NEW m \in net, Receive(m)
      PROVE  ~dev'[e].found
  <2> DEFINE c == m.to
             x == dev[c]
             n == x.counter
             answered == m.kind = "response" /\ m.a /\ m.host = Host(n, 1)
  <2>1. c \in Devices /\ x \in Records /\ last \in Nat
    BY NumbersAssumption DEF FreeInv, TypeOK, Messages
  <2>2. CASE x.host # NoHost
    <3>1. Resolve(c, m)
      BY <1>5, <2>2 DEF Receive
    <3> QED
      BY <1>2, <2>1, <2>2, <3>1 DEF Resolve
  <2>3. CASE x.host = NoHost
    <3>1. InUse(c, m)
      BY <1>5, <2>3 DEF Receive
    <3>2. CASE ~answered
      <4>1. dev' = dev
        BY <3>1, <3>2, Zenon DEF InUse
      <4> QED
        BY <1>1, <4>1
    <3>3. CASE answered /\ NamesLeft(n)
      <4>1. dev' = [dev EXCEPT ![c].counter = n + 1]
        BY <3>1, <3>3, Zenon DEF InUse
      <4>2. \A b \in Devices : dev'[b].host = dev[b].host
        BY <4>1 DEF FreeInv, TypeOK, Records
      <4> QED
        BY <1>1, <4>2
    <3>4. CASE answered /\ ~NamesLeft(n)
      <4> DEFINE r == SetHostname(x, n)
      <4>1. dev' = [dev EXCEPT ![c] = r]
        BY <3>1, <3>4, Zenon DEF InUse
      <4>2. Again(r, [x EXCEPT !.phase = "named"])
        BY <2>1, SetHostnameAgain
      <4> HIDE DEF r
      <4>3. r.found = x.found
        BY <2>1, <4>2 DEF Again, Records
      <4> QED
        BY <1>1, <1>2, <2>1, <4>1, <4>3
    <3> QED
      BY <3>2, <3>3, <3>4
  <2> QED
    BY <2>2, <2>3
<1>6. ASSUME NEW m \in net, Lose(m) \/ AnswerDropped(m)
      PROVE  FALSE
  BY <1>1, <1>6 DEF Lose, AnswerDropped
<1>7. CASE UNCHANGED vars
  BY <1>1, <1>7 DEF vars
<1>8. CASE Next
  BY <1>1, <1>3, <1>4, <1>5, <1>6, <1>8 DEF Next, Device
<1> QED
  BY <1>7, <1>8

LEMMA InitFree ==
    ASSUME Init
    PROVE  FreeInv
<1>1. TypeOK
  BY InitSound
<1>2. /\ Off.phase = "off" /\ Off.counter = 1 /\ Off.found = FALSE /\ Off.host = NoHost
      /\ Off.state = Running
  BY DEF Off
<1>3. Good(Off)
  BY <1>2 DEF Good, Probing, Running, Probe1, Probe3, Announce1, Announce3
<1>4. \A d \in Devices : dev[d] = Off
  BY DEF Init
<1>5. AnswerComes /\ Reached
  BY <1>2, <1>4 DEF AnswerComes, Waits, Reached, Init
<1> QED
  BY <1>1, <1>3, <1>4, <1>5 DEF FreeInv

-----------------------------------------------------------------------------
\* mdns_probe_task takes a name for free after a second without an answer
\* (QueryEnds).  Without lost packets nobody who has announced that name and
\* rests with it can have missed the question, or the asker the answer.
THEOREM FoundIsFreeTheorem == Spec => FoundIsFree
<1>1. Init => FreeInv
  BY InitFree
<1>2. FreeInv /\ [Next]_vars => FreeInv'
  BY FreeInvStep
<1>3. FreeInv /\ [Next]_vars =>
        [\A d, e \in Devices :
           lost = 0 /\ dev[d].phase = "done" /\ dev[d].state = Running
             /\ dev[e].host = NoHost /\ dev'[e].host = dev[d].host
               => ~dev'[e].found]_vars
  BY FoundStep
<1> QED
  BY <1>1, <1>2, <1>3, PTL DEF Spec, FoundIsFree

-----------------------------------------------------------------------------
(* Why host names are unique at rest.  Let d and e have the same host name,  *)
(* d with the lower address and e past its probing.  Each probe that d has   *)
(* yet to send and each announcement that e has yet to send is a chance for  *)
(* d to notice, and so is what is on its way between them.  A chance has the *)
(* number of the packet it came from: 1 to 3 for the probes, whose answers   *)
(* keep it, and 4 to 6 for the announcements.  There are three of them when  *)
(* the two meet, and each that goes without d noticing was lost.             *)

Carries(d, e, m) ==
    /\ m.a /\ m.host = dev[d].host
    /\ \/ m.from = e /\ m.to = d /\ m.kind # "query"
       \/ m.from = d /\ m.to = e /\ m.kind = "probe"
Asks(x, s) == Probing(x) /\ x.a /\ s \in x.state .. Probe3
Tells(x, s) == x.state \in Announce1 .. Announce3 /\ s \in x.state .. Announce3

Chance(d, e, s) ==
    Asks(dev[d], s) \/ Tells(dev[e], s) \/ \E m \in net : Carries(d, e, m) /\ m.nth = s
Chances(d, e) == {s \in 1 .. 6 : Chance(d, e, s)}

SameHost(d, e) ==
    d < e /\ dev[d].host = dev[e].host /\ dev[d].host # NoHost /\ ~Probing(dev[e])
ThreeChances ==
    \A d, e \in Devices : SameHost(d, e) => lost + Cardinality(Chances(d, e)) >= 3
HostInv == FreeInv /\ ThreeChances

\* What a step may do to the chances of two devices: none goes, or all of the
\* probes or all of the announcements are still to be sent.
Kept(d, e) == SameHost(d, e) /\ \A s \in 1 .. 6 : Chance(d, e, s) => Chance(d, e, s)'
AllAhead(d, e) == (\A s \in 1 .. 3 : Chance(d, e, s)) \/ (\A s \in 4 .. 6 : Chance(d, e, s))

LEMMA FewNumbers ==
    ASSUME NEW S \in SUBSET (1 .. 6)
    PROVE  IsFiniteSet(S) /\ Cardinality(S) \in Nat
<1>0. 1 \in Int /\ 6 \in Int
  OBVIOUS
<1>1. IsFiniteSet(1 .. 6)
  BY <1>0, FS_Interval
<1>2. IsFiniteSet(S)
  BY <1>1, FS_Subset
<1> QED
  BY <1>2, FS_CardinalityType

LEMMA CountMore ==
    ASSUME NEW S \in SUBSET (1 .. 6), NEW T \in SUBSET (1 .. 6)
    PROVE  /\ S \subseteq T => Cardinality(S) <= Cardinality(T)
           /\ \A s : S \ {s} \subseteq T => Cardinality(S) <= Cardinality(T) + 1
<1>1. IsFiniteSet(T) /\ Cardinality(T) \in Nat /\ IsFiniteSet(S) /\ Cardinality(S) \in Nat
  BY FewNumbers
<1>2. S \subseteq T => Cardinality(S) <= Cardinality(T)
  BY <1>1, FS_Subset
<1>3. ASSUME NEW s, S \ {s} \subseteq T
      PROVE  Cardinality(S) <= Cardinality(T) + 1
  <2>1. Cardinality(S \ {s}) = IF s \in S THEN Cardinality(S) - 1 ELSE Cardinality(S)
    BY <1>1, FS_RemoveElement
  <2>2. Cardinality(S \ {s}) <= Cardinality(T)
    BY <1>1, <1>3, FS_Subset
  <2> QED
    BY <1>1, <2>1, <2>2
<1> QED
  BY <1>2, <1>3

LEMMA CountThree ==
    ASSUME NEW T \in SUBSET (1 .. 6), 1 .. 3 \subseteq T \/ 4 .. 6 \subseteq T
    PROVE  Cardinality(T) \in Nat /\ Cardinality(T) >= 3
<1>1. IsFiniteSet(T) /\ Cardinality(T) \in Nat
  BY FewNumbers
<1>2. Cardinality(1 .. 3) = 3 /\ Cardinality(4 .. 6) = 3
  <2>1. 1 \in Int /\ 3 \in Int /\ 4 \in Int /\ 6 \in Int
    OBVIOUS
  <2>2. /\ Cardinality(1 .. 3) = IF 1 > 3 THEN 0 ELSE 3 - 1 + 1
        /\ Cardinality(4 .. 6) = IF 4 > 6 THEN 0 ELSE 6 - 4 + 1
    BY <2>1, FS_Interval
  <2> QED
    BY <2>2
<1>3. ASSUME NEW I \in SUBSET T
      PROVE  Cardinality(I) <= Cardinality(T)
  BY <1>1, <1>3, FS_Subset
<1> QED
  BY <1>1, <1>2, <1>3

\* What is kept or ahead is enough.
LEMMA ChancesCount ==
    ASSUME HostInv, NEW d \in Devices, NEW e \in Devices,
           \/ Kept(d, e) /\ lost' = lost
           \/ AllAhead(d, e)' /\ lost' \in Nat
           \/ SameHost(d, e) /\ lost' = lost + 1
                /\ \E n : \A s \in 1 .. 6 : Chance(d, e, s) /\ s # n => Chance(d, e, s)'
    PROVE  lost' + Cardinality(Chances(d, e)') >= 3
<1> DEFINE S == Chances(d, e)
           T == Chances(d, e)'
<1>1. S \in SUBSET (1 .. 6) /\ T \in SUBSET (1 .. 6) /\ lost \in Nat
  BY DEF Chances, HostInv, FreeInv, TypeOK
<1>2. \A s \in 1 .. 6 : (s \in S <=> Chance(d, e, s)) /\ (s \in T <=> Chance(d, e, s)')
  BY DEF Chances
<1>3. SameHost(d, e) => lost + Cardinality(S) >= 3
  BY DEF HostInv, ThreeChances
<1> HIDE DEF S, T
<1>4. Cardinality(S) \in Nat /\ Cardinality(T) \in Nat
  BY <1>1, FewNumbers
<1>5. CASE Kept(d, e) /\ lost' = lost
  <2>1. S \subseteq T
    BY <1>1, <1>2, <1>5 DEF Kept
  <2>2. Cardinality(S) <= Cardinality(T)
    BY <1>1, <2>1, CountMore
  <2> QED
    BY <1>1, <1>3, <1>4, <1>5, <2>2 DEF T, Kept
<1>6. CASE AllAhead(d, e)' /\ lost' \in Nat
  <2>1. 1 .. 3 \subseteq T \/ 4 .. 6 \subseteq T
    BY <1>2, <1>6 DEF AllAhead
  <2>2. Cardinality(T) >= 3
    BY <1>1, <2>1, CountThree
  <2> QED
    BY <1>4, <1>6, <2>2 DEF T
<1>7. ASSUME NEW n, SameHost(d, e), lost' = lost + 1,
             \A s \in 1 .. 6 : Chance(d, e, s) /\ s # n => Chance(d, e, s)'
      PROVE  lost' + Cardinality(T) >= 3
  <2>1. S \ {n} \subseteq T
    BY <1>1, <1>2, <1>7
  <2>2. Cardinality(S) <= Cardinality(T) + 1
    BY <1>1, <2>1, CountMore
  <2> QED
    BY <1>1, <1>3, <1>4, <1>7, <2>2
<1> QED
  BY <1>5, <1>6, <1>7 DEF T

-----------------------------------------------------------------------------
(* What a device probes for when it begins again. *)

\* y probes again, for its address too, and for the rest of what x probes for.
Fresh(y) == y.state = Probe1 /\ y.a
Renews(y, x) == y.host = x.host /\ y.state = Probe1 /\ (Probing(x) /\ x.a => y.a)

LEMMA InitProbeIs ==
    ASSUME NEW x \in Records, NEW srv \in BOOLEAN, NEW a \in BOOLEAN
    PROVE  /\ Renews(InitProbe(x, srv, a), x)
           /\ a => Fresh(InitProbe(x, srv, a))
<1> DEFINE p == (Probing(x) /\ x.srv) \/ srv
           q == (Probing(x) /\ x.a) \/ a
           y == [x EXCEPT !.state = Probe1, !.srv = p, !.a = q]
<1>1. (Probing(x) /\ x.a => q) /\ (a => q)
  OBVIOUS
<1>2. InitProbe(x, srv, a) = y
  BY DEF InitProbe
<1> HIDE DEF p, q
<1>3. y.host = x.host /\ y.state = Probe1 /\ y.a = q
  BY DEF Records
<1> HIDE DEF y
<1> QED
  BY <1>1, <1>2, <1>3 DEF Renews, Fresh

LEMMA RestartIs ==
    ASSUME NEW x \in Records
    PROVE  Fresh(RestartAll(x)) /\ Renews(RestartNoInstance(x), x)
<1> DEFINE y == [x EXCEPT !.srv = FALSE]
           yes == TRUE
           no == FALSE
<1>1. /\ y \in Records /\ x.service \in BOOLEAN
      /\ y.host = x.host /\ y.a = x.a /\ (Probing(y) <=> Probing(x))
  BY DEF Records, Probing
<1> HIDE DEF y
<1>2. RestartAll(x) = InitProbe(y, x.service, yes) /\ RestartNoInstance(x) = InitProbe(y, yes, no)
  BY DEF RestartAll, RestartNoInstance, y
<1>3. yes \in BOOLEAN /\ no \in BOOLEAN /\ yes
  OBVIOUS
<1> HIDE DEF yes, no
<1>4. Fresh(InitProbe(y, x.service, yes)) /\ Renews(InitProbe(y, yes, no), y)
  BY <1>1, <1>3, InitProbeIs
<1> QED
  BY <1>1, <1>2, <1>4 DEF Renews

LEMMA SetHostnameIs ==
    ASSUME NEW x \in Records, last \in Nat
    PROVE  Fresh(SetHostname(x, x.counter))
<1> DEFINE y == [x EXCEPT !.phase = "named", !.host = Host(x.counter, 1)]
<1>1. x.counter \in Nat \ {0}
  BY DEF Records
<1>2. y \in Records
  BY <1>1, HostType, Host(x.counter, 1) \in Hosts DEF Records
<1>3. SetHostname(x, x.counter) = RestartAll(y)
  BY DEF SetHostname
<1> HIDE DEF y
<1> QED
  BY <1>2, <1>3, RestartIs

LEMMA AfterSrvIs ==
    ASSUME NEW x \in Records, NEW m \in Messages
    PROVE  AfterSrv(x, m) = x \/ Renews(AfterSrv(x, m), x)
<1>1. CASE ~LosesSrv(x, m)
  BY <1>1 DEF AfterSrv
<1>2. CASE LosesSrv(x, m) /\ Probing(x)
  <2> DEFINE y == [x EXCEPT !.inst = @ + 1]
  <2>1. y \in Records /\ y.host = x.host /\ y.a = x.a /\ (Probing(y) <=> Probing(x))
    BY DEF Records, Probing
  <2>2. AfterSrv(x, m) = RestartNoInstance(y)
    BY <1>2 DEF AfterSrv
  <2> HIDE DEF y
  <2> QED
    BY <2>1, <2>2, RestartIs DEF Renews
<1>3. CASE LosesSrv(x, m) /\ ~Probing(x)
  BY <1>3, InitProbeIs DEF AfterSrv
<1> QED
  BY <1>1, <1>2, <1>3

LEMMA AfterAIs ==
    ASSUME NEW d \in Devices, NEW x \in Records, x.host # NoHost, NEW m \in Messages
    PROVE  IF LosesA(d, x, m) THEN Fresh(AfterA(d, x, m)) ELSE AfterA(d, x, m) = x
<1>1. CASE ~LosesA(d, x, m)
  BY <1>1 DEF AfterA
<1>2. CASE LosesA(d, x, m) /\ Probing(x)
  <2> DEFINE y == [x EXCEPT !.host = Mangled(@)]
  <2>1. x.host \in Hosts
    BY DEF Records
  <2>2. Mangled(x.host) \in Hosts
    BY <2>1, MangledType
  <2>3. y \in Records
    BY <2>2 DEF Records
  <2>4. AfterA(d, x, m) = RestartAll(y)
    BY <1>2 DEF AfterA
  <2> HIDE DEF y
  <2> QED
    BY <1>2, <2>3, <2>4, RestartIs
<1>3. CASE LosesA(d, x, m) /\ ~Probing(x)
  <2> DEFINE yes == TRUE
             no == FALSE
  <2>1. AfterA(d, x, m) = InitProbe(x, no, yes)
    BY <1>3 DEF AfterA
  <2>2. yes \in BOOLEAN /\ no \in BOOLEAN /\ yes
    OBVIOUS
  <2> HIDE DEF yes, no
  <2>3. Fresh(InitProbe(x, no, yes))
    BY <2>2, InitProbeIs
  <2> QED
    BY <1>3, <2>1, <2>3
<1> QED
  BY <1>1, <1>2, <1>3

LEMMA ScheduledNext ==
    ASSUME NEW x \in Records, x.state # Running
    PROVE  /\ Scheduled(x).host = x.host
           /\ Scheduled(x).state = IF x.state = Announce3 THEN Running ELSE x.state + 1
           /\ x.state < Probe3 => Scheduled(x).a = x.a
<1>0. /\ Announce3 = 6 /\ Announce1 = 4 /\ Probe3 = 3 /\ Running = 0
      /\ x.state \in 1 .. 6
  BY DEF Announce1, Announce3, Probe3, Running, Records
<1> DEFINE p == x.srv \/ x.a
           y == Scheduled(x)
<1>1. CASE x.state = 6
  <2>1. x.state = Announce3 /\ Announce3 # Probe3
    BY <1>0, <1>1
  <2>2. y = [x EXCEPT !.state = Running, !.srv = FALSE, !.a = FALSE]
    BY <2>1, Zenon DEF Scheduled
  <2> QED
    BY <1>0, <1>1, <2>2 DEF Records
<1>2. CASE x.state = 3
  <2>1. y = [x EXCEPT !.state = Announce1, !.a = p]
    BY <1>0, <1>2 DEF Scheduled
  <2> QED
    BY <1>0, <1>2, <2>1 DEF Records
<1>3. CASE x.state \notin {3, 6}
  <2>1. y = [x EXCEPT !.state = @ + 1]
    BY <1>0, <1>3 DEF Scheduled
  <2> QED
    BY <1>0, <1>3, <2>1 DEF Records
<1> QED
  BY <1>1, <1>2, <1>3

\* A device that begins again with its address has all three probes ahead.
LEMMA FreshAhead ==
    ASSUME NEW d, NEW e, Fresh(dev'[d])
    PROVE  AllAhead(d, e)'
<1> DEFINE x == dev'[d]
<1>1. x.state = Probe1 /\ x.a
  BY DEF Fresh
<1> HIDE DEF x
<1>2. \A s \in 1 .. 3 : Asks(x, s)
  BY <1>1 DEF Asks, Probing, Probe1, Probe3
<1> QED
  BY <1>2 DEF AllAhead, Chance, x

\* What is on its way between two devices that do not change stays there.
Like(v, w) ==
    /\ v.from = w.from /\ v.to = w.to /\ v.kind = w.kind
    /\ v.host = w.host /\ v.inst = w.inst /\ v.srv = w.srv /\ v.a = w.a /\ v.nth = w.nth
Between(d, e, w) == {w.from, w.to} = {d, e}

\* The chances of d and e are kept when the senders keep what is ahead of them
\* or put it on its way (number n), and what is on its way stays or is answered.
LEMMA ChancesSent ==
    ASSUME NEW d, NEW e, SameHost(d, e), dev'[d].host = dev[d].host, NEW n,
           \A s \in 1 .. 6 : Asks(dev[d], s) /\ s # n => Asks(dev'[d], s),
           \A s \in 1 .. 6 : Tells(dev[e], s) /\ s # n => Tells(dev'[e], s),
           \E v \in net' : Carries(d, e, v) /\ v.nth = n,
           \A w \in net : Carries(d, e, w) => \E v \in net' : Carries(d, e, v) /\ v.nth = w.nth
    PROVE  Kept(d, e)
<1>1. \A v : Carries(d, e, v)' <=> Carries(d, e, v)
  BY DEF Carries
<1> SUFFICES ASSUME NEW s \in 1 .. 6, Chance(d, e, s)
             PROVE  Chance(d, e, s)'
  BY DEF Kept
<1>2. CASE Asks(dev[d], s) \/ Tells(dev[e], s)
  BY <1>1, <1>2 DEF Chance
<1>3. ASSUME NEW w \in net, Carries(d, e, w), w.nth = s
      PROVE  Chance(d, e, s)'
  BY <1>1, <1>3 DEF Chance
<1> QED
  BY <1>2, <1>3 DEF Chance

LEMMA ChancesKept ==
    ASSUME NEW d, NEW e, SameHost(d, e), dev'[d].host = dev[d].host,
           \A s : Asks(dev[d], s) => Asks(dev'[d], s),
           \A s : Tells(dev[e], s) => Tells(dev'[e], s),
           \A w \in net : Carries(d, e, w) => \E v \in net' : Carries(d, e, v) /\ v.nth = w.nth
    PROVE  Kept(d, e)
<1>1. \A v : Carries(d, e, v)' <=> Carries(d, e, v)
  BY DEF Carries
<1> SUFFICES ASSUME NEW s \in 1 .. 6, Chance(d, e, s)
             PROVE  Chance(d, e, s)'
  BY DEF Kept
<1>2. CASE Asks(dev[d], s) \/ Tells(dev[e], s)
  BY <1>1, <1>2 DEF Chance
<1>3. ASSUME NEW w \in net, Carries(d, e, w), w.nth = s
      PROVE  Chance(d, e, s)'
  BY <1>1, <1>3 DEF Chance
<1> QED
  BY <1>2, <1>3 DEF Chance

\* Neither of them changes.
LEMMA OthersKept ==
    ASSUME NEW d, NEW e, SameHost(d, e)', dev'[d] = dev[d], dev'[e] = dev[e],
           \A w \in net : Between(d, e, w) => \E v \in net' : Like(v, w)
    PROVE  Kept(d, e)
<1>1. SameHost(d, e)
  BY DEF SameHost
<1>2. ASSUME NEW w \in net, Carries(d, e, w)
      PROVE  \E v \in net' : Carries(d, e, v) /\ v.nth = w.nth
  <2>1. Between(d, e, w)
    BY <1>2 DEF Carries, Between
  <2>2. PICK v \in net' : Like(v, w)
    BY <2>1
  <2>3. Carries(d, e, v) /\ v.nth = w.nth
    BY <1>2, <2>2, Zenon DEF Like, Carries
  <2> QED
    BY <2>3
<1> QED
  BY <1>1, <1>2, ChancesKept

-----------------------------------------------------------------------------
(* The steps.  A pair of devices that has one host name after a step had it  *)
(* before, and its chances are kept, or has all of some kind ahead.          *)

PairsKept ==
    \A d, e \in Devices : SameHost(d, e)' => Kept(d, e) \/ AllAhead(d, e)'

\* Only c changes, and what is on its way between two others stays there.
LEMMA OnePair ==
    ASSUME FreeInv, NEW c \in Devices, NEW r,
           dev' = [dev EXCEPT ![c] = r],
           \A w \in net : c \notin {w.from, w.to} => \E v \in net' : Like(v, w),
           \A e \in Devices : SameHost(c, e)' => Kept(c, e) \/ AllAhead(c, e)',
           \A d \in Devices : SameHost(d, c)' => Kept(d, c) \/ AllAhead(d, c)'
    PROVE  PairsKept
<1> SUFFICES ASSUME NEW d \in Devices, NEW e \in Devices, SameHost(d, e)'
             PROVE  Kept(d, e) \/ AllAhead(d, e)'
  BY DEF PairsKept
<1>1. CASE c \in {d, e}
  BY <1>1
<1>2. CASE c \notin {d, e}
  <2>1. dev'[d] = dev[d] /\ dev'[e] = dev[e]
    BY <1>2 DEF FreeInv, TypeOK
  <2>2. \A w \in net : Between(d, e, w) => \E v \in net' : Like(v, w)
    BY <1>2 DEF Between
  <2> QED
    BY <2>1, <2>2, OthersKept
<1> QED
  BY <1>1, <1>2

\* A device begins again: with a new name it has all its probes ahead, with its
\* old one it probes for what it probed for.  Its own packets stay on their way.
LEMMA AgainPairs ==
    ASSUME FreeInv, NEW c \in Devices, NEW r,
           dev' = [dev EXCEPT ![c] = r], r.state = Probe1,
           Fresh(r) \/ Renews(r, dev[c]),
           ~Fresh(r) => \A w \in net : \E v \in net' : Like(v, w),
           \A w \in net : c \notin {w.from, w.to} => \E v \in net' : Like(v, w)
    PROVE  PairsKept
<1>1. dev'[c] = r /\ \A b \in Devices : b # c => dev'[b] = dev[b]
  BY DEF FreeInv, TypeOK
<1>2. \A d \in Devices : ~SameHost(d, c)'
  BY <1>1 DEF SameHost, Probing, Probe1, Probe3
<1>3. ASSUME NEW e \in Devices, SameHost(c, e)'
      PROVE  Kept(c, e) \/ AllAhead(c, e)'
  <2>1. CASE Fresh(r)
    BY <1>1, <2>1, FreshAhead
  <2>2. CASE ~Fresh(r)
    <3>1. e # c /\ dev'[e] = dev[e] /\ dev'[c].host = dev[c].host
      BY <1>1, <1>2, <1>3, <2>2 DEF Renews
    <3>2. SameHost(c, e)
      BY <1>3, <3>1 DEF SameHost
    <3>3. \A s : Asks(dev[c], s) => Asks(dev'[c], s)
      <4>1. dev[c].state \in Nat
        BY DEF FreeInv, TypeOK, Records, Running, Announce3
      <4>2. Probing(dev[c]) /\ dev[c].a => Fresh(r)
        BY <2>2 DEF Renews, Fresh
      <4> QED
        BY <2>2, <4>2 DEF Asks
    <3>4. ASSUME NEW w \in net, Carries(c, e, w)
          PROVE  \E v \in net' : Carries(c, e, v) /\ v.nth = w.nth
      <4>1. PICK v \in net' : Like(v, w)
        BY <2>2
      <4>2. Carries(c, e, v) /\ v.nth = w.nth
        BY <3>4, <4>1, Zenon DEF Like, Carries
      <4> QED
        BY <4>2
    <3>5. \A s : Tells(dev[e], s) => Tells(dev'[e], s)
      BY <3>1
    <3> QED
      BY <3>1, <3>2, <3>3, <3>4, <3>5, ChancesKept
  <2> QED
    BY <2>1, <2>2
<1> QED
  BY <1>2, <1>3, OnePair

\* A device without a host name is in no pair.
LEMMA NamelessPairs ==
    ASSUME FreeInv, NEW c \in Devices, NEW r,
           dev' = [dev EXCEPT ![c] = r], r.host = NoHost,
           \A w \in net : c \notin {w.from, w.to} => w \in net'
    PROVE  PairsKept
<1>1. dev'[c] = r
  BY DEF FreeInv, TypeOK
<1>2. \A b \in Devices : ~SameHost(c, b)' /\ ~SameHost(b, c)'
  BY <1>1 DEF SameHost
<1>3. \A w : Like(w, w)
  BY DEF Like
<1> QED
  BY <1>2, <1>3, OnePair

LEMMA StartPairs ==
    ASSUME FreeInv, NEW c \in Devices, Start(c)
    PROVE  PairsKept
<1> DEFINE r == [dev[c] EXCEPT !.phase = "query"]
<1>1. dev[c] \in Records /\ dev[c].host = NoHost
  BY DEF FreeInv, TypeOK, Good, Start
<1>2. dev' = [dev EXCEPT ![c] = r] /\ r.host = NoHost
  BY <1>1 DEF Start, Records
<1>3. \A w \in net : w \in net'
  BY DEF Start
<1> HIDE DEF r
<1> QED
  BY <1>2, <1>3, NamelessPairs

LEMMA QueryEndsPairs ==
    ASSUME FreeInv, NEW c \in Devices, QueryEnds(c)
    PROVE  PairsKept
<1> DEFINE x == dev[c]
           y == SetHostname(x, x.counter)
           r == [y EXCEPT !.found = TRUE]
<1>1. x \in Records /\ last \in Nat
  BY NumbersAssumption DEF FreeInv, TypeOK
<1>2. dev' = [dev EXCEPT ![c] = r] /\ net' = net
  BY DEF QueryEnds
<1> HIDE DEF x
<1>3. y \in Records /\ Fresh(y)
  BY <1>1, SetHostnameType, SetHostnameIs
<1> HIDE DEF y
<1>4. Fresh(r)
  BY <1>3 DEF Fresh, Records
<1> HIDE DEF r
<1>5. \A w \in net : Like(w, w) /\ w \in net'
  BY <1>2 DEF Like
<1> QED
  BY <1>2, <1>4, <1>5, AgainPairs DEF Fresh

LEMMA AddServicePairs ==
    ASSUME FreeInv, NEW c \in Devices, AddService(c)
    PROVE  PairsKept
<1> DEFINE x == dev[c]
           y == [x EXCEPT !.phase = "done", !.service = TRUE]
           yes == TRUE
           no == FALSE
           r == InitProbe(y, yes, no)
<1>1. x \in Records
  BY DEF FreeInv, TypeOK
<1>2. y \in Records /\ y.host = x.host /\ y.a = x.a /\ (Probing(y) <=> Probing(x))
  BY <1>1 DEF Records, Probing
<1>3. dev' = [dev EXCEPT ![c] = r] /\ net' = net
  BY DEF AddService
<1>4. yes \in BOOLEAN /\ no \in BOOLEAN
  OBVIOUS
<1> HIDE DEF y, yes, no, x
<1>5. Renews(r, y)
  BY <1>2, <1>4, InitProbeIs
<1> HIDE DEF r
<1>6. Renews(r, x) /\ r.state = Probe1
  BY <1>2, <1>5 DEF Renews
<1>7. \A w \in net : Like(w, w) /\ w \in net'
  BY <1>3 DEF Like
<1> QED
  BY <1>3, <1>6, <1>7, AgainPairs DEF x

LEMMA PowerCyclePairs ==
    ASSUME FreeInv, NEW c \in Devices, PowerCycle(c)
    PROVE  PairsKept
<1>1. dev' = [dev EXCEPT ![c] = Off] /\ Off.host = NoHost
  BY DEF PowerCycle, Off
<1>2. \A w \in net : c \notin {w.from, w.to} => w \in net'
  BY DEF PowerCycle
<1> QED
  BY <1>1, <1>2, NamelessPairs

LEMMA AgedLike ==
    ASSUME net \subseteq Messages, NEW c
    PROVE  \A w \in net : \E v \in Aged(c) : Like(v, w)
<1> SUFFICES ASSUME NEW w \in net
             PROVE  \E v \in Aged(c) : Like(v, w)
  OBVIOUS
<1> DEFINE l == w.late \/ c \in {w.from, w.to}
           v == [w EXCEPT !.late = l]
<1>1. v \in Aged(c) /\ w \in Messages
  BY DEF Aged
<1> HIDE DEF l
<1>2. Like(v, w)
  BY <1>1 DEF Like, Messages
<1> QED
  BY <1>1, <1>2

LEMMA LikeCarries ==
    ASSUME NEW S, NEW T, \A w \in S : \E v \in T : Like(v, w)
    PROVE  \A d, e : \A w \in S :
              Carries(d, e, w) => \E v \in T : Carries(d, e, v) /\ v.nth = w.nth
<1> SUFFICES ASSUME NEW d, NEW e, NEW w \in S, Carries(d, e, w)
             PROVE  \E v \in T : Carries(d, e, v) /\ v.nth = w.nth
  OBVIOUS
<1>1. PICK v \in T : Like(v, w)
  OBVIOUS
<1>2. Carries(d, e, v) /\ v.nth = w.nth
  BY <1>1, Zenon DEF Like, Carries
<1> QED
  BY <1>2

LEMMA NamedUp ==
    ASSUME FreeInv
    PROVE  \A b \in Devices : dev[b].host # NoHost => b \in Up
BY DEF FreeInv, Good, Up

\* A probe of d, and an announcement or answer of e, is on its way to the other.
AskedBy(d, x, srv, n, to) == Copies(d, x, "probe", srv, TRUE, n, to)
ToldBy(d, x, srv, n, to) == Copies(d, x, "response", srv, TRUE, n, to)

LEMMA ProbeCarries ==
    ASSUME NEW d, NEW e, e # d, NEW to, e \in to, NEW x, x.host = dev[d].host, NEW srv, NEW n
    PROVE  \E v \in AskedBy(d, x, srv, n, to) : Carries(d, e, v) /\ v.nth = n
<1> DEFINE probe == "probe"
           yes == TRUE
<1>1. yes
  OBVIOUS
<1> HIDE DEF probe, yes
<1>2. \E v \in Copies(d, x, probe, srv, yes, n, to) :
         /\ v.from = d /\ v.to = e /\ v.kind = probe /\ v.host = x.host
         /\ v.inst = x.inst /\ v.srv = srv /\ v.a = yes /\ v.nth = n
  BY CopyIs
<1>3. \A v : /\ v.from = d /\ v.to = e /\ v.kind = probe /\ v.host = x.host
            /\ v.inst = x.inst /\ v.srv = srv /\ v.a = yes /\ v.nth = n
         => Carries(d, e, v) /\ v.nth = n
  BY <1>1, Zenon DEF Carries, probe
<1>4. \E v \in Copies(d, x, probe, srv, yes, n, to) : Carries(d, e, v) /\ v.nth = n
  BY <1>2, <1>3
<1> QED
  BY <1>4, Zenon DEF AskedBy, probe, yes

LEMMA ResponseCarries ==
    ASSUME NEW d, NEW e, d # e, NEW to, d \in to, NEW x, x.host = dev[d].host, NEW srv, NEW n
    PROVE  \E v \in ToldBy(e, x, srv, n, to) : Carries(d, e, v) /\ v.nth = n
<1> DEFINE response == "response"
           yes == TRUE
<1>1. yes /\ response # "query"
  OBVIOUS
<1> HIDE DEF response, yes
<1>2. \E v \in Copies(e, x, response, srv, yes, n, to) :
         /\ v.from = e /\ v.to = d /\ v.kind = response /\ v.host = x.host
         /\ v.inst = x.inst /\ v.srv = srv /\ v.a = yes /\ v.nth = n
  BY CopyIs
<1>3. \A v : /\ v.from = e /\ v.to = d /\ v.kind = response /\ v.host = x.host
            /\ v.inst = x.inst /\ v.srv = srv /\ v.a = yes /\ v.nth = n
         => Carries(d, e, v) /\ v.nth = n
  BY <1>1, Zenon DEF Carries
<1>4. \E v \in Copies(e, x, response, srv, yes, n, to) : Carries(d, e, v) /\ v.nth = n
  BY <1>2, <1>3
<1> QED
  BY <1>4, Zenon DEF ToldBy, response, yes

LEMMA SendPairs ==
    ASSUME FreeInv, NEW c \in Devices, Send(c)
    PROVE  PairsKept
<1> DEFINE x == dev[c]
           r == Scheduled(x)
           sent == Copies(c, x, IF Probing(x) THEN "probe" ELSE "response", x.srv, x.a, x.state, Up)
<1>0. Announce3 = 6 /\ Announce1 = 4 /\ Probe3 = 3 /\ Probe1 = 1 /\ Running = 0
  BY DEF Announce1, Announce3, Probe1, Probe3, Running
<1>1. /\ x \in Records /\ x.state \in 1 .. 6 /\ Good(x) /\ net \subseteq Messages
      /\ dev' = [dev EXCEPT ![c] = r] /\ net' = Aged(c) \cup sent
  BY <1>0 DEF FreeInv, TypeOK, Send, Records
<1>2. /\ r.host = x.host
      /\ r.state = IF x.state = 6 THEN 0 ELSE x.state + 1
      /\ x.state < 3 => r.a = x.a
  BY <1>0, <1>1, ScheduledNext
<1>3. /\ Probing(x) => sent = Copies(c, x, "probe", x.srv, x.a, x.state, Up)
      /\ ~Probing(x) => sent = Copies(c, x, "response", x.srv, x.a, x.state, Up)
  OBVIOUS
<1>4. \A w \in net : \E v \in net' : Like(v, w)
  BY <1>1, AgedLike
<1>5. dev'[c] = r /\ \A b \in Devices : b # c => dev'[b] = dev[b]
  BY <1>1 DEF FreeInv, TypeOK
<1>6. dev' = [dev EXCEPT ![c] = r]
  BY <1>1
<1>7. \A d, e : \A w \in net :
         Carries(d, e, w) => \E v \in net' : Carries(d, e, v) /\ v.nth = w.nth
  BY <1>4, LikeCarries
<1>8. sent \subseteq net'
  BY <1>1
<1> HIDE DEF r, sent
<1>9. ASSUME NEW e \in Devices, SameHost(c, e)'
      PROVE  Kept(c, e)
  <2>1. e # c /\ c # e /\ dev'[e] = dev[e] /\ SameHost(c, e)
    BY <1>2, <1>5, <1>9, DevicesAssumption DEF SameHost
  <2>2. CASE Probing(x) /\ x.a
    <3>1. c \in Up /\ e \in Up /\ dev[c].host = dev[e].host /\ x.a = TRUE
      BY <1>1, <2>1, <2>2, NamedUp DEF SameHost, Records
    <3>2. \E v \in net' : Carries(c, e, v) /\ v.nth = x.state
      <4>1. sent = AskedBy(c, x, x.srv, x.state, Up)
        BY <1>3, <2>2, <3>1, Zenon DEF AskedBy
      <4>2. \E v \in AskedBy(c, x, x.srv, x.state, Up) : Carries(c, e, v) /\ v.nth = x.state
        <5>1. x.host = dev[c].host
          BY <3>1
        <5> HIDE DEF x
        <5> QED
          BY <2>1, <3>1, <5>1, ProbeCarries
      <4> QED
        BY <1>8, <4>1, <4>2, Zenon
    <3>3. ASSUME NEW s \in 1 .. 6, Asks(x, s), s # x.state
          PROVE  Asks(r, s)
      <4>1. s \in x.state .. 3 /\ x.state < 3 /\ x.state \in 1 .. 3
        BY <1>0, <1>1, <2>2, <3>3 DEF Asks, Probing
      <4>2. r.state = x.state + 1 /\ r.a = TRUE
        BY <1>2, <3>1, <4>1
      <4> QED
        BY <1>0, <3>3, <4>1, <4>2 DEF Asks, Probing
    <3>4. \A s \in 1 .. 6 : Tells(dev[e], s) /\ s # x.state => Tells(dev'[e], s)
      BY <2>1
    <3> QED
      BY <1>2, <1>5, <1>7, <2>1, <3>2, <3>3, <3>4, ChancesSent
  <2>3. CASE ~(Probing(x) /\ x.a)
    <3>1. \A s : Asks(dev[c], s) => Asks(dev'[c], s)
      BY <2>3 DEF Asks
    <3>2. \A s : Tells(dev[e], s) => Tells(dev'[e], s)
      BY <2>1
    <3> QED
      BY <1>2, <1>5, <1>7, <2>1, <3>1, <3>2, ChancesKept
  <2> QED
    BY <2>2, <2>3
<1>10. ASSUME NEW d \in Devices, SameHost(d, c)'
       PROVE  Kept(d, c) \/ AllAhead(d, c)'
  <2>1. d # c /\ dev'[d] = dev[d]
    BY <1>5, <1>10, DevicesAssumption DEF SameHost
  <2>2. CASE Probing(x)
    <3>1. r.state = 4
      BY <1>0, <1>1, <1>2, <1>5, <1>10, <2>2 DEF SameHost, Probing
    <3>2. \A s \in 4 .. 6 : Tells(r, s)
      BY <1>0, <3>1 DEF Tells
    <3> QED
      BY <1>5, <3>2 DEF AllAhead, Chance
  <2>3. CASE ~Probing(x)
    <3>1. SameHost(d, c)
      BY <1>2, <1>5, <1>10, <2>1, <2>3 DEF SameHost
    <3>2. c \in Up /\ d \in Up /\ dev[d].host = dev[c].host
      BY <3>1, NamedUp DEF SameHost
    <3>3. x.state \in 4 .. 6 /\ x.a = TRUE
      BY <1>0, <1>1, <2>3 DEF Good, Probing, Records
    <3>4. \E v \in net' : Carries(d, c, v) /\ v.nth = x.state
      <4>1. sent = ToldBy(c, x, x.srv, x.state, Up)
        BY <1>3, <2>3, <3>3, Zenon DEF ToldBy
      <4>2. \E v \in ToldBy(c, x, x.srv, x.state, Up) : Carries(d, c, v) /\ v.nth = x.state
        <5>1. x.host = dev[d].host
          BY <3>2
        <5> HIDE DEF x
        <5> QED
          BY <2>1, <3>2, <5>1, ResponseCarries
      <4> QED
        BY <1>8, <4>1, <4>2, Zenon
    <3>5. \A s \in 1 .. 6 : Tells(x, s) /\ s # x.state => Tells(r, s)
      BY <1>0, <1>2, <3>3 DEF Tells
    <3>6. \A s \in 1 .. 6 : Asks(dev[d], s) /\ s # x.state => Asks(dev'[d], s)
      BY <2>1
    <3>7. Kept(d, c)
      BY <1>5, <1>7, <2>1, <3>1, <3>4, <3>5, <3>6, ChancesSent
    <3> QED
      BY <3>7
  <2> QED
    BY <2>2, <2>3
<1> QED
  BY <1>4, <1>6, <1>9, <1>10, OnePair

LEMMA InUsePairs ==
    ASSUME FreeInv, NEW m \in net, dev[m.to].host = NoHost, Receive(m)
    PROVE  PairsKept
<1> DEFINE c == m.to
           x == dev[c]
           n == x.counter
           answered == m.kind = "response" /\ m.a /\ m.host = Host(n, 1)
<1>1. c \in Devices /\ x \in Records /\ last \in Nat /\ x.host = NoHost
  BY NumbersAssumption DEF FreeInv, TypeOK, Messages
<1>2. InUse(c, m)
  BY DEF Receive
<1>3. \A w \in net : c \notin {w.from, w.to} => w \in net' /\ Like(w, w)
  <2>1. net \ {m} \subseteq net'
    BY <1>2 DEF InUse
  <2> QED
    BY <2>1 DEF Like
<1>4. CASE ~answered
  <2>1. dev' = dev
    BY <1>2, <1>4, Zenon DEF InUse
  <2>2. dev' = [dev EXCEPT ![c] = x]
    BY <1>1, <2>1 DEF FreeInv, TypeOK
  <2> QED
    BY <1>1, <1>3, <2>2, NamelessPairs
<1>5. CASE answered /\ NamesLeft(n)
  <2> DEFINE r == [x EXCEPT !.counter = n + 1]
  <2>1. dev' = [dev EXCEPT ![c].counter = n + 1]
    BY <1>2, <1>5, Zenon DEF InUse
  <2>2. dev' = [dev EXCEPT ![c] = r] /\ r.host = NoHost
    BY <1>1, <2>1 DEF Records
  <2> HIDE DEF r
  <2> QED
    BY <1>1, <1>3, <2>2, NamelessPairs
<1>6. CASE answered /\ ~NamesLeft(n)
  <2> DEFINE r == SetHostname(x, n)
  <2>1. dev' = [dev EXCEPT ![c] = r]
    BY <1>2, <1>6, Zenon DEF InUse
  <2>2. Fresh(r)
    BY <1>1, SetHostnameIs
  <2> HIDE DEF r
  <2> QED
    BY <1>1, <1>3, <2>1, <2>2, AgainPairs DEF Fresh
<1> QED
  BY <1>4, <1>5, <1>6

\* Hosts with the same name do not beat each other.
LEMMA SameDoesNotBeat ==
    ASSUME NEW h \in Hosts
    PROVE  ~SrvBeats(h, h)
<1>1. h.number \in Nat /\ h.form \in Nat
  BY DEF Hosts, NoHost, Host
<1>2. Length(h) \in Nat
  BY <1>1 DEF Length
<1> QED
  BY <1>1, <1>2 DEF SrvBeats

\* What a device hears: d either notices that e has its name, which makes it
\* begin again with its address, or hears nothing of e; and e, which does not
\* probe, answers the probe of d, and its answer is another chance.
LEMMA ResolvePairs ==
    ASSUME FreeInv, NEW m \in net, dev[m.to].host # NoHost, Receive(m)
    PROVE  PairsKept
<1> DEFINE c == m.to
           x == dev[c]
           y == AfterSrv(x, m)
           z == AfterA(c, y, m)
           r == IF m.kind # "query" THEN z ELSE x
           reply == Questions(x, m) /\ ~Probing(x)
                      /\ (m.kind # "query" => ~LosesSrv(x, m) /\ ~LosesA(c, y, m))
           to == IF m.nth = Probe1 THEN Up \cap {m.from} ELSE Up
<1>1. c \in Devices /\ x \in Records /\ m \in Messages /\ x.host # NoHost /\ net \subseteq Messages
  BY DEF FreeInv, TypeOK, Messages
<1>2. Resolve(c, m)
  BY DEF Receive
<1>3. /\ dev' = [dev EXCEPT ![c] = r] /\ dev'[c] = r
      /\ \A b \in Devices : b # c => dev'[b] = dev[b]
      /\ net' = (net \ {m}) \cup (IF reply THEN Answer(c, x, m) ELSE {})
  <2>1. dev' = [dev EXCEPT ![c] = r]
    BY <1>2 DEF Resolve
  <2>2. net' = (net \ {m}) \cup (IF reply THEN Answer(c, x, m) ELSE {})
    BY <1>2, Zenon DEF Resolve
  <2> HIDE DEF r, reply
  <2>3. dev'[c] = r /\ \A b \in Devices : b # c => dev'[b] = dev[b]
    BY <1>1, <2>1 DEF FreeInv, TypeOK
  <2> QED
    BY <2>1, <2>2, <2>3
<1>4. Answer(c, x, m) = ToldBy(c, x, SrvIsOurs(x, m), m.nth, to)
  BY Zenon DEF Answer, ToldBy
<1>5. /\ m.kind = "query" => r = x
      /\ m.kind # "query" => r = z
  OBVIOUS
<1>6. \A e : Carries(c, e, m) /\ c < e => m.kind # "query" /\ LosesA(c, y, m)
  <2>1. y.host = x.host
    BY <1>1, AfterSrvType
  <2>2. \A e : Carries(c, e, m) /\ c < e => m.from = e /\ m.kind # "query" /\ m.a /\ m.host = x.host
    BY <1>1, DevicesAssumption DEF Carries
  <2>3. m.from \in Nat /\ c \in Nat
    BY <1>1, DevicesAssumption DEF Messages
  <2> HIDE DEF y, c, x
  <2> QED
    BY <2>1, <2>2, <2>3 DEF LosesA, AIsOurs, ABeats
<1>7. ASSUME NEW d \in Devices, SameHost(d, c), Carries(d, c, m)
      PROVE  reply /\ d \in to /\ x.host = dev[d].host /\ d # c
  <2>1. /\ m.from = d /\ m.kind = "probe" /\ m.a /\ m.host = x.host /\ ~Probing(x)
        /\ x.host = dev[d].host /\ dev[d].host # NoHost /\ d < c /\ d \in Nat /\ c \in Nat
    <3>1. d \in Nat /\ c \in Nat /\ d < c
      BY <1>1, <1>7, DevicesAssumption DEF SameHost
    <3>2. m.to # d
      BY <3>1
    <3> QED
      BY <1>7, <3>1, <3>2 DEF Carries, SameHost
  <2>2. ~LosesSrv(x, m)
    BY <1>1, <2>1, SameDoesNotBeat DEF LosesSrv, Records
  <2>3. ~LosesA(c, y, m)
    BY <2>1 DEF LosesA, ABeats
  <2>4. Questions(x, m)
    BY <2>1 DEF Questions, AIsOurs
  <2>5. d \in to
    BY <2>1, NamedUp
  <2> QED
    BY <2>1, <2>2, <2>3, <2>4, <2>5
<1> HIDE DEF reply, to
<1>8. y \in Records /\ y.host = x.host /\ (y = x \/ Renews(y, x))
  BY <1>1, AfterSrvType, AfterSrvIs
<1> HIDE DEF y
<1>9. IF LosesA(c, y, m) THEN Fresh(z) ELSE z = y
  BY <1>1, <1>8, AfterAIs
<1> HIDE DEF z
<1> HIDE DEF r
<1>10. ASSUME NEW w \in net, w # m
       PROVE  w \in net' /\ Like(w, w)
  BY <1>3, <1>10 DEF Like
<1>11. ASSUME NEW d, NEW e, NEW w \in net, w # m, Carries(d, e, w)
       PROVE  \E v \in net' : Carries(d, e, v) /\ v.nth = w.nth
  BY <1>10, <1>11
<1>12. \A w \in net : c \notin {w.from, w.to} => \E v \in net' : Like(v, w)
  BY <1>10
<1>13. ASSUME NEW e \in Devices, SameHost(c, e)'
       PROVE  Kept(c, e) \/ AllAhead(c, e)'
  <2>1. CASE Fresh(r)
    BY <1>3, <2>1, FreshAhead
  <2>2. CASE ~Fresh(r)
    <3>1. r = x \/ Renews(r, x)
      BY <1>5, <1>8, <1>9, <2>2
    <3>2. c < e /\ e # c /\ dev'[e] = dev[e] /\ dev'[c].host = dev[c].host
      BY <1>1, <1>3, <1>13, <3>1, DevicesAssumption DEF Renews, SameHost
    <3>3. SameHost(c, e)
      BY <1>13, <3>2 DEF SameHost
    <3>4. ~Carries(c, e, m)
      BY <1>5, <1>6, <1>9, <2>2, <3>2
    <3>5. \A s : Asks(dev[c], s) => Asks(dev'[c], s)
      <4>1. CASE r = x
        BY <1>3, <4>1
      <4>2. CASE Renews(r, x)
        BY <2>2, <4>2 DEF Renews, Fresh, Asks
      <4> QED
        BY <3>1, <4>1, <4>2
    <3>6. \A s : Tells(dev[e], s) => Tells(dev'[e], s)
      BY <3>2
    <3>7. \A w \in net : Carries(c, e, w) => \E v \in net' : Carries(c, e, v) /\ v.nth = w.nth
      BY <1>11, <3>4
    <3> QED
      BY <3>2, <3>3, <3>5, <3>6, <3>7, ChancesKept
  <2> QED
    BY <2>1, <2>2
<1>14. ASSUME NEW d \in Devices, SameHost(d, c)'
       PROVE  Kept(d, c)
  <2>1. r = x
    <3>1. r.state # Probe1
      BY <1>3, <1>14 DEF SameHost, Probing, Probe1, Probe3
    <3> QED
      BY <1>5, <1>8, <1>9, <3>1 DEF Renews, Fresh
  <2>2. d # c /\ dev'[d] = dev[d] /\ dev'[c] = dev[c]
    BY <1>1, <1>3, <1>14, <2>1, DevicesAssumption DEF SameHost
  <2>3. SameHost(d, c)
    BY <1>14, <2>2 DEF SameHost
  <2>4. ASSUME Carries(d, c, m)
        PROVE  \E v \in net' : Carries(d, c, v) /\ v.nth = m.nth
    <3>1. reply /\ d \in to /\ x.host = dev[d].host /\ d # c
      BY <1>7, <2>3, <2>4
    <3>2. net' = (net \ {m}) \cup ToldBy(c, x, SrvIsOurs(x, m), m.nth, to)
      BY <1>3, <1>4, <3>1
    <3> DEFINE srv == SrvIsOurs(x, m)
               n == m.nth
    <3> HIDE DEF c, x, srv, n
    <3>3. \E v \in ToldBy(c, x, srv, n, to) : Carries(d, c, v) /\ v.nth = n
      BY <3>1, ResponseCarries
    <3> QED
      BY <3>2, <3>3, Zenon DEF srv, n
  <2>5. \A s : Asks(dev[d], s) => Asks(dev'[d], s)
    BY <2>2
  <2>6. \A s : Tells(dev[c], s) => Tells(dev'[c], s)
    BY <2>2
  <2>7. \A w \in net : Carries(d, c, w) => \E v \in net' : Carries(d, c, v) /\ v.nth = w.nth
    BY <1>11, <2>4
  <2> QED
    BY <2>2, <2>3, <2>5, <2>6, <2>7, ChancesKept
<1> QED
  BY <1>1, <1>3, <1>12, <1>13, <1>14, OnePair

\* What an answer that is dropped told is not counted: its number is none.
LEMMA DroppedPairs ==
    ASSUME NEW m \in net, AnswerDropped(m)
    PROVE  PairsKept
<1>1. dev' = dev /\ net' = net \ {m} /\ m.nth = Running
  BY DEF AnswerDropped
<1>2. ASSUME NEW d \in Devices, NEW e \in Devices, NEW s \in 1 .. 6, Chance(d, e, s)
      PROVE  Chance(d, e, s)'
  <2>1. \A w : Carries(d, e, w)' <=> Carries(d, e, w)
    BY <1>1 DEF Carries
  <2>2. s # m.nth
    BY <1>1 DEF Running
  <2> QED
    BY <1>1, <1>2, <2>1, <2>2 DEF Chance
<1> QED
  BY <1>1, <1>2 DEF PairsKept, Kept, SameHost

LEMMA NextPairs ==
    ASSUME FreeInv, Next, \A m \in net : ~Lose(m)
    PROVE  PairsKept
<1>1. ASSUME NEW c \in Devices, Start(c) \/ Device(c) \/ PowerCycle(c)
      PROVE  PairsKept
  BY <1>1, StartPairs, QueryEndsPairs, AddServicePairs, SendPairs, PowerCyclePairs DEF Device
<1>2. ASSUME NEW m \in net, Receive(m)
      PROVE  PairsKept
  BY <1>2, InUsePairs, ResolvePairs
<1> QED
  BY <1>1, <1>2, DroppedPairs DEF Next

\* A packet that is lost was at most one chance.
LEMMA LoseCounts ==
    ASSUME HostInv, NEW m \in net, Lose(m)
    PROVE  ThreeChances'
<1> SUFFICES ASSUME NEW d \in Devices, NEW e \in Devices, SameHost(d, e)'
             PROVE  lost' + Cardinality(Chances(d, e)') >= 3
  BY DEF ThreeChances
<1>1. dev' = dev /\ net' = net \ {m} /\ lost' = lost + 1
  BY DEF Lose
<1>2. SameHost(d, e)
  BY <1>1 DEF SameHost
<1>3. ASSUME NEW s \in 1 .. 6, Chance(d, e, s), s # m.nth
      PROVE  Chance(d, e, s)'
  <2>1. \A w : Carries(d, e, w)' <=> Carries(d, e, w)
    BY <1>1 DEF Carries
  <2> QED
    BY <1>1, <1>3, <2>1 DEF Chance
<1> QED
  BY <1>1, <1>2, <1>3, ChancesCount

LEMMA HostInvStep ==
    ASSUME HostInv, [Next]_vars
    PROVE  HostInv'
<1>1. FreeInv'
  BY FreeInvStep DEF HostInv
<1>2. ASSUME lost' = lost, PairsKept
      PROVE  ThreeChances'
  <2> SUFFICES ASSUME NEW d \in Devices, NEW e \in Devices, SameHost(d, e)'
               PROVE  lost' + Cardinality(Chances(d, e)') >= 3
    BY DEF ThreeChances
  <2>1. lost' \in Nat
    BY <1>1 DEF FreeInv, TypeOK
  <2>2. Kept(d, e) \/ AllAhead(d, e)'
    BY <1>2 DEF PairsKept
  <2> QED
    BY <1>2, <2>1, <2>2, ChancesCount
<1>3. CASE UNCHANGED vars
  <2>1. \A w : Like(w, w)
    BY DEF Like
  <2>2. PairsKept
    BY <1>3, <2>1, OthersKept DEF vars, PairsKept
  <2> QED
    BY <1>1, <1>2, <1>3, <2>2 DEF vars, HostInv
<1>4. CASE Next
  <2>1. CASE \A m \in net : ~Lose(m)
    <3>1. lost' = lost
      BY <1>4, <2>1 DEF Next, Start, Device, QueryEnds, AddService, Send, PowerCycle, Receive,
                                AnswerDropped, bounds
    <3>2. PairsKept
      BY <1>4, <2>1, NextPairs DEF HostInv
    <3> QED
      BY <1>1, <1>2, <3>1, <3>2 DEF HostInv
  <2>2. CASE \E m \in net : Lose(m)
    BY <1>1, <2>2, LoseCounts DEF HostInv
  <2> QED
    BY <2>1, <2>2
<1> QED
  BY <1>3, <1>4

LEMMA RestUnique ==
    ASSUME HostInv
    PROVE  HostsUnique
<1>1. ASSUME AtRest, lost <= 2, NEW d \in Up, NEW e \in Up, d < e
      PROVE  dev[d].host # dev[e].host
  <2>1. d \in Devices /\ e \in Devices
    BY DEF Up
  <2>2. dev[d].state = 0 /\ dev[e].state = 0 /\ dev[d].phase = "done" /\ net = {}
    BY <1>1 DEF AtRest, Running
  <2>3. dev[d].host # NoHost
    BY <2>1, <2>2 DEF HostInv, FreeInv, Good
  <2>4. Chances(d, e) = {}
    BY <2>2 DEF Chances, Chance, Asks, Tells, Probing, Probe1, Probe3, Announce1, Announce3
  <2>5. Cardinality(Chances(d, e)) = 0
    BY <2>4, FS_EmptySet
  <2>6. ~(lost + Cardinality(Chances(d, e)) >= 3)
    BY <1>1, <2>5 DEF HostInv, FreeInv, TypeOK
  <2>7. ~Probing(dev[e])
    BY <2>2 DEF Probing, Probe1, Probe3
  <2> QED
    BY <1>1, <2>1, <2>3, <2>6, <2>7 DEF HostInv, ThreeChances, SameHost
<1>2. \A d, e \in Up : d # e => d < e \/ e < d
  <2>1. Up \subseteq Nat
    BY DevicesAssumption DEF Up
  <2> QED
    BY <2>1
<1>3. ASSUME AtRest, lost <= 2, NEW d \in Up, NEW e \in Up, d # e
      PROVE  dev[d].host # dev[e].host
  BY <1>1, <1>2, <1>3
<1> QED
  BY <1>3 DEF HostsUnique

\* However many devices start together, lose power and run out of names
\* (mdns_probe_task), two that have come to rest never share a host name unless
\* three packets were lost: check_a_collision renames the lower address.
THEOREM HostsUniqueTheorem == Spec => []HostsUnique
<1>1. Init => HostInv
  <2> SUFFICES ASSUME Init
               PROVE  ThreeChances
    BY InitFree DEF HostInv
  <2>1. \A d \in Devices : dev[d].host = NoHost
    BY DEF Init, Off
  <2> QED
    BY <2>1 DEF ThreeChances, SameHost
<1>2. HostInv /\ [Next]_vars => HostInv'
  BY HostInvStep
<1>3. HostInv => HostsUnique
  BY RestUnique
<1> QED
  BY <1>1, <1>2, <1>3, PTL DEF Spec

-----------------------------------------------------------------------------
(* Why two devices have different instance names at rest: what a step does   *)
(* to the service of a device.                                               *)

Served(x) ==
    /\ x.service <=> x.phase = "done"
    /\ IF x.host = NoHost THEN x.state = Running ELSE x.host.number = x.counter
\* y is x but for what it probes for.
SameNames(y, x) ==
    /\ y.phase = x.phase /\ y.counter = x.counter /\ y.service = x.service
    /\ y.host = x.host /\ y.inst = x.inst
ProbesSrv(y, x, srv) ==
    SameNames(y, x) /\ y.state = Probe1 /\ y.srv = ((Probing(x) /\ x.srv) \/ srv)
\* y probes again, for its service if it has one.
SrvFresh(y) == y.state = Probe1 /\ (y.service => y.srv)
\* y is x but for what it probes for and perhaps the form of its host name.
SameLife(y, x) ==
    /\ y.phase = x.phase /\ y.counter = x.counter /\ y.service = x.service
    /\ y.host # NoHost /\ y.host.number = x.host.number

LEMMA InitProbeHas ==
    ASSUME NEW x \in Records, NEW srv \in BOOLEAN, NEW a \in BOOLEAN
    PROVE  ProbesSrv(InitProbe(x, srv, a), x, srv)
<1> DEFINE p == (Probing(x) /\ x.srv) \/ srv
           q == (Probing(x) /\ x.a) \/ a
           z == [x EXCEPT !.state = Probe1, !.srv = p, !.a = q]
<1>1. InitProbe(x, srv, a) = z
  BY DEF InitProbe
<1> HIDE DEF p, q
<1>2. SameNames(z, x) /\ z.state = Probe1 /\ z.srv = p
  BY DEF Records, SameNames
<1> HIDE DEF z
<1> QED
  BY <1>1, <1>2 DEF p, ProbesSrv

LEMMA RestartHas ==
    ASSUME NEW x \in Records
    PROVE  /\ SameNames(RestartAll(x), x) /\ RestartAll(x).state = Probe1
           /\ RestartAll(x).srv = x.service
           /\ SameNames(RestartNoInstance(x), x) /\ RestartNoInstance(x).state = Probe1
           /\ RestartNoInstance(x).srv
<1> DEFINE z == [x EXCEPT !.srv = FALSE]
           yes == TRUE
           no == FALSE
<1>1. z \in Records /\ x.service \in BOOLEAN /\ z.srv = FALSE /\ SameNames(z, x)
  BY DEF Records, SameNames
<1> HIDE DEF z
<1>2. RestartAll(x) = InitProbe(z, x.service, yes) /\ RestartNoInstance(x) = InitProbe(z, yes, no)
  BY DEF RestartAll, RestartNoInstance, z
<1>3. yes \in BOOLEAN /\ no \in BOOLEAN /\ yes
  OBVIOUS
<1> HIDE DEF yes, no
<1> DEFINE u == InitProbe(z, x.service, yes)
           w == InitProbe(z, yes, no)
<1>4. ProbesSrv(u, z, x.service)
  BY <1>1, <1>3, InitProbeHas
<1>5. ProbesSrv(w, z, yes)
  BY <1>1, <1>3, InitProbeHas
<1> HIDE DEF u, w
<1>6. u.srv = x.service /\ w.srv
  BY <1>1, <1>3, <1>4, <1>5 DEF ProbesSrv
<1>7. SameNames(u, x) /\ SameNames(w, x) /\ u.state = Probe1 /\ w.state = Probe1
  BY <1>1, <1>4, <1>5 DEF ProbesSrv, SameNames
<1> QED
  BY <1>2, <1>6, <1>7 DEF u, w

LEMMA SetHostnameHas ==
    ASSUME NEW x \in Records, last \in Nat
    PROVE  LET y == SetHostname(x, x.counter)
           IN  /\ y.phase = "named" /\ y.counter = x.counter /\ y.service = x.service
               /\ y.host = Host(x.counter, 1) /\ y.state = Probe1 /\ y.srv = x.service
<1> DEFINE z == [x EXCEPT !.phase = "named", !.host = Host(x.counter, 1)]
<1>1. x.counter \in Nat \ {0}
  BY DEF Records
<1>2. Host(x.counter, 1) \in Hosts
  BY <1>1, HostType
<1>3. /\ z \in Records /\ z.phase = "named" /\ z.counter = x.counter /\ z.service = x.service
      /\ z.host = Host(x.counter, 1)
  BY <1>2 DEF Records
<1>4. SetHostname(x, x.counter) = RestartAll(z)
  BY DEF SetHostname
<1> HIDE DEF z
<1> QED
  BY <1>3, <1>4, RestartHas DEF SameNames

LEMMA ScheduledHas ==
    ASSUME NEW x \in Records, x.state # Running
    PROVE  LET y == Scheduled(x)
           IN  /\ y.phase = x.phase /\ y.counter = x.counter /\ y.service = x.service
               /\ y.host = x.host /\ y.inst = x.inst
               /\ y.state = IF x.state = 6 THEN 0 ELSE x.state + 1
               /\ y.state # 0 => y.srv = x.srv
<1>0. /\ Announce3 = 6 /\ Announce1 = 4 /\ Probe3 = 3 /\ Running = 0
      /\ x.state \in 1 .. 6
  BY DEF Announce1, Announce3, Probe3, Running, Records
<1> DEFINE p == x.srv \/ x.a
           y == Scheduled(x)
<1>1. CASE x.state = 6
  <2>1. x.state = Announce3 /\ Announce3 # Probe3
    BY <1>0, <1>1
  <2>2. y = [x EXCEPT !.state = Running, !.srv = FALSE, !.a = FALSE]
    BY <2>1, Zenon DEF Scheduled
  <2> QED
    BY <1>0, <1>1, <2>2 DEF Records
<1>2. CASE x.state = 3
  <2>1. y = [x EXCEPT !.state = Announce1, !.a = p]
    BY <1>0, <1>2 DEF Scheduled
  <2> QED
    BY <1>0, <1>2, <2>1 DEF Records
<1>3. CASE x.state \notin {3, 6}
  <2>1. y = [x EXCEPT !.state = @ + 1]
    BY <1>0, <1>3 DEF Scheduled
  <2> QED
    BY <1>0, <1>3, <2>1 DEF Records
<1> QED
  BY <1>1, <1>2, <1>3

LEMMA AfterSrvHas ==
    ASSUME NEW x \in Records, x.host # NoHost, NEW m \in Messages, LosesSrv(x, m)
    PROVE  LET y == AfterSrv(x, m)
           IN  SameLife(y, x) /\ y.host = x.host /\ y.state = Probe1 /\ y.srv
                 /\ y.inst = IF Probing(x) THEN x.inst + 1 ELSE x.inst
<1>2. CASE Probing(x)
  <2> DEFINE z == [x EXCEPT !.inst = @ + 1]
  <2>1. /\ z \in Records /\ z.phase = x.phase /\ z.counter = x.counter /\ z.service = x.service
        /\ z.host = x.host /\ z.inst = x.inst + 1
    BY DEF Records
  <2>2. AfterSrv(x, m) = RestartNoInstance(z)
    BY <1>2 DEF AfterSrv
  <2> HIDE DEF z
  <2> QED
    BY <1>2, <2>1, <2>2, RestartHas DEF SameLife, SameNames
<1>3. CASE ~Probing(x)
  <2> DEFINE yes == TRUE
             no == FALSE
  <2>1. AfterSrv(x, m) = InitProbe(x, yes, no)
    BY <1>3 DEF AfterSrv
  <2>2. yes \in BOOLEAN /\ no \in BOOLEAN /\ yes
    OBVIOUS
  <2> HIDE DEF yes, no
  <2>3. ProbesSrv(AfterSrv(x, m), x, yes)
    BY <2>1, <2>2, InitProbeHas
  <2> QED
    BY <1>3, <2>2, <2>3 DEF ProbesSrv, SameLife, SameNames
<1> QED
  BY <1>2, <1>3

LEMMA AfterAHas ==
    ASSUME NEW d \in Devices, NEW x \in Records, x.host # NoHost, NEW m \in Messages, LosesA(d, x, m)
    PROVE  LET y == AfterA(d, x, m)
           IN  /\ SameLife(y, x) /\ y.state = Probe1
               /\ IF Probing(x) THEN y.srv = x.service
                  ELSE ~y.srv /\ y.host = x.host /\ y.inst = x.inst
<1>2. CASE Probing(x)
  <2> DEFINE z == [x EXCEPT !.host = Mangled(@)]
  <2>1. x.host \in Hosts
    BY DEF Records
  <2>2. Mangled(x.host) \in Hosts /\ Mangled(x.host) # NoHost
    BY <2>1, MangledType
  <2>3. Mangled(x.host).number = x.host.number
    BY <2>1 DEF Mangled, Hosts, NoHost, Host
  <2>4. /\ z \in Records /\ z.phase = x.phase /\ z.counter = x.counter /\ z.service = x.service
        /\ z.host = Mangled(x.host)
    BY <2>2 DEF Records
  <2>5. AfterA(d, x, m) = RestartAll(z)
    BY <1>2 DEF AfterA
  <2> HIDE DEF z
  <2> QED
    BY <1>2, <2>2, <2>3, <2>4, <2>5, RestartHas DEF SameLife, SameNames
<1>3. CASE ~Probing(x)
  <2> DEFINE yes == TRUE
             no == FALSE
  <2>1. AfterA(d, x, m) = InitProbe(x, no, yes)
    BY <1>3 DEF AfterA
  <2>2. yes \in BOOLEAN /\ no \in BOOLEAN /\ ~no
    OBVIOUS
  <2> HIDE DEF yes, no
  <2>3. ProbesSrv(AfterA(d, x, m), x, no)
    BY <2>1, <2>2, InitProbeHas
  <2> QED
    BY <1>3, <2>2, <2>3 DEF ProbesSrv, SameLife, SameNames
<1> QED
  BY <1>2, <1>3

\* A device c, with record x, that hears m gives way: it begins again with its
\* service, or, when it hears its host name at rest, with its address alone.
YieldsTo(c, x, r, m) ==
    /\ ~LosesSrv(x, m) /\ LosesA(c, x, m) /\ ~Probing(x)
    /\ r.state = Probe1 /\ ~r.srv /\ r.host = x.host /\ r.inst = x.inst

LEMMA HeardIs ==
    ASSUME NEW c \in Devices, NEW x \in Records, x.host # NoHost, NEW m \in Messages
    PROVE  LET z == AfterA(c, AfterSrv(x, m), m)
           IN  \/ z = x /\ ~LosesSrv(x, m) /\ ~LosesA(c, AfterSrv(x, m), m)
               \/ SameLife(z, x) /\ SrvFresh(z)
               \/ SameLife(z, x) /\ YieldsTo(c, x, z, m)
<1> DEFINE y == AfterSrv(x, m)
           z == AfterA(c, y, m)
<1>1. CASE LosesSrv(x, m)
  <2>1. y \in Records
    BY AfterSrvType
  <2>2. SameLife(y, x) /\ y.host = x.host /\ y.state = Probe1 /\ y.srv
    BY <1>1, AfterSrvHas
  <2>3. Probing(y) /\ y.host # NoHost
    BY <2>2 DEF Probing, Probe1, Probe3
  <2> HIDE DEF y
  <2>4. CASE LosesA(c, y, m)
    <3>1. SameLife(z, y) /\ z.state = Probe1 /\ z.srv = y.service
      BY <2>1, <2>3, <2>4, AfterAHas
    <3> HIDE DEF z
    <3>2. SameLife(z, x) /\ SrvFresh(z)
      BY <2>2, <3>1 DEF SameLife, SrvFresh
    <3> QED
      BY <3>2 DEF z, y
  <2>5. CASE ~LosesA(c, y, m)
    <3>1. z = y
      BY <2>5 DEF AfterA
    <3>2. SameLife(y, x) /\ SrvFresh(y)
      BY <2>2 DEF SrvFresh
    <3> QED
      BY <3>1, <3>2 DEF z, y
  <2> QED
    BY <2>4, <2>5
<1>2. CASE ~LosesSrv(x, m)
  <2>1. y = x
    BY <1>2 DEF AfterSrv
  <2>2. CASE LosesA(c, x, m)
    <3>1. SameLife(z, x) /\ z.state = Probe1
      BY <2>1, <2>2, AfterAHas
    <3>2. IF Probing(x) THEN z.srv = x.service ELSE ~z.srv /\ z.host = x.host /\ z.inst = x.inst
      BY <2>1, <2>2, AfterAHas
    <3> HIDE DEF z
    <3>3. (SameLife(z, x) /\ SrvFresh(z)) \/ (SameLife(z, x) /\ YieldsTo(c, x, z, m))
      BY <1>2, <2>2, <3>1, <3>2 DEF SameLife, SrvFresh, YieldsTo
    <3> QED
      BY <3>3 DEF z, y
  <2>3. CASE ~LosesA(c, x, m)
    BY <1>2, <2>1, <2>3 DEF AfterA
  <2> QED
    BY <2>2, <2>3
<1> QED
  BY <1>1, <1>2

-----------------------------------------------------------------------------
(* Two devices alone: which names they can have.  A device passes over       *)
(* faroldns1 only when the other one answers for it, and so not both do.     *)

Pair(c, o) == Devices = {c, o} /\ c # o

AllServed == \A d \in Devices : Served(dev[d])
\* What a device has told the others is of its present host name, but for the
\* form of that, or of the one it had before it lost power.
Told == {m \in net : m.kind # "query"}
ToldNumber ==
    \A m \in Told :
        /\ m.host # NoHost
        /\ \/ dev[m.from].phase = "off"
           \/ dev[m.from].host # NoHost /\ m.host.number = dev[m.from].host.number
ToldOne ==
    /\ \A m, n \in Told : m.from = n.from => m.host.number = n.host.number
    /\ \A m \in Told : (\A e \in Devices : e <= m.from) => m.host.form = 1
NotBothPass ==
    \A c, o \in Devices :
        Pair(c, o) /\ dev[c].counter >= 2 =>
            dev[o].counter = 1 /\ \A m \in Told : m.from = o => m.host.number = 1

\* Who probes for its address alone has the lower address and the first name:
\* its host name beats no other one in check_srv_collision.
AddressOnly(x) == x.service /\ x.state # Running /\ ~x.srv
Yields ==
    \A c, o \in Devices :
        Pair(c, o) /\ AddressOnly(dev[c]) => c < o /\ dev[c].host = Host(1, 1)

NamesInv == AllServed /\ ToldNumber /\ ToldOne /\ NotBothPass /\ Yields

\* What every step of a device c does that leaves it with the record r.
SaidBy(c, r, v) == v.from = c /\ (v.kind = "query" \/ (v.host = r.host /\ r.host # NoHost))
Passes(c, r) ==
    /\ r.host = NoHost /\ dev[c].host = NoHost /\ r.counter = dev[c].counter + 1
    /\ \E m \in net : m.to = c /\ m.kind = "response" /\ m.host = Host(dev[c].counter, 1)
Gives(c, r) ==
    /\ r.host = dev[c].host
    /\ \/ AddressOnly(dev[c])
       \/ \E m \in Told : m.to = c /\ m.from > c /\ m.host = dev[c].host
DeviceStep(c, r) ==
    /\ Served(r) /\ dev' = [dev EXCEPT ![c] = r]
    /\ \A v \in net' : (\E w \in net : Like(v, w)) \/ SaidBy(c, r, v)
    /\ dev[c].phase = "off" /\ r.phase # "off" => \A w \in net : w.from # c
    /\ \/ r.phase = "off"
       \/ r.counter = dev[c].counter /\ (dev[c].host # NoHost => r.host # NoHost)
       \/ Passes(c, r)
    /\ AddressOnly(r) => Gives(c, r)

LEMMA ToldLike ==
    ASSUME NEW c, NEW r, DeviceStep(c, r), NEW v \in Told'
    PROVE  \/ \E w \in Told : Like(v, w)
           \/ v.from = c /\ v.host = r.host /\ r.host # NoHost
<1>1. v \in net' /\ v.kind # "query"
  BY DEF Told
<1>2. CASE \E w \in net : Like(v, w)
  BY <1>1, <1>2 DEF Told, Like
<1>3. CASE SaidBy(c, r, v)
  BY <1>1, <1>3 DEF SaidBy
<1> QED
  BY <1>1, <1>2, <1>3 DEF DeviceStep

LEMMA NumbersStep ==
    ASSUME FreeInv, FreeInv', HighestKeepsName', AllServed, ToldNumber, ToldOne,
           NEW c \in Devices, NEW r, DeviceStep(c, r)
    PROVE  AllServed' /\ ToldNumber' /\ ToldOne'
<1>1. /\ dev'[c] = r /\ \A b \in Devices : b # c => dev'[b] = dev[b]
      /\ dev[c] \in Records /\ r.host \in Hosts /\ Served(r) /\ Served(dev[c])
      /\ Good(r) /\ Good(dev[c])
  <2>1. dev'[c] = r /\ \A b \in Devices : b # c => dev'[b] = dev[b]
    BY DEF DeviceStep, FreeInv, TypeOK
  <2>2. dev'[c].host \in Hosts
    BY DEF FreeInv, TypeOK, Records
  <2> QED
    BY <2>1, <2>2 DEF DeviceStep, FreeInv, TypeOK, AllServed
<1>2. AllServed'
  BY <1>1 DEF AllServed
<1>3. \A v \in Told' : v.from \in Devices
  BY DEF Told, FreeInv, TypeOK, Messages
<1>4. ASSUME NEW v \in Told'
      PROVE  /\ v.host # NoHost
             /\ \/ dev'[v.from].phase = "off"
                \/ dev'[v.from].host # NoHost /\ v.host.number = dev'[v.from].host.number
  <2>1. ASSUME NEW w \in Told, Like(v, w), v.from # c
        PROVE  /\ v.host # NoHost
               /\ \/ dev'[v.from].phase = "off"
                  \/ dev'[v.from].host # NoHost /\ v.host.number = dev'[v.from].host.number
    BY <1>1, <1>3, <2>1 DEF ToldNumber, Like
  <2>2. ASSUME NEW w \in Told, Like(v, w), v.from = c
        PROVE  v.host # NoHost /\ (r.phase = "off" \/ (r.host # NoHost /\ v.host.number = r.host.number))
    <3>1. /\ v.host = w.host /\ w.from = c /\ w \in net /\ w.host # NoHost
          /\ dev[c].phase = "off" \/ (dev[c].host # NoHost /\ w.host.number = dev[c].host.number)
      BY <2>2 DEF ToldNumber, Like, Told
    <3>2. CASE dev[c].phase = "off"
      BY <3>1, <3>2 DEF DeviceStep
    <3>3. CASE dev[c].host # NoHost /\ w.host.number = dev[c].host.number /\ r.phase # "off"
      <4>1. r.counter = dev[c].counter /\ r.host # NoHost
        BY <3>3 DEF DeviceStep, Passes
      <4> QED
        BY <1>1, <3>1, <3>3, <4>1 DEF Served
    <3> QED
      BY <3>1, <3>2, <3>3
  <2>3. CASE v.from = c /\ v.host = r.host /\ r.host # NoHost
    BY <1>1, <2>3
  <2> QED
    BY <1>1, <2>1, <2>2, <2>3, ToldLike
<1>5. ToldNumber'
  BY <1>4 DEF ToldNumber
<1>6. ASSUME NEW v \in Told', NEW u \in Told', v.from = u.from
      PROVE  v.host.number = u.host.number
  <2>1. CASE dev'[v.from].phase # "off"
    BY <1>4, <1>6, <2>1
  <2>2. CASE dev'[v.from].phase = "off"
    <3>1. ~(v.from = c /\ r.host # NoHost)
      BY <1>1, <2>2 DEF Good
    <3>2. PICK w \in Told : Like(v, w)
      BY <3>1, ToldLike
    <3>3. PICK z \in Told : Like(u, z)
      BY <1>6, <3>1, ToldLike
    <3>4. w.from = z.from
      BY <1>6, <3>2, <3>3 DEF Like
    <3>5. w.host.number = z.host.number
      BY <3>4 DEF ToldOne
    <3> QED
      BY <3>2, <3>3, <3>5 DEF Like
  <2> QED
    BY <2>1, <2>2
<1>7. ASSUME NEW v \in Told', \A e \in Devices : e <= v.from
      PROVE  v.host.form = 1
  <2>1. ASSUME NEW w \in Told, Like(v, w)
        PROVE  v.host.form = 1
    BY <1>7, <2>1 DEF Like, ToldOne
  <2>2. CASE v.from = c /\ v.host = r.host /\ r.host # NoHost
    <3>1. r.host \in Hosts
      BY <1>1
    <3>2. r.host.form <= 1
      BY <1>1, <1>7, <2>2 DEF HighestKeepsName
    <3> QED
      BY <2>2, <3>1, <3>2 DEF Hosts
  <2> QED
    BY <2>1, <2>2, ToldLike
<1> QED
  BY <1>2, <1>5, <1>6, <1>7 DEF ToldOne

\* What was told to a device that has no name, was told by the other one.
LEMMA ToldByOther ==
    ASSUME FreeInv, NamesInv, NEW c \in Devices, NEW o \in Devices, Pair(c, o),
           NEW m \in net, m.to = c, m.kind = "response", dev[c].host = NoHost,
           m.host = Host(dev[c].counter, 1)
    PROVE  /\ m \in Told /\ m.from = o
           /\ dev[o].counter = dev[c].counter \/ (dev[o].phase = "off" /\ dev[o].counter = 1)
<1>1. m \in Told /\ m.from \in Devices
  BY DEF Told, FreeInv, TypeOK, Messages
<1>2. dev[m.from].phase = "off" \/ (dev[m.from].host # NoHost /\ m.host.number = dev[m.from].host.number)
  BY <1>1 DEF NamesInv, ToldNumber
<1>3. dev[c].phase # "off"
  BY DEF FreeInv, Reached, Up
<1>4. m.from = o
  BY <1>1, <1>2, <1>3 DEF Pair
<1>5. m.host.number = dev[c].counter
  BY DEF Host
<1>6. dev[o].phase = "off" => dev[o].counter = 1
  BY DEF FreeInv, Good
<1>7. dev[o].host # NoHost => dev[o].host.number = dev[o].counter
  BY DEF NamesInv, AllServed, Served
<1> QED
  BY <1>1, <1>2, <1>4, <1>5, <1>6, <1>7

LEMMA NotBothStep ==
    ASSUME FreeInv, FreeInv', NamesInv, NEW c \in Devices, NEW r, DeviceStep(c, r)
    PROVE  NotBothPass'
<1>1. /\ dev'[c] = r /\ \A b \in Devices : b # c => dev'[b] = dev[b]
      /\ dev[c].counter \in Nat /\ dev[c].counter >= 1
      /\ (r.phase = "off" => r.counter = 1) /\ Served(r) /\ Served(dev[c])
  <2>1. dev'[c] = r /\ \A b \in Devices : b # c => dev'[b] = dev[b]
    BY DEF DeviceStep, FreeInv, TypeOK
  <2>2. dev[c].counter \in Nat /\ dev[c].counter >= 1
    BY NumbersAssumption DEF FreeInv, TypeOK, Records
  <2>3. Good(dev'[c])
    BY DEF FreeInv
  <2> QED
    BY <2>1, <2>2, <2>3 DEF DeviceStep, NamesInv, AllServed, Good
<1>2. ASSUME NEW o \in Devices, Pair(c, o), r.counter >= 2
      PROVE  dev'[o].counter = 1 /\ \A v \in Told' : v.from = o => v.host.number = 1
  <2>1. o # c /\ dev'[o] = dev[o]
    BY <1>1, <1>2 DEF Pair
  <2>2. dev[o].counter = 1 /\ \A w \in Told : w.from = o => w.host.number = 1
    <3>1. CASE dev[c].counter >= 2
      BY <1>2, <3>1 DEF NamesInv, NotBothPass
    <3>2. CASE ~(dev[c].counter >= 2)
      <4>1. dev[c].counter = 1 /\ Passes(c, r)
        BY <1>1, <1>2, <3>2 DEF DeviceStep
      <4>2. PICK m \in net : m.to = c /\ m.kind = "response" /\ m.host = Host(1, 1)
        BY <4>1 DEF Passes
      <4>3. m \in Told /\ m.from = o /\ dev[o].counter = 1
        BY <1>2, <4>1, <4>2, ToldByOther DEF Passes
      <4>4. m.host.number = 1
        BY <4>2 DEF Host
      <4> QED
        BY <4>3, <4>4 DEF NamesInv, ToldOne
    <3> QED
      BY <3>1, <3>2
  <2>3. ASSUME NEW v \in Told', v.from = o
        PROVE  v.host.number = 1
    <3>1. PICK w \in Told : Like(v, w)
      BY <2>1, <2>3, ToldLike
    <3> QED
      BY <2>2, <2>3, <3>1 DEF Like
  <2> QED
    BY <2>1, <2>2, <2>3
<1>3. ASSUME NEW d \in Devices, Pair(d, c), dev'[d].counter >= 2
      PROVE  r.counter = 1 /\ \A v \in Told' : v.from = c => v.host.number = 1
  <2>1. d # c /\ dev'[d] = dev[d] /\ Pair(c, d)
    BY <1>1, <1>3 DEF Pair
  <2>2. dev[c].counter = 1 /\ \A w \in Told : w.from = c => w.host.number = 1
    BY <1>3, <2>1 DEF NamesInv, NotBothPass
  <2>3. ~Passes(c, r)
    <3> SUFFICES ASSUME Passes(c, r)
                 PROVE  FALSE
      OBVIOUS
    <3>1. PICK m \in net : m.to = c /\ m.kind = "response" /\ m.host = Host(dev[c].counter, 1)
      BY DEF Passes
    <3>2. dev[d].counter = 1
      BY <2>1, <2>2, <3>1, ToldByOther DEF Passes
    <3> QED
      BY <1>3, <2>1, <3>2
  <2>4. r.counter = 1
    BY <1>1, <2>2, <2>3 DEF DeviceStep
  <2>5. ASSUME NEW v \in Told', v.from = c
        PROVE  v.host.number = 1
    <3>1. ASSUME NEW w \in Told, Like(v, w)
          PROVE  v.host.number = 1
      BY <2>2, <2>5, <3>1 DEF Like
    <3>2. CASE v.host = r.host /\ r.host # NoHost
      BY <1>1, <2>4, <3>2 DEF Served
    <3> QED
      BY <3>1, <3>2, ToldLike
  <2> QED
    BY <2>4, <2>5
<1> SUFFICES ASSUME NEW d \in Devices, NEW o \in Devices, Pair(d, o), dev'[d].counter >= 2
             PROVE  dev'[o].counter = 1 /\ \A v \in Told' : v.from = o => v.host.number = 1
  BY DEF NotBothPass, Pair
<1>4. d = c \/ o = c
  BY DEF Pair
<1> QED
  BY <1>1, <1>2, <1>3, <1>4

LEMMA YieldsStep ==
    ASSUME FreeInv, NamesInv, NEW c \in Devices, NEW r, DeviceStep(c, r)
    PROVE  Yields'
<1>1. dev'[c] = r /\ \A b \in Devices : b # c => dev'[b] = dev[b]
  BY DEF DeviceStep, FreeInv, TypeOK
<1>2. ASSUME NEW o \in Devices, Pair(c, o), AddressOnly(r)
      PROVE  c < o /\ r.host = Host(1, 1)
  <2>1. r.host = dev[c].host
    BY <1>2 DEF DeviceStep, Gives
  <2>2. CASE AddressOnly(dev[c])
    BY <1>2, <2>1, <2>2 DEF NamesInv, Yields
  <2>3. ASSUME NEW m \in Told, m.to = c, m.from > c, m.host = dev[c].host
        PROVE  c < o /\ r.host = Host(1, 1)
    <3>1. m.from \in Devices /\ m.host \in Hosts /\ c \in Nat /\ o \in Nat
      BY DevicesAssumption DEF Told, FreeInv, TypeOK, Messages
    <3>2. m.from = o /\ c < o
      BY <1>2, <2>3, <3>1 DEF Pair
    <3>3. m.host # NoHost /\ m.host.form = 1
      <4>1. \A e \in Devices : e <= m.from
        BY <1>2, <3>1, <3>2 DEF Pair
      <4> QED
        BY <4>1 DEF NamesInv, ToldNumber, ToldOne
    <3>4. m.host.number = dev[c].counter
      BY <2>3, <3>3 DEF NamesInv, AllServed, Served
    <3>5. dev[c].counter >= 2 => m.host.number = 1
      BY <1>2, <3>2 DEF NamesInv, NotBothPass
    <3>6. dev[c].counter \in Nat /\ dev[c].counter >= 1
      BY NumbersAssumption DEF FreeInv, TypeOK, Records
    <3>7. m.host.number = 1
      BY <3>4, <3>5, <3>6
    <3>8. m.host = Host(1, 1)
      BY <3>1, <3>3, <3>7 DEF Hosts, Host
    <3> QED
      BY <2>1, <2>3, <3>2, <3>8
  <2> QED
    BY <1>2, <2>2, <2>3 DEF DeviceStep, Gives
<1> SUFFICES ASSUME NEW d \in Devices, NEW o \in Devices, Pair(d, o), AddressOnly(dev'[d])
             PROVE  d < o /\ dev'[d].host = Host(1, 1)
  BY DEF Yields, Pair, AddressOnly
<1> QED
  BY <1>1, <1>2 DEF NamesInv, Yields

-----------------------------------------------------------------------------
(* The steps, as DeviceStep has them. *)

LEMMA CopiesFrom ==
    ASSUME NEW d, NEW x, NEW kind, NEW srv, NEW a, NEW nth, NEW receivers,
           NEW v \in Copies(d, x, kind, srv, a, nth, receivers)
    PROVE  v.from = d /\ v.kind = kind /\ v.host = x.host
<1>1. PICK r \in receivers \ {d} :
        v = [from |-> d, to |-> r, kind |-> kind, host |-> x.host, inst |-> x.inst,
             srv |-> srv, a |-> a, nth |-> nth, late |-> FALSE]
  BY DEF Copies
<1> QED
  BY <1>1

LEMMA AskForFrom ==
    ASSUME NEW e, NEW n, NEW v \in AskFor(e, n)
    PROVE  v.from = e /\ v.kind = "query"
<1> DEFINE x == [host |-> Host(n, 1), inst |-> 0]
           yes == TRUE
           no == FALSE
           query == "query"
<1>1. v \in Copies(e, x, query, no, yes, 0, Up)
  BY DEF AskFor
<1> HIDE DEF x, yes, no, query
<1>2. v.from = e /\ v.kind = query
  BY <1>1, CopiesFrom
<1> QED
  BY <1>2 DEF query

LEMMA AgedFrom ==
    ASSUME net \subseteq Messages, NEW c, NEW v \in Aged(c)
    PROVE  \E w \in net : Like(v, w)
<1>1. PICK w \in net : v = [w EXCEPT !.late = @ \/ c \in {w.from, w.to}]
  BY DEF Aged
<1> DEFINE l == w.late \/ c \in {w.from, w.to}
<1>2. v = [w EXCEPT !.late = l]
  BY <1>1
<1> HIDE DEF l
<1>3. Like(v, w)
  BY <1>2 DEF Like, Messages
<1> QED
  BY <1>3

LEMMA LikeItself == \A w : Like(w, w)
  BY DEF Like

LEMMA StartIs ==
    ASSUME FreeInv, AllServed, NEW c \in Devices, Start(c)
    PROVE  \E r : DeviceStep(c, r) /\ ~r.service
<1> DEFINE r == [dev[c] EXCEPT !.phase = "query"]
<1>1. /\ dev[c] \in Records /\ dev[c].phase = "off" /\ dev[c].host = NoHost
      /\ ~dev[c].service /\ dev[c].state = Running
  BY DEF FreeInv, TypeOK, Good, Start, AllServed, Served
<1>2. /\ r.phase = "query" /\ r.host = NoHost /\ r.counter = dev[c].counter /\ ~r.service
      /\ r.state = Running
  BY <1>1 DEF Records
<1>3. dev' = [dev EXCEPT ![c] = r]
  BY DEF Start
<1>4. \A v \in net' : (\E w \in net : Like(v, w)) \/ SaidBy(c, r, v)
  BY LikeItself, AskForFrom DEF Start, SaidBy
<1>5. \A w \in net : w.from # c
  BY DEF Start, Quiet
<1> HIDE DEF r
<1>6. DeviceStep(c, r)
  BY <1>1, <1>2, <1>3, <1>4, <1>5 DEF DeviceStep, Served, AddressOnly
<1> QED
  BY <1>2, <1>6

LEMMA QueryEndsDone ==
    ASSUME FreeInv, AllServed, NEW c \in Devices, QueryEnds(c)
    PROVE  \E r : DeviceStep(c, r) /\ ~r.service
<1> DEFINE x == dev[c]
           y == SetHostname(x, x.counter)
           r == [y EXCEPT !.found = TRUE]
<1>1. x \in Records /\ last \in Nat /\ x.phase = "query" /\ x.host = NoHost /\ ~x.service
  BY NumbersAssumption DEF FreeInv, TypeOK, QueryEnds, Good, AllServed, Served
<1>2. dev' = [dev EXCEPT ![c] = r] /\ net' = net
  BY DEF QueryEnds
<1> HIDE DEF x
<1>3. y \in Records /\ y.phase = "named" /\ y.counter = x.counter /\ y.service = x.service
      /\ y.host = Host(x.counter, 1)
  BY <1>1, SetHostnameType, SetHostnameHas
<1> HIDE DEF y
<1>4. r.phase = "named" /\ r.counter = x.counter /\ ~r.service /\ r.host = Host(x.counter, 1)
  BY <1>1, <1>3 DEF Records
<1> HIDE DEF r
<1>5. r.host.number = r.counter /\ r.host # NoHost
  BY <1>1, <1>4, HostType DEF Host, Records
<1>6. DeviceStep(c, r)
  BY <1>1, <1>2, <1>4, <1>5, LikeItself DEF DeviceStep, Served, AddressOnly, x
<1> QED
  BY <1>4, <1>6

LEMMA AddServiceIs ==
    ASSUME FreeInv, AllServed, NEW c \in Devices, AddService(c)
    PROVE  \E r : DeviceStep(c, r) /\ SrvFresh(r) /\ net' = net
<1> DEFINE x == dev[c]
           y == [x EXCEPT !.phase = "done", !.service = TRUE]
           yes == TRUE
           no == FALSE
           r == InitProbe(y, yes, no)
<1>1. x \in Records /\ Served(x) /\ x.phase = "named" /\ x.host # NoHost
  BY DEF FreeInv, TypeOK, AllServed, Good, AddService
<1>2. /\ y \in Records /\ y.host = x.host /\ y.phase = "done" /\ y.service = TRUE
      /\ y.counter = x.counter
  BY <1>1 DEF Records
<1>3. dev' = [dev EXCEPT ![c] = r] /\ net' = net
  BY DEF AddService
<1>4. yes \in BOOLEAN /\ no \in BOOLEAN /\ yes
  OBVIOUS
<1> HIDE DEF y, yes, no, x
<1>5. ProbesSrv(r, y, yes)
  BY <1>2, <1>4, InitProbeHas
<1> HIDE DEF r
<1>6. /\ r.host = x.host /\ r.phase = "done" /\ r.service = TRUE /\ r.counter = x.counter
      /\ r.state = Probe1 /\ r.srv
  BY <1>2, <1>4, <1>5 DEF ProbesSrv, SameNames
<1>7. Served(r) /\ ~AddressOnly(r) /\ r.host # NoHost
  BY <1>1, <1>6 DEF Served, AddressOnly
<1>8. DeviceStep(c, r)
  BY <1>1, <1>3, <1>6, <1>7, LikeItself DEF DeviceStep, x
<1> QED
  BY <1>3, <1>6, <1>8 DEF SrvFresh

LEMMA PowerCycleIs ==
    ASSUME FreeInv, AllServed, NEW c \in Devices, PowerCycle(c)
    PROVE  \E r : DeviceStep(c, r) /\ ~r.service
<1>1. dev' = [dev EXCEPT ![c] = Off] /\ net' \subseteq net
  BY DEF PowerCycle
<1>2. Off.phase = "off" /\ Off.host = NoHost /\ Off.service = FALSE /\ Off.state = Running
  BY DEF Off
<1>3. DeviceStep(c, Off)
  BY <1>1, <1>2, LikeItself DEF DeviceStep, Served, AddressOnly
<1> QED
  BY <1>2, <1>3

LEMMA InUseIs ==
    ASSUME FreeInv, AllServed, NEW m \in net, dev[m.to].host = NoHost, Receive(m)
    PROVE  \E r : DeviceStep(m.to, r) /\ ~r.service
<1> DEFINE c == m.to
           x == dev[c]
           n == x.counter
           answered == m.kind = "response" /\ m.a /\ m.host = Host(n, 1)
<1>1. /\ c \in Devices /\ x \in Records /\ last \in Nat /\ x.host = NoHost
      /\ x.phase = "query" /\ ~x.service /\ x.state = Running
  <2>1. c \in Devices /\ x \in Records /\ last \in Nat /\ x.host = NoHost /\ c \in Up
    BY NumbersAssumption DEF FreeInv, TypeOK, Messages, Reached
  <2>2. x.phase \in {"off", "query"} /\ x.phase # "off"
    BY <2>1 DEF FreeInv, Good, Up
  <2>3. ~x.service /\ x.state = Running
    BY <2>1, <2>2 DEF AllServed, Served
  <2> QED
    BY <2>1, <2>2, <2>3
<1>2. InUse(c, m)
  BY DEF Receive
<1>3. net' = (net \ {m}) \cup (IF answered /\ NamesLeft(n) THEN AskFor(c, n + 1) ELSE {})
  BY <1>2, Zenon DEF InUse
<1>4. ASSUME NEW r, NEW v \in net'
      PROVE  (\E w \in net : Like(v, w)) \/ SaidBy(c, r, v)
  BY <1>3, LikeItself, AskForFrom DEF SaidBy
<1>5. CASE ~answered
  <2>1. dev' = dev
    BY <1>2, <1>5, Zenon DEF InUse
  <2>2. dev' = [dev EXCEPT ![c] = x]
    BY <1>1, <2>1 DEF FreeInv, TypeOK
  <2>3. DeviceStep(c, x)
    BY <1>1, <1>4, <2>2 DEF DeviceStep, Served, AddressOnly
  <2> QED
    BY <1>1, <2>3
<1>6. CASE answered /\ NamesLeft(n)
  <2> DEFINE r == [x EXCEPT !.counter = n + 1]
  <2>1. dev' = [dev EXCEPT ![c].counter = n + 1]
    BY <1>2, <1>6, Zenon DEF InUse
  <2>2. /\ dev' = [dev EXCEPT ![c] = r] /\ r.host = NoHost /\ r.counter = n + 1
        /\ r.phase = "query" /\ ~r.service /\ r.state = Running
    BY <1>1, <2>1 DEF Records
  <2> HIDE DEF r
  <2>3. Passes(c, r)
    BY <1>1, <1>6, <2>2 DEF Passes
  <2>4. DeviceStep(c, r)
    BY <1>1, <1>4, <2>2, <2>3 DEF DeviceStep, Served, AddressOnly
  <2> QED
    BY <2>2, <2>4
<1>7. CASE answered /\ ~NamesLeft(n)
  <2> DEFINE r == SetHostname(x, n)
  <2>1. dev' = [dev EXCEPT ![c] = r]
    BY <1>2, <1>7, Zenon DEF InUse
  <2>2. r.phase = "named" /\ r.counter = n /\ r.service = x.service /\ r.host = Host(n, 1)
    BY <1>1, SetHostnameHas
  <2> HIDE DEF r
  <2>3. r.host.number = r.counter /\ r.host # NoHost
    <3>1. n \in Nat \ {0}
      BY <1>1 DEF Records
    <3> QED
      BY <2>2, <3>1, HostType DEF Host
  <2>4. DeviceStep(c, r)
    BY <1>1, <1>4, <2>1, <2>2, <2>3 DEF DeviceStep, Served, AddressOnly
  <2> QED
    BY <1>1, <2>2, <2>4
<1> QED
  BY <1>5, <1>6, <1>7

LEMMA SendIs ==
    ASSUME FreeInv, AllServed, NEW c \in Devices, Send(c)
    PROVE  DeviceStep(c, Scheduled(dev[c]))
<1> DEFINE x == dev[c]
           r == Scheduled(x)
           kind == IF Probing(x) THEN "probe" ELSE "response"
           sent == Copies(c, x, kind, x.srv, x.a, x.state, Up)
<1>1. /\ x \in Records /\ x.state # Running /\ x.host # NoHost /\ Served(x)
      /\ x.phase # "off" /\ net \subseteq Messages
  BY DEF FreeInv, TypeOK, Send, AllServed, Served, Good
<1>2. dev' = [dev EXCEPT ![c] = r] /\ net' = Aged(c) \cup sent
  BY DEF Send
<1>3. /\ r.phase = x.phase /\ r.counter = x.counter /\ r.service = x.service
      /\ r.host = x.host /\ (r.state # 0 => r.srv = x.srv)
  BY <1>1, ScheduledHas
<1> HIDE DEF x, r, kind
<1>4. \A v \in sent : v.from = c /\ v.host = x.host
  BY CopiesFrom
<1> HIDE DEF sent
<1>5. \A v \in net' : (\E w \in net : Like(v, w)) \/ SaidBy(c, r, v)
  BY <1>1, <1>2, <1>3, <1>4, AgedFrom DEF SaidBy
<1>6. AddressOnly(r) => AddressOnly(x)
  BY <1>1, <1>3 DEF AddressOnly, Running
<1>7. Served(r) /\ r.host # NoHost /\ (AddressOnly(r) => Gives(c, r))
  <2>1. Served(r)
    BY <1>1, <1>3 DEF Served
  <2> QED
    BY <1>1, <1>3, <1>6, <2>1 DEF Gives, x
<1>8. DeviceStep(c, r)
  BY <1>1, <1>2, <1>3, <1>5, <1>7 DEF DeviceStep, x
<1> QED
  BY <1>8 DEF r, x

\* What a device that hears m becomes.
Heard(c, x, r, m) ==
    \/ r = x /\ (m.kind # "query" => ~LosesSrv(x, m) /\ ~LosesA(c, AfterSrv(x, m), m))
    \/ SameLife(r, x) /\ SrvFresh(r)
    \/ m.kind # "query" /\ SameLife(r, x) /\ YieldsTo(c, x, r, m)
Replies(c, x, m) ==
    /\ Questions(x, m) /\ ~Probing(x)
    /\ m.kind # "query" => ~LosesSrv(x, m) /\ ~LosesA(c, AfterSrv(x, m), m)

LEMMA ResolveIs ==
    ASSUME FreeInv, NEW m \in net, dev[m.to].host # NoHost, Receive(m)
    PROVE  /\ net' = (net \ {m}) \cup (IF Replies(m.to, dev[m.to], m)
                                      THEN Answer(m.to, dev[m.to], m) ELSE {})
           /\ \E r : /\ dev' = [dev EXCEPT ![m.to] = r] /\ Heard(m.to, dev[m.to], r, m)
                     /\ Replies(m.to, dev[m.to], m) => r = dev[m.to]
<1> DEFINE c == m.to
           x == dev[c]
           z == AfterA(c, AfterSrv(x, m), m)
           r == IF m.kind # "query" THEN z ELSE x
<1>1. c \in Devices /\ x \in Records /\ m \in Messages /\ x.host # NoHost
  BY DEF FreeInv, TypeOK, Messages
<1>2. Resolve(c, m)
  BY DEF Receive
<1>3. dev' = [dev EXCEPT ![c] = r]
  BY <1>2 DEF Resolve
<1>4. net' = (net \ {m}) \cup (IF Replies(c, x, m) THEN Answer(c, x, m) ELSE {})
  BY <1>2, Zenon DEF Resolve, Replies
<1>5. \/ z = x /\ ~LosesSrv(x, m) /\ ~LosesA(c, AfterSrv(x, m), m)
      \/ SameLife(z, x) /\ SrvFresh(z)
      \/ SameLife(z, x) /\ YieldsTo(c, x, z, m)
  BY <1>1, HeardIs, Zenon
<1>6. Replies(c, x, m) /\ m.kind # "query" => z = x
  BY Zenon DEF Replies, AfterSrv, AfterA
<1> HIDE DEF z, c, x
<1>7. Heard(c, x, r, m) /\ (Replies(c, x, m) => r = x)
  BY <1>5, <1>6 DEF Heard
<1> HIDE DEF r
<1> QED
  BY <1>3, <1>4, <1>7 DEF x, c

LEMMA AnswerFrom ==
    ASSUME NEW c, NEW x, NEW m, NEW v \in Answer(c, x, m)
    PROVE  v.from = c /\ v.kind = "response" /\ v.host = x.host
<1> DEFINE yes == TRUE
           response == "response"
           srv == SrvIsOurs(x, m)
           to == IF m.nth = Probe1 THEN Up \cap {m.from} ELSE Up
<1>1. v \in Copies(c, x, response, srv, yes, m.nth, to)
  BY Zenon DEF Answer
<1> HIDE DEF yes, response, srv, to
<1>2. v.from = c /\ v.kind = response /\ v.host = x.host
  BY <1>1, CopiesFrom
<1> QED
  BY <1>2 DEF response

LEMMA HeardStep ==
    ASSUME FreeInv, AllServed, NEW m \in net, dev[m.to].host # NoHost, Receive(m)
    PROVE  \E r : DeviceStep(m.to, r)
<1> DEFINE c == m.to
           x == dev[c]
<1>1. PICK r : /\ dev' = [dev EXCEPT ![c] = r] /\ Heard(c, x, r, m)
               /\ Replies(c, x, m) => r = x
  BY ResolveIs
<1>2. net' = (net \ {m}) \cup (IF Replies(c, x, m) THEN Answer(c, x, m) ELSE {})
  BY ResolveIs
<1>3. /\ c \in Devices /\ x \in Records /\ m \in Messages /\ x.host # NoHost /\ Served(x)
      /\ x.phase # "off"
  BY DEF FreeInv, TypeOK, Messages, AllServed, Good
<1>4. \A v \in Answer(c, x, m) : v.from = c /\ v.host = x.host
  BY AnswerFrom
<1>5. r = x \/ SameLife(r, x)
  BY <1>1 DEF Heard
<1>6. ASSUME NEW v \in net'
      PROVE  (\E w \in net : Like(v, w)) \/ SaidBy(c, r, v)
  <2>1. CASE v \in net
    BY <2>1, LikeItself
  <2>2. CASE v \notin net
    <3>1. Replies(c, x, m) /\ v \in Answer(c, x, m)
      BY <1>2, <2>2
    <3> QED
      BY <1>1, <1>3, <1>4, <3>1 DEF SaidBy
  <2> QED
    BY <2>1, <2>2
<1>7. ASSUME AddressOnly(r)
      PROVE  Gives(c, r)
  <2>1. CASE r = x
    BY <1>7, <2>1 DEF Gives
  <2>2. CASE SrvFresh(r)
    BY <1>7, <2>2 DEF SrvFresh, AddressOnly
  <2>3. CASE m.kind # "query" /\ YieldsTo(c, x, r, m)
    <3>1. m \in Told /\ m.host = x.host /\ m.from > c /\ r.host = x.host
      BY <2>3, Zenon DEF YieldsTo, LosesA, AIsOurs, ABeats, Told
    <3> QED
      BY <3>1 DEF Gives
  <2> QED
    BY <1>1, <2>1, <2>2, <2>3 DEF Heard
<1>8. Served(r) /\ r.counter = x.counter /\ r.host # NoHost
  BY <1>3, <1>5 DEF Served, SameLife
<1> QED
  BY <1>1, <1>3, <1>6, <1>7, <1>8 DEF DeviceStep

LEMMA NamesStep ==
    ASSUME FreeInv, FreeInv', HighestKeepsName', NamesInv, [Next]_vars
    PROVE  NamesInv'
<1>0. AllServed /\ ToldNumber /\ ToldOne
  BY DEF NamesInv
<1>1. ASSUME NEW c \in Devices, NEW r, DeviceStep(c, r)
      PROVE  NamesInv'
  <2>1. AllServed' /\ ToldNumber' /\ ToldOne'
    BY <1>0, <1>1, NumbersStep
  <2>2. NotBothPass' /\ Yields'
    BY <1>1, NotBothStep, YieldsStep
  <2> QED
    BY <2>1, <2>2 DEF NamesInv
<1>2. ASSUME dev' = dev, net' \subseteq net
      PROVE  NamesInv'
  BY <1>2 DEF NamesInv, AllServed, ToldNumber, ToldOne, NotBothPass, Yields, Told, Pair
<1>3. ASSUME NEW c \in Devices, Start(c) \/ Device(c) \/ PowerCycle(c)
      PROVE  \E r : DeviceStep(c, r)
  BY <1>0, <1>3, StartIs, QueryEndsDone, AddServiceIs, SendIs, PowerCycleIs DEF Device
<1>4. ASSUME NEW m \in net, Receive(m)
      PROVE  \E r : DeviceStep(m.to, r)
  BY <1>0, <1>4, InUseIs, HeardStep
<1>5. \A m \in net : m.to \in Devices
  BY DEF FreeInv, TypeOK, Messages
<1>6. ASSUME NEW m \in net, Lose(m) \/ AnswerDropped(m)
      PROVE  NamesInv'
  BY <1>2, <1>6 DEF Lose, AnswerDropped
<1>7. CASE UNCHANGED vars
  BY <1>2, <1>7 DEF vars
<1> QED
  BY <1>1, <1>3, <1>4, <1>5, <1>6, <1>7 DEF Next

-----------------------------------------------------------------------------
(* Why two devices have different instance names at rest.  As for the host   *)
(* names: v has the same instance name as w, and loses it as w's host name   *)
(* beats its own.  It can notice in the answers to its probes for the        *)
(* service and in the announcements of w, which has its service in them: who *)
(* announces its address alone has a host name that beats no other (Yields). *)

SrvCarries(v, w, m) ==
    /\ m.srv /\ m.inst = dev[v].inst
    /\ \/ m.from = w /\ m.to = v /\ m.kind # "query" /\ m.host = dev[w].host
       \/ m.from = v /\ m.to = w /\ m.kind = "probe" /\ m.host = dev[v].host
SrvAsks(x, s) == Probing(x) /\ x.srv /\ s \in x.state .. Probe3

SrvChance(v, w, s) ==
    SrvAsks(dev[v], s) \/ Tells(dev[w], s) \/ \E m \in net : SrvCarries(v, w, m) /\ m.nth = s
SrvChances(v, w) == {s \in 1 .. 6 : SrvChance(v, w, s)}

Rivals(v, w) ==
    /\ dev[v].service /\ dev[w].service /\ dev[v].inst = dev[w].inst
    /\ SrvBeats(dev[w].host, dev[v].host) /\ ~Probing(dev[w])
ThreeSrvChances ==
    \A v, w \in Devices :
        Pair(v, w) /\ Rivals(v, w) => lost + Cardinality(SrvChances(v, w)) >= 3
InstInv == HostInv /\ HighestKeepsName /\ NamesInv /\ ThreeSrvChances

SrvKept(v, w) == Rivals(v, w) /\ \A s \in 1 .. 6 : SrvChance(v, w, s) => SrvChance(v, w, s)'
SrvAhead(v, w) ==
    (\A s \in 1 .. 3 : SrvChance(v, w, s)) \/ (\A s \in 4 .. 6 : SrvChance(v, w, s))
RivalsKept ==
    \A v, w \in Devices :
        Pair(v, w) /\ Rivals(v, w)' => SrvKept(v, w) \/ SrvAhead(v, w)'

LEMMA SrvCount ==
    ASSUME InstInv, NEW v \in Devices, NEW w \in Devices, Pair(v, w),
           \/ SrvKept(v, w) /\ lost' = lost
           \/ SrvAhead(v, w)' /\ lost' \in Nat
           \/ Rivals(v, w) /\ lost' = lost + 1
                /\ \E n : \A s \in 1 .. 6 : SrvChance(v, w, s) /\ s # n => SrvChance(v, w, s)'
    PROVE  lost' + Cardinality(SrvChances(v, w)') >= 3
<1> DEFINE S == SrvChances(v, w)
           T == SrvChances(v, w)'
<1>1. S \in SUBSET (1 .. 6) /\ T \in SUBSET (1 .. 6) /\ lost \in Nat
  BY DEF SrvChances, InstInv, HostInv, FreeInv, TypeOK
<1>2. \A s \in 1 .. 6 : (s \in S <=> SrvChance(v, w, s)) /\ (s \in T <=> SrvChance(v, w, s)')
  BY DEF SrvChances
<1>3. Rivals(v, w) => lost + Cardinality(S) >= 3
  BY DEF InstInv, ThreeSrvChances
<1> HIDE DEF S, T
<1>4. Cardinality(S) \in Nat /\ Cardinality(T) \in Nat
  BY <1>1, FewNumbers
<1>5. CASE SrvKept(v, w) /\ lost' = lost
  <2>1. S \subseteq T
    BY <1>1, <1>2, <1>5 DEF SrvKept
  <2>2. Cardinality(S) <= Cardinality(T)
    BY <1>1, <2>1, CountMore
  <2> QED
    BY <1>1, <1>3, <1>4, <1>5, <2>2 DEF T, SrvKept
<1>6. CASE SrvAhead(v, w)' /\ lost' \in Nat
  <2>1. 1 .. 3 \subseteq T \/ 4 .. 6 \subseteq T
    BY <1>2, <1>6 DEF SrvAhead
  <2>2. Cardinality(T) >= 3
    BY <1>1, <2>1, CountThree
  <2> QED
    BY <1>4, <1>6, <2>2 DEF T
<1>7. ASSUME NEW n, Rivals(v, w), lost' = lost + 1,
             \A s \in 1 .. 6 : SrvChance(v, w, s) /\ s # n => SrvChance(v, w, s)'
      PROVE  lost' + Cardinality(T) >= 3
  <2>1. S \ {n} \subseteq T
    BY <1>1, <1>2, <1>7
  <2>2. Cardinality(S) <= Cardinality(T) + 1
    BY <1>1, <2>1, CountMore
  <2> QED
    BY <1>1, <1>3, <1>4, <1>7, <2>2
<1> QED
  BY <1>5, <1>6, <1>7 DEF T

\* The chances of v and w are kept when the senders keep what is ahead of them
\* or put it on its way, and what is on its way stays or is answered.
LEMMA RivalsSent ==
    ASSUME NEW v, NEW w, Rivals(v, w),
           dev'[v].host = dev[v].host, dev'[v].inst = dev[v].inst, dev'[w].host = dev[w].host,
           NEW n,
           \A s \in 1 .. 6 : SrvAsks(dev[v], s) /\ s # n => SrvAsks(dev'[v], s),
           \A s \in 1 .. 6 : Tells(dev[w], s) /\ s # n => Tells(dev'[w], s),
           \E u \in net' : SrvCarries(v, w, u) /\ u.nth = n,
           \A m \in net : SrvCarries(v, w, m) => \E u \in net' : SrvCarries(v, w, u) /\ u.nth = m.nth
    PROVE  SrvKept(v, w)
<1>1. \A u : SrvCarries(v, w, u)' <=> SrvCarries(v, w, u)
  BY DEF SrvCarries
<1> SUFFICES ASSUME NEW s \in 1 .. 6, SrvChance(v, w, s)
             PROVE  SrvChance(v, w, s)'
  BY DEF SrvKept
<1>2. CASE SrvAsks(dev[v], s) \/ Tells(dev[w], s)
  BY <1>1, <1>2 DEF SrvChance
<1>3. ASSUME NEW m \in net, SrvCarries(v, w, m), m.nth = s
      PROVE  SrvChance(v, w, s)'
  BY <1>1, <1>3 DEF SrvChance
<1> QED
  BY <1>2, <1>3 DEF SrvChance

LEMMA RivalsStay ==
    ASSUME NEW v, NEW w, Rivals(v, w),
           dev'[v].host = dev[v].host, dev'[v].inst = dev[v].inst, dev'[w].host = dev[w].host,
           \A s : SrvAsks(dev[v], s) => SrvAsks(dev'[v], s),
           \A s : Tells(dev[w], s) => Tells(dev'[w], s),
           \A m \in net : SrvCarries(v, w, m) => \E u \in net' : SrvCarries(v, w, u) /\ u.nth = m.nth
    PROVE  SrvKept(v, w)
<1>1. \A u : SrvCarries(v, w, u)' <=> SrvCarries(v, w, u)
  BY DEF SrvCarries
<1> SUFFICES ASSUME NEW s \in 1 .. 6, SrvChance(v, w, s)
             PROVE  SrvChance(v, w, s)'
  BY DEF SrvKept
<1>2. CASE SrvAsks(dev[v], s) \/ Tells(dev[w], s)
  BY <1>1, <1>2 DEF SrvChance
<1>3. ASSUME NEW m \in net, SrvCarries(v, w, m), m.nth = s
      PROVE  SrvChance(v, w, s)'
  BY <1>1, <1>3 DEF SrvChance
<1> QED
  BY <1>2, <1>3 DEF SrvChance

LEMMA LikeSrv ==
    ASSUME NEW S, NEW T, \A m \in S : \E u \in T : Like(u, m)
    PROVE  \A v, w : \A m \in S :
              SrvCarries(v, w, m) => \E u \in T : SrvCarries(v, w, u) /\ u.nth = m.nth
<1> SUFFICES ASSUME NEW v, NEW w, NEW m \in S, SrvCarries(v, w, m)
             PROVE  \E u \in T : SrvCarries(v, w, u) /\ u.nth = m.nth
  OBVIOUS
<1>1. PICK u \in T : Like(u, m)
  OBVIOUS
<1>2. SrvCarries(v, w, u) /\ u.nth = m.nth
  BY <1>1, Zenon DEF Like, SrvCarries
<1> QED
  BY <1>2

\* A device without a service has no rival; one that probes is beaten by none,
\* and with its service it has all its probes ahead.
LEMMA NoRivals ==
    ASSUME FreeInv, NEW c \in Devices, NEW r, dev' = [dev EXCEPT ![c] = r],
           ~r.service \/ SrvFresh(r)
    PROVE  RivalsKept
<1>1. dev'[c] = r
  BY DEF FreeInv, TypeOK
<1> SUFFICES ASSUME NEW v \in Devices, NEW w \in Devices, Pair(v, w), Rivals(v, w)'
             PROVE  SrvAhead(v, w)'
  BY DEF RivalsKept
<1>2. c = v \/ c = w
  BY DEF Pair
<1>3. r.service
  BY <1>1, <1>2 DEF Rivals
<1>4. r.state = Probe1 /\ r.srv
  BY <1>3 DEF SrvFresh
<1>5. c = v
  BY <1>1, <1>2, <1>4 DEF Rivals, Probing, Probe1, Probe3
<1>6. \A s \in 1 .. 3 : SrvAsks(r, s)
  BY <1>4 DEF SrvAsks, Probing, Probe1, Probe3
<1> QED
  BY <1>1, <1>5, <1>6 DEF SrvAhead, SrvChance

\* Of two hosts one beats the other, and faroldns1 beats none.
LEMMA BeatsOne ==
    ASSUME NEW g \in Hosts, NEW h \in Hosts
    PROVE  /\ SrvBeats(g, h) => g # h /\ ~SrvBeats(h, g)
           /\ g # h => SrvBeats(g, h) \/ SrvBeats(h, g)
           /\ h # NoHost => ~SrvBeats(Host(1, 1), h)
<1>1. g.number \in Nat /\ g.form \in Nat /\ h.number \in Nat /\ h.form \in Nat
  BY DEF Hosts, NoHost, Host
<1>2. Length(g) \in Nat /\ Length(h) \in Nat
  BY <1>1 DEF Length
<1>3. SrvBeats(g, h) => g # h /\ ~SrvBeats(h, g)
  BY <1>1, <1>2 DEF SrvBeats
<1>4. g # h => g.number # h.number \/ g.form # h.form
  BY DEF Hosts, NoHost, Host
<1>5. g # h => SrvBeats(g, h) \/ SrvBeats(h, g)
  BY <1>1, <1>2, <1>4 DEF SrvBeats
<1>6. ASSUME h # NoHost
      PROVE  ~SrvBeats(Host(1, 1), h)
  <2>1. h.number >= 1 /\ h.form >= 1
    BY <1>6 DEF Hosts
  <2>2. Host(1, 1).number = 1 /\ Host(1, 1).form = 1
    BY DEF Host
  <2>3. Length(Host(1, 1)) = 0
    BY <2>2 DEF Length
  <2> QED
    BY <1>1, <1>2, <2>1, <2>2, <2>3 DEF SrvBeats
<1> QED
  BY <1>3, <1>5, <1>6

\* A probe of v for its service, and w's answer to it or its announcement.
ProbeOf(d, x, a, n, to) == Copies(d, x, "probe", TRUE, a, n, to)
ResponseOf(d, x, a, n, to) == Copies(d, x, "response", TRUE, a, n, to)

LEMMA ProbeCarriesSrv ==
    ASSUME NEW v, NEW w, w # v, NEW to, w \in to, NEW x, x.host = dev[v].host,
           x.inst = dev[v].inst, NEW a, NEW n
    PROVE  \E u \in ProbeOf(v, x, a, n, to) : SrvCarries(v, w, u) /\ u.nth = n
<1> DEFINE probe == "probe"
           yes == TRUE
<1>0. yes
  OBVIOUS
<1> HIDE DEF probe, yes
<1>1. \E u \in Copies(v, x, probe, yes, a, n, to) :
         /\ u.from = v /\ u.to = w /\ u.kind = probe /\ u.host = x.host
         /\ u.inst = x.inst /\ u.srv = yes /\ u.a = a /\ u.nth = n
  BY CopyIs
<1>2. \A u : /\ u.from = v /\ u.to = w /\ u.kind = probe /\ u.host = x.host
            /\ u.inst = x.inst /\ u.srv = yes /\ u.a = a /\ u.nth = n
         => SrvCarries(v, w, u) /\ u.nth = n
  BY <1>0, Zenon DEF SrvCarries, probe
<1>3. \E u \in Copies(v, x, probe, yes, a, n, to) : SrvCarries(v, w, u) /\ u.nth = n
  BY <1>1, <1>2
<1> QED
  BY <1>3, Zenon DEF ProbeOf, probe, yes

LEMMA ResponseCarriesSrv ==
    ASSUME NEW v, NEW w, v # w, NEW to, v \in to, NEW x, x.host = dev[w].host,
           x.inst = dev[v].inst, NEW a, NEW n
    PROVE  \E u \in ResponseOf(w, x, a, n, to) : SrvCarries(v, w, u) /\ u.nth = n
<1> DEFINE response == "response"
           yes == TRUE
<1>0. yes /\ response # "query"
  OBVIOUS
<1> HIDE DEF response, yes
<1>1. \E u \in Copies(w, x, response, yes, a, n, to) :
         /\ u.from = w /\ u.to = v /\ u.kind = response /\ u.host = x.host
         /\ u.inst = x.inst /\ u.srv = yes /\ u.a = a /\ u.nth = n
  BY CopyIs
<1>2. \A u : /\ u.from = w /\ u.to = v /\ u.kind = response /\ u.host = x.host
            /\ u.inst = x.inst /\ u.srv = yes /\ u.a = a /\ u.nth = n
         => SrvCarries(v, w, u) /\ u.nth = n
  BY <1>0, Zenon DEF SrvCarries
<1>3. \E u \in Copies(w, x, response, yes, a, n, to) : SrvCarries(v, w, u) /\ u.nth = n
  BY <1>1, <1>2
<1> QED
  BY <1>3, Zenon DEF ResponseOf, response, yes

LEMMA SendRivals ==
    ASSUME FreeInv, NamesInv, NEW c \in Devices, Send(c)
    PROVE  RivalsKept
<1> DEFINE x == dev[c]
           r == Scheduled(x)
           sent == Copies(c, x, IF Probing(x) THEN "probe" ELSE "response", x.srv, x.a, x.state, Up)
<1>0. Announce3 = 6 /\ Announce1 = 4 /\ Probe3 = 3 /\ Probe1 = 1 /\ Running = 0
  BY DEF Announce1, Announce3, Probe1, Probe3, Running
<1>1. /\ x \in Records /\ x.state \in 1 .. 6 /\ net \subseteq Messages
      /\ dev' = [dev EXCEPT ![c] = r] /\ net' = Aged(c) \cup sent
  BY <1>0 DEF FreeInv, TypeOK, Send, Records
<1>2. /\ r.host = x.host /\ r.inst = x.inst /\ r.service = x.service
      /\ r.state = IF x.state = 6 THEN 0 ELSE x.state + 1
      /\ r.state # 0 => r.srv = x.srv
  BY <1>0, <1>1, ScheduledHas
<1>3. /\ Probing(x) /\ x.srv = TRUE => sent = ProbeOf(c, x, x.a, x.state, Up)
      /\ ~Probing(x) /\ x.srv = TRUE => sent = ResponseOf(c, x, x.a, x.state, Up)
  BY Zenon DEF ProbeOf, ResponseOf
<1>4. \A w \in net : \E v \in net' : Like(v, w)
  BY <1>1, AgedLike
<1>5. dev'[c] = r /\ \A b \in Devices : b # c => dev'[b] = dev[b]
  BY <1>1 DEF FreeInv, TypeOK
<1>6. \A v, w : \A m \in net :
         SrvCarries(v, w, m) => \E u \in net' : SrvCarries(v, w, u) /\ u.nth = m.nth
  BY <1>4, LikeSrv
<1>7. sent \subseteq net'
  BY <1>1
<1>8. \A b \in Devices : dev[b].service => b \in Up /\ dev[b].host # NoHost /\ dev[b].host \in Hosts
  BY DEF NamesInv, AllServed, Served, Up, FreeInv, Good, TypeOK, Records
<1> HIDE DEF r, sent
<1>9. ASSUME NEW w \in Devices, Pair(c, w), Rivals(c, w)'
      PROVE  SrvKept(c, w)
  <2>1. c # w /\ dev'[w] = dev[w] /\ Rivals(c, w)
    BY <1>2, <1>5, <1>9 DEF Pair, Rivals
  <2>2. CASE Probing(x) /\ x.srv
    <3>1. w \in Up /\ x.srv = TRUE
      BY <1>1, <1>8, <2>1, <2>2 DEF Rivals, Records
    <3>2. \E u \in net' : SrvCarries(c, w, u) /\ u.nth = x.state
      <4> DEFINE a == x.a
                 n == x.state
      <4>1. sent = ProbeOf(c, x, a, n, Up)
        BY <1>3, <2>2, <3>1
      <4>2. x.host = dev[c].host /\ x.inst = dev[c].inst
        OBVIOUS
      <4> HIDE DEF x, a, n
      <4>3. \E u \in ProbeOf(c, x, a, n, Up) : SrvCarries(c, w, u) /\ u.nth = n
        BY <2>1, <3>1, <4>1, <4>2, ProbeCarriesSrv
      <4> QED
        BY <1>7, <4>1, <4>3, Zenon DEF n
    <3>3. ASSUME NEW s \in 1 .. 6, SrvAsks(x, s), s # x.state
          PROVE  SrvAsks(r, s)
      <4>1. s \in x.state .. 3 /\ x.state < 3 /\ x.state \in 1 .. 3
        BY <1>0, <1>1, <3>3 DEF SrvAsks, Probing
      <4>2. r.state = x.state + 1 /\ r.srv = TRUE
        BY <1>2, <3>1, <4>1
      <4> QED
        BY <1>0, <3>3, <4>1, <4>2 DEF SrvAsks, Probing
    <3>4. \A s \in 1 .. 6 : Tells(dev[w], s) /\ s # x.state => Tells(dev'[w], s)
      BY <2>1
    <3>5. dev'[c].host = dev[c].host /\ dev'[c].inst = dev[c].inst /\ dev'[w].host = dev[w].host
      BY <1>2, <1>5, <2>1
    <3>6. \A s \in 1 .. 6 : SrvAsks(dev[c], s) /\ s # x.state => SrvAsks(dev'[c], s)
      BY <1>5, <3>3
    <3> DEFINE n == x.state
    <3> HIDE DEF n
    <3> QED
      BY <1>6, <2>1, <3>2, <3>4, <3>5, <3>6, RivalsSent DEF n
  <2>3. CASE ~(Probing(x) /\ x.srv)
    <3>1. \A s : SrvAsks(dev[c], s) => SrvAsks(dev'[c], s)
      BY <2>3 DEF SrvAsks
    <3>2. \A s : Tells(dev[w], s) => Tells(dev'[w], s)
      BY <2>1
    <3> QED
      BY <1>2, <1>5, <1>6, <2>1, <3>1, <3>2, RivalsStay
  <2> QED
    BY <2>2, <2>3
<1>10. ASSUME NEW v \in Devices, Pair(v, c), Rivals(v, c)'
       PROVE  SrvKept(v, c) \/ SrvAhead(v, c)'
  <2>1. v # c /\ dev'[v] = dev[v] /\ Pair(c, v)
    BY <1>5, <1>10 DEF Pair
  <2>2. CASE Probing(x)
    <3>1. r.state = 4
      BY <1>0, <1>1, <1>2, <1>5, <1>10, <2>2 DEF Rivals, Probing
    <3>2. \A s \in 4 .. 6 : Tells(r, s)
      BY <1>0, <3>1 DEF Tells
    <3> QED
      BY <1>5, <3>2 DEF SrvAhead, SrvChance
  <2>3. CASE ~Probing(x)
    <3>1. Rivals(v, c)
      BY <1>2, <1>5, <1>10, <2>1, <2>3 DEF Rivals
    <3>2. v \in Up /\ dev[v].host # NoHost /\ dev[v].host \in Hosts /\ x.service
      BY <1>8, <3>1 DEF Rivals
    <3>3. x.srv = TRUE
      <4>1. SrvBeats(x.host, dev[v].host) /\ ~SrvBeats(Host(1, 1), dev[v].host)
        <5>1. Host(1, 1) \in Hosts
          BY DEF Host, Hosts
        <5> QED
          BY <3>1, <3>2, <5>1, BeatsOne DEF Rivals
      <4>2. ~AddressOnly(x)
        BY <2>1, <4>1, Zenon DEF NamesInv, Yields
      <4> QED
        BY <1>0, <1>1, <3>2, <4>2 DEF AddressOnly, Records
    <3>4. \E u \in net' : SrvCarries(v, c, u) /\ u.nth = x.state
      <4> DEFINE a == x.a
                 n == x.state
      <4>1. sent = ResponseOf(c, x, a, n, Up)
        BY <1>3, <2>3, <3>3
      <4>2. x.host = dev[c].host /\ x.inst = dev[v].inst
        BY <3>1 DEF Rivals
      <4> HIDE DEF x, a, n
      <4>3. \E u \in ResponseOf(c, x, a, n, Up) : SrvCarries(v, c, u) /\ u.nth = n
        BY <2>1, <3>2, <4>1, <4>2, ResponseCarriesSrv
      <4> QED
        BY <1>7, <4>1, <4>3, Zenon DEF n
    <3>5. \A s \in 1 .. 6 : Tells(x, s) /\ s # x.state => Tells(r, s)
      BY <1>0, <1>1, <1>2 DEF Tells
    <3>6. \A s \in 1 .. 6 : SrvAsks(dev[v], s) /\ s # x.state => SrvAsks(dev'[v], s)
      BY <2>1
    <3>8. dev'[v].host = dev[v].host /\ dev'[v].inst = dev[v].inst /\ dev'[c].host = dev[c].host
      BY <1>2, <1>5, <2>1
    <3>9. \A s \in 1 .. 6 : Tells(dev[c], s) /\ s # x.state => Tells(dev'[c], s)
      BY <1>5, <3>5
    <3>7. SrvKept(v, c)
      BY <1>6, <3>1, <3>4, <3>6, <3>8, <3>9, RivalsSent, SMTT(30)
    <3> QED
      BY <3>7
  <2> QED
    BY <2>2, <2>3
<1> SUFFICES ASSUME NEW v \in Devices, NEW w \in Devices, Pair(v, w), Rivals(v, w)'
             PROVE  SrvKept(v, w) \/ SrvAhead(v, w)'
  BY DEF RivalsKept
<1>11. c = v \/ c = w
  BY DEF Pair
<1> QED
  BY <1>9, <1>10, <1>11

\* What a device hears: v notices that w has its instance name, which makes it
\* begin again with its service, or hears nothing of w; and w, which does not
\* probe, answers the probe of v, and its answer is another chance.
LEMMA HeardRivals ==
    ASSUME FreeInv, NamesInv, NEW m \in net, dev[m.to].host # NoHost, Receive(m)
    PROVE  RivalsKept
<1> DEFINE c == m.to
           x == dev[c]
<1>1. PICK r : /\ dev' = [dev EXCEPT ![c] = r] /\ Heard(c, x, r, m)
               /\ Replies(c, x, m) => r = x
  BY ResolveIs
<1>2. net' = (net \ {m}) \cup (IF Replies(c, x, m) THEN Answer(c, x, m) ELSE {})
  BY ResolveIs
<1>3. /\ c \in Devices /\ x \in Records /\ m \in Messages /\ x.host # NoHost
      /\ dev'[c] = r /\ \A b \in Devices : b # c => dev'[b] = dev[b]
      /\ \A b \in Devices : dev[b].host \in Hosts
  BY <1>1 DEF FreeInv, TypeOK, Messages, Records
<1>4. ASSUME NEW v, NEW w, NEW u \in net, u # m, SrvCarries(v, w, u)
      PROVE  \E z \in net' : SrvCarries(v, w, z) /\ z.nth = u.nth
  BY <1>2, <1>4
<1>5. CASE SrvFresh(r)
  BY <1>1, <1>3, <1>5, NoRivals
<1>6. CASE ~SrvFresh(r)
  <2>1. /\ r = x \/ (r.state = Probe1 /\ r.host = x.host /\ r.inst = x.inst /\ ~Probing(x)
                      /\ r.service = x.service)
        /\ m.kind # "query" => ~LosesSrv(x, m)
    BY <1>1, <1>6 DEF Heard, YieldsTo, SameLife
  <2>2. ASSUME NEW w \in Devices, Pair(c, w), Rivals(c, w)'
        PROVE  SrvKept(c, w)
    <3>1. c # w /\ dev'[w] = dev[w] /\ Rivals(c, w)
      BY <1>3, <2>1, <2>2 DEF Pair, Rivals
    <3>2. ~SrvCarries(c, w, m)
      BY <2>1, <3>1, Zenon DEF SrvCarries, LosesSrv, SrvIsOurs, Rivals
    <3>3. \A s : SrvAsks(dev[c], s) => SrvAsks(dev'[c], s)
      BY <1>3, <2>1 DEF SrvAsks
    <3>4. \A s : Tells(dev[w], s) => Tells(dev'[w], s)
      BY <3>1
    <3>5. \A u \in net : SrvCarries(c, w, u) => \E z \in net' : SrvCarries(c, w, z) /\ z.nth = u.nth
      BY <1>4, <3>2
    <3> QED
      BY <1>3, <2>1, <3>1, <3>3, <3>4, <3>5, RivalsStay
  <2>3. ASSUME NEW v \in Devices, Pair(v, c), Rivals(v, c)'
        PROVE  SrvKept(v, c)
    <3>1. v # c /\ dev'[v] = dev[v] /\ r = x
      <4>1. ~Probing(r)
        BY <1>3, <2>3 DEF Rivals
      <4>2. r.state # Probe1
        BY <4>1 DEF Probing, Probe1, Probe3
      <4> QED
        BY <1>3, <2>1, <2>3, <4>2 DEF Pair
    <3>2. Rivals(v, c) /\ dev'[c] = dev[c]
      BY <1>3, <2>3, <3>1 DEF Rivals
    <3>3. ASSUME SrvCarries(v, c, m)
          PROVE  \E z \in net' : SrvCarries(v, c, z) /\ z.nth = m.nth
      <4>1. /\ m.from = v /\ m.kind = "probe" /\ m.srv /\ m.inst = x.inst /\ x.inst = dev[v].inst
            /\ m.host = dev[v].host /\ x.service /\ ~Probing(x) /\ v \in Up
            /\ SrvBeats(x.host, dev[v].host)
        <5>1. v \in Up
          BY <3>2 DEF Rivals, NamesInv, AllServed, Served, Up
        <5> QED
          BY <3>1, <3>2, <3>3, <5>1 DEF SrvCarries, Rivals
      <4>2. x.host # dev[v].host /\ ~SrvBeats(dev[v].host, x.host)
        BY <1>3, <4>1, BeatsOne
      <4>3. SrvIsOurs(x, m) /\ ~LosesSrv(x, m)
        BY <4>1, <4>2, Zenon DEF LosesSrv, SrvIsOurs
      <4>4. AfterSrv(x, m) = x
        BY <4>3 DEF AfterSrv
      <4>5. ~LosesA(c, AfterSrv(x, m), m)
        BY <4>1, <4>2, <4>4, Zenon DEF LosesA, AIsOurs
      <4>6. Questions(x, m)
        BY <4>1, <4>3 DEF Questions
      <4>7. Replies(c, x, m)
        BY <4>1, <4>3, <4>5, <4>6, Zenon DEF Replies
      <4> DEFINE yes == TRUE
                 n == m.nth
                 to == IF m.nth = Probe1 THEN Up \cap {m.from} ELSE Up
      <4>8. Answer(c, x, m) = ResponseOf(c, x, yes, n, to) /\ v \in to
        <5>1. SrvIsOurs(x, m) = TRUE
          BY <4>3, Zenon DEF SrvIsOurs
        <5>2. Answer(c, x, m) = ResponseOf(c, x, yes, n, to)
          BY <5>1, Zenon DEF Answer, ResponseOf
        <5> QED
          BY <4>1, <5>2
      <4>9. x.host = dev[c].host /\ x.inst = dev[v].inst
        BY <4>1
      <4> HIDE DEF c, x, yes, n, to
      <4>10. \E u \in ResponseOf(c, x, yes, n, to) : SrvCarries(v, c, u) /\ u.nth = n
        BY <3>1, <4>8, <4>9, ResponseCarriesSrv
      <4> QED
        BY <1>2, <4>7, <4>8, <4>10, Zenon DEF n
    <3>4. \A s : SrvAsks(dev[v], s) => SrvAsks(dev'[v], s)
      BY <3>1
    <3>5. \A s : Tells(dev[c], s) => Tells(dev'[c], s)
      BY <3>2
    <3>6. \A u \in net : SrvCarries(v, c, u) => \E z \in net' : SrvCarries(v, c, z) /\ z.nth = u.nth
      BY <1>4, <3>3
    <3> QED
      BY <3>1, <3>2, <3>4, <3>5, <3>6, RivalsStay
  <2> SUFFICES ASSUME NEW v \in Devices, NEW w \in Devices, Pair(v, w), Rivals(v, w)'
               PROVE  SrvKept(v, w)
    BY DEF RivalsKept
  <2>4. c = v \/ c = w
    BY <1>3 DEF Pair
  <2> QED
    BY <2>2, <2>3, <2>4
<1> QED
  BY <1>5, <1>6

LEMMA DroppedRivals ==
    ASSUME NEW m \in net, AnswerDropped(m)
    PROVE  RivalsKept
<1>1. dev' = dev /\ net' = net \ {m} /\ m.nth = Running
  BY DEF AnswerDropped
<1>2. ASSUME NEW v \in Devices, NEW w \in Devices, NEW s \in 1 .. 6, SrvChance(v, w, s)
      PROVE  SrvChance(v, w, s)'
  <2>1. \A u : SrvCarries(v, w, u)' <=> SrvCarries(v, w, u)
    BY <1>1 DEF SrvCarries
  <2>2. s # m.nth
    BY <1>1 DEF Running
  <2> QED
    BY <1>1, <1>2, <2>1, <2>2 DEF SrvChance
<1> QED
  BY <1>1, <1>2 DEF RivalsKept, SrvKept, Rivals

LEMMA NextRivals ==
    ASSUME FreeInv, NamesInv, Next, \A m \in net : ~Lose(m)
    PROVE  RivalsKept
<1>0. AllServed
  BY DEF NamesInv
<1>1. ASSUME NEW c \in Devices, NEW r, DeviceStep(c, r), ~r.service \/ SrvFresh(r)
      PROVE  RivalsKept
  BY <1>1, NoRivals DEF DeviceStep
<1>2. ASSUME NEW c \in Devices, Start(c) \/ Device(c) \/ PowerCycle(c)
      PROVE  RivalsKept
  BY <1>0, <1>1, <1>2, StartIs, QueryEndsDone, AddServiceIs, SendRivals, PowerCycleIs DEF Device
<1>3. ASSUME NEW m \in net, Receive(m)
      PROVE  RivalsKept
  <2>1. m.to \in Devices
    BY DEF FreeInv, TypeOK, Messages
  <2> QED
    BY <1>0, <1>1, <1>3, <2>1, InUseIs, HeardRivals
<1> QED
  BY <1>2, <1>3, DroppedRivals DEF Next

\* A packet that is lost was at most one chance.
LEMMA LoseRivals ==
    ASSUME InstInv, NEW m \in net, Lose(m)
    PROVE  ThreeSrvChances'
<1> SUFFICES ASSUME NEW v \in Devices, NEW w \in Devices, Pair(v, w), Rivals(v, w)'
             PROVE  lost' + Cardinality(SrvChances(v, w)') >= 3
  BY DEF ThreeSrvChances, Pair
<1>1. dev' = dev /\ net' = net \ {m} /\ lost' = lost + 1
  BY DEF Lose
<1>2. Rivals(v, w)
  BY <1>1 DEF Rivals
<1>3. ASSUME NEW s \in 1 .. 6, SrvChance(v, w, s), s # m.nth
      PROVE  SrvChance(v, w, s)'
  <2>1. \A u : SrvCarries(v, w, u)' <=> SrvCarries(v, w, u)
    BY <1>1 DEF SrvCarries
  <2> QED
    BY <1>1, <1>3, <2>1 DEF SrvChance
<1> QED
  BY <1>1, <1>2, <1>3, SrvCount

LEMMA InstInvStep ==
    ASSUME InstInv, [Next]_vars
    PROVE  InstInv'
<1>0. HostInv /\ FreeInv /\ TypeOK /\ HighestKeepsName /\ NamesInv
  BY DEF InstInv, HostInv, FreeInv
<1>1. HostInv' /\ FreeInv' /\ HighestKeepsName'
  <2>1. HostInv'
    BY <1>0, HostInvStep
  <2>2. HighestKeepsName'
    BY <1>0, HighestStep
  <2> QED
    BY <2>1, <2>2 DEF HostInv
<1>2. NamesInv'
  BY <1>0, <1>1, NamesStep
<1>3. CASE UNCHANGED vars
  <2>1. ThreeSrvChances'
    BY <1>3 DEF vars, InstInv, ThreeSrvChances, Pair, Rivals, SrvChances, SrvChance, SrvCarries
  <2> QED
    BY <1>1, <1>2, <2>1 DEF InstInv
<1>4. CASE Next
  <2>1. CASE \A m \in net : ~Lose(m)
    <3>1. lost' = lost
      BY <1>4, <2>1 DEF Next, Start, Device, QueryEnds, AddService, Send, PowerCycle, Receive,
                                AnswerDropped, bounds
    <3>2. RivalsKept
      BY <1>0, <1>4, <2>1, NextRivals
    <3>3. lost' \in Nat
      BY <1>1 DEF FreeInv, TypeOK
    <3>4. ASSUME NEW v \in Devices, NEW w \in Devices, Pair(v, w), Rivals(v, w)'
          PROVE  lost' + Cardinality(SrvChances(v, w)') >= 3
      <4>1. SrvKept(v, w) \/ SrvAhead(v, w)'
        BY <3>2, <3>4 DEF RivalsKept
      <4> QED
        BY <3>1, <3>3, <3>4, <4>1, SrvCount
    <3>5. ThreeSrvChances'
      BY <3>4 DEF ThreeSrvChances, Pair
    <3> QED
      BY <1>1, <1>2, <3>5 DEF InstInv
  <2>2. CASE \E m \in net : Lose(m)
    BY <1>1, <1>2, <2>2, LoseRivals DEF InstInv
  <2> QED
    BY <2>1, <2>2
<1> QED
  BY <1>3, <1>4

LEMMA RestInstances ==
    ASSUME InstInv
    PROVE  InstancesUnique
<1>1. ASSUME AtRest, lost <= 2, NEW v \in Up, NEW w \in Up, Pair(v, w),
             SrvBeats(dev[w].host, dev[v].host)
      PROVE  dev[v].inst # dev[w].inst
  <2>1. v \in Devices /\ w \in Devices
    BY DEF Up
  <2>2. /\ dev[v].state = 0 /\ dev[w].state = 0 /\ net = {}
        /\ dev[v].phase = "done" /\ dev[w].phase = "done"
    BY <1>1 DEF AtRest, Running
  <2>3. dev[v].service /\ dev[w].service
    BY <2>1, <2>2 DEF InstInv, NamesInv, AllServed, Served
  <2>4. SrvChances(v, w) = {}
    BY <2>2 DEF SrvChances, SrvChance, SrvAsks, Tells, Probing, Probe1, Probe3, Announce1, Announce3
  <2>5. Cardinality(SrvChances(v, w)) = 0
    BY <2>4, FS_EmptySet
  <2>6. ~(lost + Cardinality(SrvChances(v, w)) >= 3)
    BY <1>1, <2>5 DEF InstInv, HostInv, FreeInv, TypeOK
  <2>7. ~Probing(dev[w])
    BY <2>2 DEF Probing, Probe1, Probe3
  <2> QED
    BY <1>1, <2>1, <2>3, <2>6, <2>7 DEF InstInv, ThreeSrvChances, Rivals
<1>2. ASSUME AtRest, lost <= 2, NEW v \in Up, NEW w \in Up, v # w, Devices = {v, w}
      PROVE  dev[v].inst # dev[w].inst
  <2>1. dev[v].host # dev[w].host
    BY <1>2, RestUnique DEF InstInv, HostsUnique
  <2>2. dev[v].host \in Hosts /\ dev[w].host \in Hosts
    BY DEF InstInv, HostInv, FreeInv, TypeOK, Up, Records
  <2>3. Pair(v, w) /\ Pair(w, v)
    BY <1>2 DEF Pair
  <2>4. SrvBeats(dev[w].host, dev[v].host) \/ SrvBeats(dev[v].host, dev[w].host)
    BY <2>1, <2>2, BeatsOne
  <2> QED
    BY <1>1, <1>2, <2>3, <2>4
<1> QED
  BY <1>2 DEF InstancesUnique

\* Two devices that have come to rest never share an instance name unless three
\* packets were lost, although the one that probes again for its address alone
\* (check_a_collision) neither answers for its service nor announces it:
\* check_srv_collision renames the device with the lesser host name.
THEOREM InstancesUniqueTheorem == Spec => []InstancesUnique
<1>1. Init => InstInv
  <2> SUFFICES ASSUME Init
               PROVE  InstInv
    OBVIOUS
  <2>1. \A d \in Devices : dev[d] = Off
    BY DEF Init
  <2>2. /\ Off.host = NoHost /\ Off.phase = "off" /\ Off.service = FALSE /\ Off.counter = 1
        /\ Off.state = Running
    BY DEF Off
  <2>3. HostInv
    <3>1. ThreeChances
      BY <2>1, <2>2 DEF ThreeChances, SameHost
    <3> QED
      BY <3>1, InitFree DEF HostInv
  <2>4. HighestKeepsName
    BY <2>1, <2>2 DEF HighestKeepsName, NoHost, Host
  <2>5. Told = {}
    BY DEF Told, Init
  <2>6. NamesInv
    BY <2>1, <2>2, <2>5 DEF NamesInv, AllServed, Served, ToldNumber, ToldOne, NotBothPass,
         Yields, AddressOnly
  <2>7. ThreeSrvChances
    BY <2>1, <2>2 DEF ThreeSrvChances, Rivals
  <2> QED
    BY <2>3, <2>4, <2>6, <2>7 DEF InstInv
<1>2. InstInv /\ [Next]_vars => InstInv'
  BY InstInvStep
<1>3. InstInv => InstancesUnique
  BY RestInstances
<1> QED
  BY <1>1, <1>2, <1>3, PTL DEF Spec

\* Unless three packets were lost, no two devices at rest share a host name, and
\* where there are two of them, they do not share an instance name either: what
\* check_a_collision and check_srv_collision are for.
THEOREM UniqueTheorem == Spec => []UniqueAtRest
<1>1. HostsUnique /\ InstancesUnique => UniqueAtRest
  BY DEF UniqueAtRest
<1> QED
  BY <1>1, HostsUniqueTheorem, InstancesUniqueTheorem, PTL
=============================================================================
