------------------------------- MODULE MdnsProbe -------------------------------
(***************************************************************************)
(* Several devices with this firmware on one network choose their names:   *)
(* mdns_probe_task (mdns_manager.c) asks for faroldns1, faroldns2, ... and *)
(* takes the first that nobody answers for, or the last; then the library  *)
(* probes for the host and the service, announces them, and gives way in   *)
(* conflicts (mdns_receive.c, mdns_pcb.c).                                 *)
(*                                                                         *)
(* A device is its address: 2 has a higher IPv4 address than 1.  Packets   *)
(* are multicast, each copy is lost or handled on its own, in any order.   *)
(* No packet is on its way for more than one timed step of its two ends    *)
(* (probes are 250 ms apart, a query takes a second).                      *)
(*                                                                         *)
(* One interface per device, which stays up, IPv4 only, memory enough.     *)
(* The delay of a shared answer is part of its way; AnswerDropped says     *)
(* what may become of it there.  Left out for having no effect here:       *)
(* goodbyes, PTR and TXT records (there are no TXT items).                 *)
(***************************************************************************)
EXTENDS Naturals, FiniteSets

CONSTANTS
    Devices,   \* the addresses of the devices
    FreeNames, \* how many of faroldns1 to faroldns10 no other host may have
    MaxLost,   \* bound: copies of packets that get lost
    MaxCycles  \* bound: power cycles

ASSUME DevicesAssumption == Devices \subseteq Nat
ASSUME NumbersAssumption == FreeNames \subseteq Nat \ {0} /\ MaxLost \in Nat /\ MaxCycles \in Nat

VARIABLES
    dev,   \* each device
    net,   \* copies of packets on their way
    last,  \* how many names no other host has
    lost,  \* copies lost so far
    cycles \* power cycles so far

vars == <<dev, net, last, lost, cycles>>
bounds == <<last, lost, cycles>>

\* "faroldnsN" is Host(N, 1), and Host(N, K) is its K-th form "faroldnsN-K".
\* The names that other hosts have are the first ones and are passed over, as
\* they are answered for; N counts the rest.
Host(number, form) == [number |-> number, form |-> form]
NoHost == Host(0, 0)
Hosts == {NoHost} \cup [number : Nat \ {0}, form : Nat \ {0}]

\* The states of an interface: 1 to 3 probing, 4 to 6 announcing.
Running == 0
Probe1 == 1
Probe3 == 3
Announce1 == 4
Announce3 == 6

Probing(x) == x.state \in Probe1 .. Probe3
Up == {d \in Devices : dev[d].phase # "off"}

-----------------------------------------------------------------------------
(* Packets *)

\* What a device puts in a packet: its records (srv, a), with its names.  nth is
\* the state of the interface that sends it, or that sent what it answers.
Copies(d, x, kind, srv, a, nth, receivers) ==
    {[from |-> d, to |-> r, kind |-> kind, host |-> x.host, inst |-> x.inst,
      srv |-> srv, a |-> a, nth |-> nth, late |-> FALSE] : r \in receivers \ {d}}
AskFor(d, number) ==
    Copies(d, [host |-> Host(number, 1), inst |-> 0], "query", FALSE, TRUE, 0, Up)

\* A timed step of d: whatever is on its way to or from d has to arrive before
\* the next one.
InTime(d) == \A m \in net : d \in {m.from, m.to} => ~m.late
Quiet(d) == \A m \in net : d \notin {m.from, m.to}
Aged(d) == {[m EXCEPT !.late = @ \/ d \in {m.from, m.to}] : m \in net}

-----------------------------------------------------------------------------
(* Probing *)

\* mdns_priv_init_pcb_probe: the packet of the interface is dropped (answers
\* that wait: AnswerDropped), what is being probed is probed again, and the new
\* records with it.
InitProbe(x, srv, a) ==
    [x EXCEPT !.state = Probe1,
              !.srv = (Probing(x) /\ x.srv) \/ srv,
              !.a = (Probing(x) /\ x.a) \/ a]
\* mdns_priv_restart_all_pcbs and its variant for services without instance.
RestartAll(x) == InitProbe([x EXCEPT !.srv = FALSE], x.service, TRUE)
RestartNoInstance(x) == InitProbe([x EXCEPT !.srv = FALSE], TRUE, FALSE)

\* mangle_name: "-2" is appended, or the number after the dash goes up.
\* Mutant: out of memory, the name stays.
MangledNot(host) == host
Mangled(host) == [host EXCEPT !.form = @ + 1]

\* ACTION_HOSTNAME_SET.
SetHostname(x, number) ==
    RestartAll([x EXCEPT !.phase = "named", !.host = Host(number, 1)])

\* mdns_priv_pcb_schedule_tx_packet, once the packet has been sent.
\* Mutant: two probes will do.
ScheduledEarly(x) ==
    CASE x.state = Announce3 -> [x EXCEPT !.state = Running, !.srv = FALSE, !.a = FALSE]
      [] x.state = Probe1 + 1 -> [x EXCEPT !.state = Announce1, !.a = x.srv \/ x.a]
      [] OTHER -> [x EXCEPT !.state = @ + 1]
Scheduled(x) ==
    CASE x.state = Announce3 -> [x EXCEPT !.state = Running, !.srv = FALSE, !.a = FALSE]
      [] x.state = Probe3 -> [x EXCEPT !.state = Announce1, !.a = x.srv \/ x.a]
      [] OTHER -> [x EXCEPT !.state = @ + 1]

-----------------------------------------------------------------------------
(* Conflicts *)

\* check_a_collision: the higher address wins.  Mutant: the lower one.
ALoses(theirs, ours) == theirs < ours
ABeats(theirs, ours) == theirs > ours

\* check_srv_collision: the longer host name wins, then the greater.  Numbers
\* after the dash have one digit.
Length(h) == (IF h.number > 9 THEN 1 ELSE 0) + (IF h.form > 1 THEN 2 ELSE 0)
SrvBeats(theirs, ours) ==
    \/ Length(theirs) > Length(ours)
    \/ Length(theirs) = Length(ours) /\ theirs.number > ours.number
    \/ Length(theirs) = Length(ours) /\ theirs.number = ours.number /\ theirs.form > ours.form

SrvIsOurs(x, m) == m.srv /\ x.service /\ m.inst = x.inst
AIsOurs(x, m) == m.a /\ m.host = x.host

\* A service record with our instance and a host name that beats ours.
\* Mutant: only a device that probes looks for conflicts.
LosesSrv(x, m) == SrvIsOurs(x, m) /\ SrvBeats(m.host, x.host)
AfterSrvProbing(x, m) ==
    IF LosesSrv(x, m) /\ Probing(x) THEN RestartNoInstance([x EXCEPT !.inst = @ + 1]) ELSE x
AfterSrv(x, m) ==
    CASE LosesSrv(x, m) /\ Probing(x) -> RestartNoInstance([x EXCEPT !.inst = @ + 1])
      [] LosesSrv(x, m) /\ ~Probing(x) -> InitProbe(x, TRUE, FALSE)
      [] OTHER -> x

\* An address record with our host name and a higher address.
LosesA(d, x, m) == AIsOurs(x, m) /\ ABeats(m.from, d)
AfterA(d, x, m) ==
    CASE LosesA(d, x, m) /\ Probing(x) -> RestartAll([x EXCEPT !.host = Mangled(@)])
      [] LosesA(d, x, m) /\ ~Probing(x) -> InitProbe(x, FALSE, TRUE)
      [] OTHER -> x

\* mdns_priv_create_answer_from_parsed_packet: the answer to the questions of m,
\* to the prober alone when it is its first probe.
\* Mutant: only probes are answered.
ProbeQuestions(x, m) == m.kind = "probe" /\ (SrvIsOurs(x, m) \/ AIsOurs(x, m))
Questions(x, m) == m.kind # "response" /\ (SrvIsOurs(x, m) \/ AIsOurs(x, m))
Answer(d, x, m) ==
    Copies(d, x, "response", SrvIsOurs(x, m), TRUE, m.nth,
           IF m.nth = Probe1 THEN Up \cap {m.from} ELSE Up)

\* mdns_parse_packet on a device that has a name.
Resolve(d, m) ==
    LET x == dev[d]
        y == AfterSrv(x, m)
        z == AfterA(d, y, m)
        conflict == m.kind # "query"
        reply == Questions(x, m) /\ ~Probing(x)
                   /\ (conflict => ~LosesSrv(x, m) /\ ~LosesA(d, y, m))
    IN  /\ dev' = [dev EXCEPT ![d] = IF conflict THEN z ELSE x]
        /\ net' = (net \ {m}) \cup (IF reply THEN Answer(d, x, m) ELSE {})

\* mdns_query_a of a device that has none: the name is in use, try the next one.
\* Mutant: one more than there are.
NamesLeftOneMore(n) == n <= last
NamesLeft(n) == n < last
InUse(d, m) ==
    LET n == dev[d].counter
        answered == m.kind = "response" /\ m.a /\ m.host = Host(n, 1) IN
    /\ dev' = CASE ~answered -> dev
                [] answered /\ NamesLeft(n) -> [dev EXCEPT ![d].counter = n + 1]
                [] OTHER -> [dev EXCEPT ![d] = SetHostname(@, n)]
    /\ net' = (net \ {m}) \cup (IF answered /\ NamesLeft(n) THEN AskFor(d, n + 1) ELSE {})

-----------------------------------------------------------------------------
(* Steps *)

Off == [phase |-> "off", counter |-> 1, found |-> FALSE, host |-> NoHost, inst |-> 1,
        service |-> FALSE, state |-> Running, srv |-> FALSE, a |-> FALSE]
Init == dev = [d \in Devices |-> Off] /\ net = {} /\ last \in FreeNames /\ lost = 0 /\ cycles = 0

\* The network is up: mdns_probe_task asks for the first name.
Start(d) ==
    /\ dev[d].phase = "off" /\ Quiet(d)
    /\ dev' = [dev EXCEPT ![d].phase = "query"]
    /\ net' = net \cup AskFor(d, 1)
    /\ UNCHANGED bounds

\* A second without an answer: the name is free.
QueryEnds(d) ==
    /\ dev[d].phase = "query" /\ Quiet(d)
    /\ dev' = [dev EXCEPT ![d] = [SetHostname(@, @.counter) EXCEPT !.found = TRUE]]
    /\ UNCHANGED <<net, bounds>>

\* mdns_service_add.
AddService(d) ==
    /\ dev[d].phase = "named"
    /\ dev' = [dev EXCEPT ![d] = InitProbe([@ EXCEPT !.phase = "done", !.service = TRUE], TRUE, FALSE)]
    /\ UNCHANGED <<net, bounds>>

\* The packet of the interface is due: a probe, or an announcement.
Send(d) ==
    LET x == dev[d]
        kind == IF Probing(x) THEN "probe" ELSE "response" IN
    /\ x.state # Running /\ InTime(d)
    /\ dev' = [dev EXCEPT ![d] = Scheduled(x)]
    /\ net' = Aged(d) \cup Copies(d, x, kind, x.srv, x.a, x.state, Up)
    /\ UNCHANGED bounds

Receive(m) ==
    /\ IF dev[m.to].host = NoHost THEN InUse(m.to, m) ELSE Resolve(m.to, m)
    /\ UNCHANGED bounds

Lose(m) == lost < MaxLost /\ lost' = lost + 1 /\ net' = net \ {m} /\ UNCHANGED <<dev, last, cycles>>

\* An answer to a query waits 25 to 100 ms in its sender's queue, where
\* mdns_priv_init_pcb_probe finds and drops it; or the power goes first.
AnswerDropped(m) ==
    LET x == dev[m.from] IN
    /\ m.kind = "response" /\ m.nth = Running
    /\ Probing(x) \/ x.phase = "off"
    /\ net' = net \ {m} /\ UNCHANGED <<dev, bounds>>

\* The device loses power; it takes longer to boot than packets take to arrive.
PowerCycle(d) ==
    /\ dev[d].phase # "off" /\ cycles < MaxCycles /\ cycles' = cycles + 1
    /\ dev' = [dev EXCEPT ![d] = Off]
    /\ net' = {m \in net : m.to # d}
    /\ UNCHANGED <<last, lost>>

Device(d) == QueryEnds(d) \/ AddService(d) \/ Send(d)
Next == (\E d \in Devices : Start(d) \/ Device(d) \/ PowerCycle(d))
          \/ (\E m \in net : Receive(m) \/ AnswerDropped(m) \/ Lose(m))

Spec == Init /\ [][Next]_vars
\* The tasks run and what is not lost arrives; nobody need switch a device on.
FairSpec == Spec /\ WF_vars((\E d \in Devices : Device(d)) \/ \E m \in net : Receive(m))

-----------------------------------------------------------------------------
Records == [phase : {"off", "query", "named", "done"}, counter : 1 .. last,
            found : BOOLEAN, host : Hosts, inst : Nat \ {0}, service : BOOLEAN,
            state : Running .. Announce3, srv : BOOLEAN, a : BOOLEAN]
Messages == [from : Devices, to : Devices, kind : {"query", "probe", "response"},
             host : Hosts, inst : Nat, srv : BOOLEAN, a : BOOLEAN,
             nth : Running .. Announce3, late : BOOLEAN]
TypeOK ==
    /\ last \in FreeNames /\ lost \in 0 .. MaxLost /\ cycles \in 0 .. MaxCycles
    /\ dev \in [Devices -> Records] /\ net \subseteq Messages

\* When nothing is left to send or to handle and at most two copies of packets
\* were lost, no two devices have the same host name, whoever started together
\* or lost power, and also when the names ran out: of three probes, with their
\* answers, or three announcements one is heard, and the lower address gives way.
AtRest == net = {} /\ \A d \in Up : dev[d].phase = "done" /\ dev[d].state = Running
HostsUnique ==
    AtRest /\ lost <= 2 => \A d, e \in Up : d # e => dev[d].host # dev[e].host

\* Two devices have different instance names then, too.  Not three: one that
\* probes again for its address alone neither answers for its service nor
\* announces it, and who takes its instance name meanwhile is not told.
InstancesUnique ==
    AtRest /\ lost <= 2 =>
        \A d, e \in Up : d # e /\ Devices = {d, e} => dev[d].inst # dev[e].inst

\* Both: what the probing and the conflicts of the two kinds of names are for.
UniqueAtRest == HostsUnique /\ InstancesUnique

\* A device never loses its host name to one with a lower address.
HighestKeepsName == \A d \in Devices : (\A e \in Devices : e <= d) => dev[d].host.form <= 1

\* While no packet was lost, no device takes a name for free that another one
\* has announced and rests with, although it may have asked when that one was
\* still probing, when it does not answer, or was away.
FoundIsFree ==
    [][\A d, e \in Devices :
         lost = 0 /\ dev[d].phase = "done" /\ dev[d].state = Running
           /\ dev[e].host = NoHost /\ dev'[e].host = dev[d].host
             => ~dev'[e].found]_vars

\* Renaming and probing come to an end: no two devices take names from each
\* other for ever.
ComesToRest == <>[]AtRest
=============================================================================
