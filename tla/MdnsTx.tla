-------------------------------- MODULE MdnsTx --------------------------------
(***************************************************************************)
(* Probing, announcing and the transmit queue of the mDNS library:         *)
(* mdns_pcb.c (one state machine per interface), the queue of mdns_send.c, *)
(* the task and timer of mdns_service.c, the events of mdns_netif.c and    *)
(* the calls of mdns_responder.c and mdns_receive.c that drive them.       *)
(*                                                                         *)
(* The timer task scans the queue under the service lock and posts one     *)
(* action per packet that is due; the service task receives an action      *)
(* without the lock and executes it under the lock; API calls run under    *)
(* the lock; event handlers and lwIP post actions without it.  An action   *)
(* holds the ADDRESS of its packet, which may have been freed, and taken   *)
(* by another packet, when the action is executed.                         *)
(*                                                                         *)
(* IPv4 only: the firmware creates no IPv6 link-local address, so the IPv6 *)
(* half of the library stays off, and its actions only take queue slots.   *)
(* Memory never runs out.  Time is ordered, not measured: a delay is the   *)
(* number of Ticks after which the packet is due.                          *)
(*                                                                         *)
(* Lists whose order nothing depends on (services, those an interface      *)
(* probes, the questions and records of a packet) are sets; the transmit   *)
(* queue is a set that Before orders.                                      *)
(***************************************************************************)
EXTENDS Naturals, Sequences, FiniteSets, FiniteSetsExt

CONSTANTS
    Services,    \* the services the application may register
    TypeOf,      \* the service type of each, e.g. _http._tcp
    Instanced,   \* those registered with an instance name of their own
    QueueLen,    \* MDNS_ACTION_QUEUE_LEN
    FailLimit,   \* 5: with more failed probes the next one waits longer
    MaxEvents    \* how many events of the surroundings a behaviour has

Host == "host"   \* the question and the address records of the host name

\* The interfaces of mdns_netif.c that are each other's duplicate.
Ifs == {"sta", "eth"}
Other(c) == IF c = "sta" THEN "eth" ELSE "sta"

ASSUME ServicesAssumption ==
    Host \notin Services /\ Instanced \subseteq Services
ASSUME NumbersAssumption ==
    QueueLen \in Nat \ {0} /\ FailLimit \in Nat /\ MaxEvents \in Nat

VARIABLES
    link,      \* the interfaces that are up with an address
    ready,     \* s_interfaces[].ready: the interfaces that take part in mDNS
    pcb,       \* s_pcbs
    txq,       \* s_tx_queue_head: the packets to send
    services,  \* s_server->services
    named,     \* the host name is set
    inst,      \* the default instance name is set
    actq,      \* s_action_queue
    cur,       \* the action the service task has received, or NoAction
    scan,      \* mdns_priv_send_packets: address of its packet, 0 when not running
    events,    \* events of the surroundings so far
    stray      \* ghost: StoppedIsSilent has been false

tables == <<ready, pcb, txq, services, named, inst>>
vars == <<link, tables, actq, cur, scan, events, stray>>

\* mdns_pcb_state_t
Off == 0  Dup == 1
Probe1 == 3  Probe2 == 4  Probe3 == 5
Announce1 == 6  Announce3 == 8  Running == 9
States == {Off, Dup} \cup Probe1..Running

\* The two macros; note that Dup counts as probing.
IsProbing(s)    == s.state > Off /\ s.state < Announce1
IsAnnouncing(s) == s.state > Probe3 /\ s.state < Running

\* mdns_pcb.c:151 "Disable mDNS interface", :195 "stop this interface and mark as
\* dup": an interface that takes no part is off or a duplicate, and is not probing.
StoppedIsSilent == \A c \in Ifs \ ready : pcb[c].state \in {Off, Dup}

EmptyPcb == [state |-> Off, probing |-> {}, ip |-> FALSE,
             running |-> FALSE, failed |-> 0]
NoAction == [type |-> "none"]

-----------------------------------------------------------------------------
(* The transmit queue.  The functions of mdns_send.c and mdns_pcb.c work on *)
(* the tables together, so the operators take and return them as w.         *)

Addresses(Q) == {p.addr : p \in Q}
Of(Q, c) == {p \in Q : p.if = c}

\* The order of the queue: by send_at, and among equals by gen, the order in
\* which they came.
Before(p, r) == p.wait < r.wait \/ (p.wait = r.wait /\ p.gen < r.gen)
First(Q) == {p \in Q : \A r \in Q : r = p \/ Before(p, r)}

\* mdns_priv_alloc_packet: memset to zero, at an address nobody uses.
Alloc(w, taken, c, q, srv, ans) ==
    LET used == Addresses(w.txq) \cup taken
    IN  [addr |-> CHOOSE a \in (1..Cardinality(used) + 1) \ used : TRUE,
         if |-> c, wait |-> 0, gen |-> 0, queued |-> FALSE, q |-> q, srv |-> srv, ans |-> ans]

\* mdns_priv_send_after: after the packets that are not due later.
NextGen(Q, delay) == Max({p.gen : p \in {r \in Q : r.wait = delay}} \cup {0}) + 1
SendAfter(w, p, delay) ==
    [w EXCEPT !.txq = @ \cup {[p EXCEPT !.wait = delay, !.gen = NextGen(w.txq, delay)]}]

\* mdns_priv_clear_tx_queue_if
ClearTxQueueIf(w, c) == [w EXCEPT !.txq = @ \ Of(@, c)]

\* mdns_priv_create_probe_packet: one question ANY and one SRV record for each
\* service, and for the host name its question and address records.
HostIf(ip) == IF ip THEN {Host} ELSE {}
ProbePacket(w, c, svcs, ip) ==
    Alloc(w, {}, c, svcs \cup HostIf(ip), svcs \cup HostIf(ip), {})

\* mdns_priv_create_announce_packet: the addresses go in the authority section.
AnnouncePacket(w, c, svcs, ip) == Alloc(w, {}, c, {}, HostIf(ip), svcs)

\* mdns_priv_create_announce_from_probe: a service brings its host's addresses.
AnnounceFromProbe(w, p) ==
    Alloc(w, {p.addr}, p.if, {}, {}, p.srv \cup HostIf(p.srv # {}))

-----------------------------------------------------------------------------
(* mdns_pcb.c *)

\* init_probe_new_service.  The list is allocated for svcs and, while probing,
\* the services probed already; these are copied in whenever there are any.
InitProbeNewService(w, c, svcs, ip) ==
    LET all == svcs \cup w.pcb[c].probing
        withIp == w.pcb[c].ip \/ ip
        w1 == [w EXCEPT !.pcb[c] =
                 [@ EXCEPT !.state = Probe1, !.probing = all, !.ip = withIp,
                           !.running = TRUE]]
    IN  SendAfter(w1, ProbePacket(w, c, all, withIp),
                  IF w.pcb[c].failed > FailLimit THEN 2 ELSE 1)

\* mdns_priv_init_pcb_probe: services that are probed already are not listed twice.
InitPcbProbe(w, c, svcs, ip) ==
    LET w1 == ClearTxQueueIf(w, c)
    IN  IF ~w.named THEN [w1 EXCEPT !.pcb[c].state = Running]
        ELSE InitProbeNewService(w1, c, svcs, ip)

\* mdns_priv_probe_all_pcbs
ProbePcb(w, c, svcs, ip, clearOld) ==
    LET old == IF clearOld THEN [w EXCEPT !.pcb[c].probing = {}, !.pcb[c].running = FALSE] ELSE w
    IN  IF c \in w.ready THEN InitPcbProbe(old, c, svcs, ip) ELSE w
ProbeAllPcbs(w, svcs, ip, clearOld) ==
    ProbePcb(ProbePcb(w, "sta", svcs, ip, clearOld), "eth", svcs, ip, clearOld)

\* mdns_priv_restart_all_pcbs
RestartAllPcbs(w) ==
    ProbeAllPcbs([w EXCEPT !.txq = {}], w.services, TRUE, TRUE)

\* mdns_priv_pcb_announce.  While announcing, the answers join the first
\* packet of the interface in the queue, whatever that packet is.
Joined(Q, c, new) ==
    {IF p \in First(Of(Q, c)) THEN [p EXCEPT !.ans = @ \cup new] ELSE p : p \in Q}
Announce(w, c, svcs, ip) ==
    CASE c \in w.ready /\ IsProbing(w.pcb[c]) -> InitPcbProbe(w, c, svcs, ip)
      [] c \in w.ready /\ IsAnnouncing(w.pcb[c]) /\ Of(w.txq, c) # {} ->
           [w EXCEPT !.txq = Joined(@, c, svcs \cup HostIf(ip)), !.pcb[c].state = Announce1]
      [] c \in w.ready /\ w.pcb[c].state = Running /\ w.named ->
           SendAfter([w EXCEPT !.pcb[c].state = Announce1], AnnouncePacket(w, c, svcs, ip), 0)
      [] OTHER -> w

AnnounceAllPcbs(w, svcs, ip) == Announce(Announce(w, "sta", svcs, ip), "eth", svcs, ip)

Deinit(w, c) ==
    [w EXCEPT !.ready = @ \ {c}, !.pcb[c] = EmptyPcb]

\* mdns_priv_pcb_enable with restart_pcb; mdns_priv_if_init fails without link.
Enable(w, c) ==
    IF c \notin w.ready /\ c \notin link THEN [w EXCEPT !.pcb[c].failed = 0]
    ELSE InitPcbProbe([w EXCEPT !.ready = @ \cup {c}], c, w.services, TRUE)

\* mdns_priv_pcb_disable: a duplicate is called back.  Mutant: it is not.
DisableAlone(w, c) ==
    LET w1 == Deinit(ClearTxQueueIf(w, c), c)
    IN  [(IF c \in w.ready THEN w1 ELSE w) EXCEPT !.pcb[c].state = Off]
Disable(w, c) ==
    LET o  == Other(c)
        w1 == Deinit(ClearTxQueueIf(w, c), c)
        w2 == IF w1.pcb[o].state = Dup
              THEN Enable([w1 EXCEPT !.pcb[o].state = Off], o) ELSE w1
    IN  [(IF c \in w.ready THEN w2 ELSE w) EXCEPT !.pcb[c].state = Off]

\* mdns_priv_pcb_set_duplicate
SetDuplicate(w, c) ==
    LET w1 == IF c \in w.ready THEN Deinit(ClearTxQueueIf(w, c), c) ELSE w
    IN  IF Other(c) \notin w.ready THEN w
        ELSE Announce([w1 EXCEPT !.pcb[c].state = Dup], Other(c), {}, TRUE)

\* mdns_priv_pcb_schedule_tx_packet, after the packet was sent.  Mutants: the
\* last probe does not free the list; an announcement is not queued again.
ScheduleKeepsList(w, p) ==
    IF w.pcb[p.if].state = Probe3
    THEN SendAfter([w EXCEPT !.pcb[p.if].state = @ + 1], AnnounceFromProbe(w, p), 1)
    ELSE IF w.pcb[p.if].state \in {Probe1, Probe2, Announce1, Announce1 + 1}
    THEN SendAfter([w EXCEPT !.pcb[p.if].state = @ + 1], p, 1)
    ELSE IF w.pcb[p.if].state = Announce3
    THEN [w EXCEPT !.pcb[p.if].state = Running] ELSE w
ScheduleOnce(w, p) ==
    IF w.pcb[p.if].state \in Announce1..Announce3
    THEN [w EXCEPT !.pcb[p.if].state = @ + 1]
    ELSE IF w.pcb[p.if].state = Probe3
    THEN SendAfter([w EXCEPT !.pcb[p.if] = [EmptyPcb EXCEPT !.state = Announce1]],
                   AnnounceFromProbe(w, p), 1)
    ELSE IF w.pcb[p.if].state \in {Probe1, Probe2}
    THEN SendAfter([w EXCEPT !.pcb[p.if].state = @ + 1], p, 1) ELSE w
Schedule(w, p) ==
    LET c == p.if
        Advance(v) == [v EXCEPT !.pcb[c].state = @ + 1]
    IN  CASE w.pcb[c].state \in {Probe1, Probe2} -> Advance(SendAfter(w, p, 1))
          [] w.pcb[c].state = Probe3 ->
               LET w1 == [w EXCEPT !.pcb[c] = [EmptyPcb EXCEPT !.state = Probe3]]
               IN  Advance(SendAfter(w1, AnnounceFromProbe(w, p), 1))
          [] w.pcb[c].state \in {Announce1, Announce1 + 1} ->
               Advance(SendAfter(w, p, 2))
          [] w.pcb[c].state = Announce3 -> [w EXCEPT !.pcb[c].state = Running]
          [] OTHER -> w

\* mdns_priv_pcb_check_probing_services for service s, removedAnswers when a
\* packet of c lost its last answer.
CheckProbingServices(b, s, removedAnswers) ==
    LET rest == b.probing \ {s} IN
    CASE IsProbing(b) /\ s \in b.probing ->
           [b EXCEPT !.probing = rest, !.running = @ /\ (rest # {} \/ b.ip),
                     !.state = IF rest = {} /\ ~b.ip THEN Running ELSE @]
      [] IsAnnouncing(b) /\ removedAnswers -> [b EXCEPT !.state = Running]
      [] OTHER -> b

\* mdns_priv_remove_scheduled_service_packets, a packet of the queue Q: the
\* answers of s go and, when c was probing s, from its first packet one
\* question for a service of the TYPE of s (which of those, nothing depends on).
Alike(q, s) == {t \in q \ {Host} : TypeOf[t] = TypeOf[s]}
Stripped(w, p, s) ==
    LET c == p.if
        asks == /\ c \in w.ready /\ IsProbing(w.pcb[c]) /\ s \in w.pcb[c].probing
                /\ p \in First(Of(w.txq, c)) /\ Alike(p.q, s) # {}
    IN  [p EXCEPT !.ans = @ \ {s}, !.srv = @ \ {s},
                  !.q = IF asks THEN @ \ {CHOOSE t \in Alike(@, s) : TRUE} ELSE @]
RemoveScheduledPackets(w, s) ==
    LET Check(c) ==
            LET mine == Of(w.txq, c)
            IN  IF c \in w.ready /\ mine # {}
                THEN CheckProbingServices(w.pcb[c], s, \E p \in mine : p.ans = {s})
                ELSE w.pcb[c]
    IN  [w EXCEPT !.pcb = [c \in Ifs |-> Check(c)],
                  !.txq = {p \in {Stripped(w, r, s) : r \in @} : p.q \cup p.srv \cup p.ans # {}}]

\* handle_packet: dispatch and schedule, or drop when the interface is off.
HandlePacket(w, p) ==
    IF w.pcb[p.if].state = Off THEN w ELSE Schedule(w, p)

\* send_packet: only the head of the queue, and only when it is marked queued.
SendPacket(w, addr) ==
    LET head == {p \in First(w.txq) : p.addr = addr /\ p.queued}
        p == CHOOSE r \in head : TRUE
    IN  IF head = {} THEN w
        ELSE HandlePacket([w EXCEPT !.txq = @ \ {p}], [p EXCEPT !.queued = FALSE])

-----------------------------------------------------------------------------
(* Packets that arrive, as far as they change what is sent (mdns_receive.c) *)

\* Asked(t): a query for t, answered later because the answer is shared.
\* Lost(t): another device claims t and wins.  Twin: our own name with the
\* address of our other interface.
Asked(t) == [ev |-> "asked", of |-> t]
Lost(t)  == [ev |-> "lost", of |-> t]
Twin     == [ev |-> "twin", of |-> Host]
Arrivals == {Asked(t) : t \in Services} \cup {Lost(t) : t \in Services \cup {Host}}
            \cup {Twin}

\* What mdns_parse_packet does with one that arrived on interface c.  A probe
\* that was lost changes the name: of the service, of all the services
\* without an instance name, or of the host.
ReceivePacket(w, c, a) ==
    LET ours == w.named /\ a.of \in w.services \cup {Host}
        w1 == [w EXCEPT !.pcb[c].failed = IF @ > FailLimit THEN @ ELSE @ + 1]
        noInstance == w.services \ Instanced
        Rename == CASE a.of = Host -> RestartAllPcbs(w1)
                    [] a.of \in Instanced -> ProbeAllPcbs(w1, {a.of}, FALSE, FALSE)
                    [] a.of \notin Instanced \cup {Host} /\ w.inst ->
                         ProbeAllPcbs(w1, noInstance, FALSE, TRUE)
                    [] OTHER -> RestartAllPcbs(w1)
    IN  CASE ~ours -> w
          [] ours /\ a.ev = "asked" ->
               IF w.pcb[c].state <= Probe3 THEN w
               ELSE SendAfter(w, Alloc(w, {}, c, {}, {}, {a.of}), 0)
          [] ours /\ a.ev = "lost" ->
               IF w.pcb[c].running THEN Rename
               ELSE InitPcbProbe(w, c, {a.of} \ {Host}, a.of = Host)
          [] OTHER -> SetDuplicate(w, c)

-----------------------------------------------------------------------------
(* Actions *)

Tables == [ready |-> ready, pcb |-> pcb, txq |-> txq, services |-> services,
           named |-> named, inst |-> inst]
SetTables(new) ==
    \E w \in {new} :
      /\ ready' = w.ready /\ pcb' = w.pcb /\ txq' = w.txq /\ services' = w.services
      /\ named' = w.named /\ inst' = w.inst

\* mdns_priv_queue_action: with a full queue the action is gone.  Mutant: the
\* caller waits for a place.
PostAnyway(q, a) == Append(q, a)
Post(q, a) == IF Len(q) < QueueLen THEN Append(q, a) ELSE q

\* The surroundings move MaxEvents times.
Moves == events < MaxEvents /\ events' = events + 1

\* handle_system_event_for_preset.  The actions for IPv6 do nothing here.
NetifEvent(c) ==
    /\ Moves
    /\ IF c \in link
       THEN /\ link' = link \ {c}
            /\ actq' = Post(Post(actq, [type |-> "disable", if |-> c]), [type |-> "ipv6"])
       ELSE /\ link' = link \cup {c}
            /\ LET q == Post(actq, [type |-> "enable", if |-> c])
               IN  actq' = IF c = "sta" THEN Post(q, [type |-> "ipv6"]) ELSE q
    /\ UNCHANGED <<tables, cur, scan, stray>>

\* mdns_netif_action and IP_EVENT_GOT_IP6: announce again
AnnounceEvent(c) ==
    /\ Moves
    /\ actq' = Post(actq, [type |-> "announce", if |-> c])
    /\ UNCHANGED <<link, tables, cur, scan, stray>>

\* receive and send_rx_action of mdns_networking_lwip.c
PacketArrives(c) ==
    /\ Moves /\ c \in ready \cap link
    /\ \E a \in Arrivals :
         /\ a = Twin => Other(c) \in link
         /\ actq' = Post(actq, [type |-> "rx", if |-> c, a |-> a])
    /\ UNCHANGED <<link, tables, cur, scan, stray>>

\* mdns_hostname_set, mdns_instance_name_set.  The first host name is no move of
\* the surroundings, so that all of them can follow it; one later has the effect
\* of a name that was lost.
SetName(type) ==
    /\ \/ type = "hostname" /\ ~named /\ actq = <<>> /\ cur = NoAction /\ UNCHANGED events
       \/ type = "instance" /\ ~inst /\ Moves
    /\ actq' = Post(actq, [type |-> type])
    /\ UNCHANGED <<link, tables, cur, scan, stray>>

Unlocked == scan = 0

\* mdns_service_add_for_host
AddService(s) ==
    /\ Moves /\ Unlocked /\ named /\ s \notin services
    /\ SetTables(ProbeAllPcbs([Tables EXCEPT !.services = @ \cup {s}], {s}, FALSE, FALSE))
    /\ UNCHANGED <<link, actq, cur, scan, stray>>

\* mdns_service_port_set_for_host (with the address), mdns_service_txt_set_for_host
UpdateService(s, ip) ==
    /\ Moves /\ Unlocked /\ s \in services
    /\ SetTables(AnnounceAllPcbs(Tables, {s}, ip))
    /\ UNCHANGED <<link, actq, cur, scan, stray>>

\* mdns_service_remove_for_host
RemoveService(s) ==
    /\ Moves /\ Unlocked /\ s \in services
    /\ SetTables(RemoveScheduledPackets([Tables EXCEPT !.services = @ \ {s}], s))
    /\ UNCHANGED <<link, actq, cur, scan, stray>>

\* service_task: xQueueReceive, before the lock
ReceiveAction ==
    /\ cur = NoAction /\ actq # <<>>
    /\ cur' = Head(actq) /\ actq' = Tail(actq)
    /\ UNCHANGED <<link, tables, scan, events, stray>>

\* execute_action, under the lock
Effect(w, a) ==
    CASE a.type = "enable"   -> Enable(w, a.if)
      [] a.type = "disable"  -> Disable(w, a.if)
      [] a.type = "announce" -> Announce(w, a.if, {}, TRUE)
      [] a.type = "rx"       -> ReceivePacket(w, a.if, a.a)
      [] a.type = "tx"       -> SendPacket(w, a.addr)
      [] a.type = "hostname" -> RestartAllPcbs([w EXCEPT !.named = TRUE])
      [] a.type = "instance" ->
           LET free == w.services \ Instanced
               w1 == [w EXCEPT !.inst = TRUE]
           IN  IF free = {} THEN w1 ELSE ProbeAllPcbs(w1, free, FALSE, TRUE)
      [] OTHER -> w

ExecuteAction ==
    /\ cur # NoAction /\ Unlocked
    /\ SetTables(Effect(Tables, cur))
    /\ cur' = NoAction
    /\ stray' = (stray \/ ~StoppedIsSilent')
    /\ UNCHANGED <<link, actq, scan, events>>

\* timer_cb, mdns_priv_send_packets: takes the lock and finds the first packet
\* that is not queued, if that one is due.
BeginScan ==
    /\ Unlocked
    /\ \E p \in First({r \in txq : ~r.queued}) : p.wait = 0 /\ scan' = p.addr
    /\ UNCHANGED <<link, tables, actq, cur, events, stray>>

\* One turn of its loop: post the packet at scan, go on to the next while due.
ScanPacket ==
    \E p \in txq :
      /\ p.addr = scan
      /\ actq' = Post(actq, [type |-> "tx", addr |-> scan])
      /\ txq' = (txq \ {p}) \cup {[p EXCEPT !.queued = Len(actq) < QueueLen]}
      /\ LET next == First({r \in txq : Before(p, r)})
         IN  scan' \in IF \E r \in next : r.wait = 0 THEN Addresses(next) ELSE {0}
      /\ UNCHANGED <<link, ready, pcb, services, named, inst, cur, events, stray>>

\* The library's own work takes no time worth counting.
Tick ==
    /\ actq = <<>> /\ cur = NoAction /\ Unlocked
    /\ txq # {} /\ \A p \in txq : p.wait > 0
    /\ txq' = {[p EXCEPT !.wait = @ - 1] : p \in txq}
    /\ UNCHANGED <<link, ready, pcb, services, named, inst, actq, cur, scan, events, stray>>

\* mdns_priv_netif_init enables the interfaces that have an address; without a
\* host name they go to Running at once.
Init ==
    /\ link \in SUBSET Ifs /\ ready = link
    /\ pcb = [c \in Ifs |-> [EmptyPcb EXCEPT !.state = IF c \in link THEN Running ELSE Off]]
    /\ txq = {} /\ services = {} /\ named = FALSE /\ inst = FALSE
    /\ actq = <<>> /\ cur = NoAction /\ scan = 0 /\ events = 0 /\ stray = FALSE

Surroundings ==
    \/ \E c \in Ifs : NetifEvent(c) \/ AnnounceEvent(c) \/ PacketArrives(c)
    \/ SetName("hostname") \/ SetName("instance")
    \/ \E s \in Services :
         AddService(s) \/ RemoveService(s) \/ \E ip \in BOOLEAN : UpdateService(s, ip)
ServiceTask == ReceiveAction \/ ExecuteAction
Timer == BeginScan \/ ScanPacket
Next == Surroundings \/ ServiceTask \/ Timer \/ Tick

Spec == Init /\ [][Next]_vars
\* The timer of 100 ms leaves the lock to the service task in between.  Only
\* ExecuteAction makes an Executed step.
Executed == cur # NoAction /\ Unlocked /\ cur' = NoAction
FairSpec ==
    /\ Spec /\ WF_vars(ReceiveAction) /\ SF_cur(Executed)
    /\ WF_vars(Timer) /\ WF_vars(Tick)

-----------------------------------------------------------------------------
(* Properties *)

Subjects == Services \cup {Host}
PcbState == [state : States, probing : SUBSET Services, ip : BOOLEAN,
             running : BOOLEAN, failed : 0..FailLimit + 1]
Packet == [addr : Nat \ {0}, if : Ifs, wait : 0..2, gen : Nat, queued : BOOLEAN,
           q : SUBSET Subjects, srv : SUBSET Subjects, ans : SUBSET Subjects]
Action ==
    [type : {"enable", "disable", "announce"}, if : Ifs]
    \cup [type : {"ipv6", "hostname", "instance"}]
    \cup [type : {"rx"}, if : Ifs, a : Arrivals]
    \cup [type : {"tx"}, addr : Nat \ {0}]

\* Every variable has its type, two packets never share an address, and the
\* timer, which holds the lock, is at a packet that is in the queue.
TypeOK ==
    /\ link \subseteq Ifs /\ ready \subseteq Ifs /\ pcb \in [Ifs -> PcbState]
    /\ txq \subseteq Packet /\ IsFiniteSet(txq) /\ services \subseteq Services
    /\ \A p, r \in txq : p.addr = r.addr => p = r
    /\ named \in BOOLEAN /\ inst \in BOOLEAN /\ stray \in BOOLEAN
    /\ actq \in Seq(Action) /\ Len(actq) <= QueueLen /\ cur \in Action \cup {NoAction}
    /\ scan \in {0} \cup Addresses(txq) /\ events \in 0..MaxEvents

\* init_probe_new_service sizes its new list for the services it is given, and
\* for those probed already only while the interface is probing; but it copies
\* the old list whenever there is one (mdns_pcb.c:342,361).  So an interface
\* that is not probing must have no list, or the copy writes past the end.
ProbeListFits == \A c \in Ifs : pcb[c].probing # {} => IsProbing(pcb[c])

\* An interface that probes has exactly one packet in the queue, and one that
\* announces has at least one: its state machine is moved only by the packets
\* it sends (mdns_priv_pcb_schedule_tx_packet), so without a packet it would
\* stand still for ever.
AlwaysAPacket ==
    \A c \in ready :
        /\ pcb[c].state \in Probe1..Probe3 => \E p \in txq : Of(txq, c) = {p}
        /\ IsAnnouncing(pcb[c]) => Of(txq, c) # {}

\* The records a queued packet carries point to services: none of them may be
\* one that mdns_service_remove has freed (mdns_send.c, remove_scheduled_...).
RecordsLive ==
    \A p \in txq : (p.srv \cup p.ans) \ {Host} \subseteq services

\* A duplicate interface is silent, and the other one, for which it made room,
\* takes part: the two are never both silent for the sake of each other.
DuplicateHasTwin ==
    \A c \in Ifs : pcb[c].state = Dup => c \notin ready /\ Other(c) \in ready

\* Memory the sender reaches is there and large enough, as long as no interface
\* has been probing while it takes no part (see StoppedIsSilent).
MemorySafe == ~stray => ProbeListFits /\ RecordsLive

\* No interface waits for what nobody will do.
NoInterfaceStuck == AlwaysAPacket /\ DuplicateHasTwin

\* The action posted for the packet at addr has not been executed yet.
Pending(addr) ==
    LET tx == [type |-> "tx", addr |-> addr]
    IN  cur = tx \/ \E i \in DOMAIN actq : actq[i] = tx

\* The head of the queue is marked as posted but its action was dropped or
\* passed over: the timer skips it, and nothing behind it is ever sent.
Wedged == \E p \in First(txq) : p.queued /\ ~Pending(p.addr)

\* An interface that takes part gets to the end of probing and announcing, or
\* leaves, unless the head of the queue is wedged or the action queue is full
\* again and again when the timer posts to it.
Settles ==
    <>[](Len(actq) < QueueLen) =>
        \A c \in Ifs :
            (c \in ready /\ pcb[c].state # Running)
                ~> (c \notin ready \/ pcb[c].state = Running \/ Wedged)
=============================================================================
