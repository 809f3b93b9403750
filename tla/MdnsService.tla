------------------------------ MODULE MdnsService ------------------------------
(***************************************************************************)
(* The responder's table (mdns_responder.c): the hostname, the default     *)
(* instance, the delegated hosts and the services, their TXT items and     *)
(* subtypes.                                                               *)
(*                                                                         *)
(* Services are edited by the calls of any task under the service lock,    *)
(* each in one step; names are changed by actions that a call posts to the *)
(* service task, some of them while the caller waits for the one semaphore *)
(* action_sema; and a conflict on the network renames what it hits.  A     *)
(* packet takes the same queue, but its place there does not matter here.  *)
(* What a call tells the network (a probe, an announcement or a goodbye)   *)
(* is kept as the set of services it names; MdnsTx has what becomes of it. *)
(*                                                                         *)
(* Names differ even when their case is ignored.  A call that is refused   *)
(* or finds no service changes nothing and is left out, except where       *)
(* memory runs out halfway; remapping a name always finds memory.          *)
(***************************************************************************)
EXTENDS Naturals, Sequences, FiniteSets, SequencesExt, FiniteSetsExt

CONSTANTS
    Callers,       \* tasks that call mdns_hostname_set or mdns_delegate_hostname_add
    Names,         \* hostnames
    Instances,     \* instance names
    None,          \* NULL
    Mangled,       \* mangle_name, on Names and Instances
    Delegates,     \* hostnames that are delegated
    Types,         \* service and protocol
    Ports,
    TxtLists,      \* arrays of TXT items given to a call
    SubtypeLists,  \* arrays of subtypes given to a call
    MaxServices,   \* MDNS_MAX_SERVICES
    QueueLen       \* MDNS_ACTION_QUEUE_LEN

ASSUME NumbersAssumption == MaxServices \in Nat \ {0} /\ QueueLen \in Nat \ {0}
ASSUME NamesAssumption ==
    /\ None \notin Names \cup Instances /\ Delegates \subseteq Names
    /\ \A n \in Names : Mangled[n] \in Names
    /\ \A i \in Instances : Mangled[i] \in Instances
\* TXT items and subtypes that a call may be given
Items == UNION {ToSet(txt) : txt \in TxtLists}
Subtypes == UNION {ToSet(list) : list \in SubtypeLists}
ASSUME ListsAssumption ==
    TxtLists \subseteq Seq(Items) /\ SubtypeLists \subseteq Seq(Subtypes)

VARIABLES
    host,       \* s_server->hostname
    inst,       \* s_server->instance
    delegated,  \* s_server->host_list: which hosts, and whether they have addresses
    services,   \* s_server->services; at is the address, own (ghost) tells that
                \* the service was added without a hostname
    actq,       \* s_action_queue
    sema,       \* action_sema is given
    caller,     \* what each caller waits for
    lock,       \* "free" between calls, or "lost"
    last        \* ghost: result of the last call or action, and the services it
                \* named to the network

hosts == <<host, inst, delegated>>
task == <<actq, sema, caller>>
vars == <<host, inst, delegated, services, actq, sema, caller, lock, last>>

NoAction == [type |-> "none"]
Idle == [type |-> "none"]
At == {s.at : s \in ToSet(services)}
Reports(code, told) == last' = [code |-> code, told |-> told]

-----------------------------------------------------------------------------
(* Finding services *)

Default == IF inst # None THEN inst ELSE host
Effective(i) == IF i = None THEN Default ELSE i

\* mdns_utils_service_match, _match_instance: None matches every instance and
\* every host.
Match(s, q) ==
    /\ s.type = q.type
    /\ q.inst # None => Effective(s.inst) = q.inst
    /\ q.host # None => s.host = q.host
Find(q) == SelectInSeq(services, LAMBDA s : Match(s, q))

\* hostname = host ? host : s_server->hostname
Local(q) == [q EXCEPT !.host = IF @ = None THEN host ELSE @]
Queries == [type : Types, inst : Instances \cup {None}, host : Names \cup {None}]

IsOurs(n) == n = host \/ n \in DOMAIN delegated
Selfhosted(s) == s.host = host
NoInstance == {s.at : s \in {t \in ToSet(services) : t.inst = None}}

\* Lookup of own or delegated services, newest last: lookup_service walks the
\* table and stops only after a result, and gives nothing when one of the
\* services on its way has a host without addresses.  Mutant: max_results is
\* looked at first.
Wanted(s, q, self) ==
    /\ Selfhosted(s) = self /\ s.type = q.type
    /\ q.inst # None => Effective(s.inst) = q.inst
HasAddress(n) == n \in DOMAIN delegated /\ delegated[n]
NothingYet == [found |-> <<>>, stop |-> FALSE]
Blocked == [found |-> <<>>, stop |-> TRUE]
\* One service more, after those that made r.
LookupOneNone(r, s, q, max, self) ==
    IF r.stop \/ Len(r.found) >= max \/ ~Wanted(s, q, self) THEN r
    ELSE IF ~self /\ ~HasAddress(s.host) THEN Blocked
    ELSE [found |-> <<s>> \o r.found, stop |-> FALSE]
LookupOne(r, s, q, max, self) ==
    IF r.stop \/ ~Wanted(s, q, self) THEN r
    ELSE IF ~self /\ ~HasAddress(s.host) THEN Blocked
    ELSE [found |-> <<s>> \o r.found, stop |-> Len(r.found) + 1 >= max]
LookupWalk(q, max, self) ==
    LET walk[i \in 0..Len(services)] ==
          IF i = 0 THEN NothingYet ELSE LookupOne(walk[i - 1], services[i], q, max, self)
    IN  walk
Lookup(q, max, self) == LookupWalk(q, max, self)[Len(services)].found

-----------------------------------------------------------------------------
(* Calls that edit the services under the lock *)

Call == lock = "free" /\ UNCHANGED <<hosts, task>>
\* A call on the service at position i: what becomes of it, what is told.
Edit(i, s, code) ==
    /\ services' = [services EXCEPT ![i] = s]
    /\ Reports(code, {s.at}) /\ UNCHANGED lock

\* The first n items of an array in the order of a linked list; n < Len(items)
\* when memory ran out, which allocate_txt tells nobody.
Linked(items, n) == Reverse(SubSeq(items, 1, n))

\* mdns_service_add_for_host.  Without memory for its instance the service is
\* added without one.  Mutant: the services are not counted.
AddUncounted(q, port, txt) ==
    /\ Call /\ host # None /\ Find(Local(q)) = 0
    /\ LET s == [at |-> Len(services) + 1, type |-> q.type, inst |-> q.inst, host |-> Local(q).host,
                 own |-> q.host = None, port |-> port, txt |-> Linked(txt, Len(txt)), sub |-> <<>>]
       IN  services' = <<s>> \o services /\ Reports("ok", {s.at}) /\ UNCHANGED lock
ServiceAdd(q, port, txt) ==
    /\ Call /\ host # None /\ Len(services) < MaxServices /\ Find(Local(q)) = 0
    /\ \/ \E n \in (IF txt = <<>> THEN 0 ELSE 1)..Len(txt), i \in {q.inst, None} :
            LET s == [at |-> Min((1..MaxServices) \ At), type |-> q.type, inst |-> i,
                      host |-> Local(q).host, own |-> q.host = None, port |-> port,
                      txt |-> Linked(txt, n), sub |-> <<>>]
            IN  services' = <<s>> \o services /\ Reports("ok", {s.at}) /\ UNCHANGED lock
       \/ Reports("no_mem", {}) /\ UNCHANGED <<services, lock>>

ServiceRemove(q) ==
    LET i == Find(Local(q)) IN
    /\ Call /\ i # 0
    /\ services' = RemoveAt(services, i)
    /\ Reports("ok", {services[i].at}) /\ UNCHANGED lock

ServiceRemoveAll ==
    /\ Call /\ services # <<>>
    /\ services' = <<>> /\ Reports("ok", At) /\ UNCHANGED lock

\* mdns_service_port_set_for_host.  Mutant: without the announcement.
PortSetQuietly(q, port) ==
    LET i == Find(Local(q)) IN
    /\ Call /\ i # 0
    /\ services' = [services EXCEPT ![i].port = port]
    /\ Reports("ok", {}) /\ UNCHANGED lock
PortSet(q, port) ==
    LET i == Find(Local(q)) IN
    /\ Call /\ i # 0 /\ Edit(i, [services[i] EXCEPT !.port = port], "ok")

\* mdns_service_instance_name_set_for_host: a failing strndup has lost the old
\* name, too.
InstanceNameSet(q, name) ==
    LET i == Find(Local(q)) IN
    /\ Call /\ i # 0
    /\ \/ Edit(i, [services[i] EXCEPT !.inst = name], "ok")
       \/ Edit(i, [services[i] EXCEPT !.inst = None], "no_mem")

\* mdns_service_txt_set_for_host: without memory for the first item it returns
\* with the lock in its hands.
TxtSet(q, txt) ==
    LET i == Find(Local(q)) IN
    /\ Call /\ i # 0
    /\ \/ \E n \in (IF txt = <<>> THEN 0 ELSE 1)..Len(txt) :
            Edit(i, [services[i] EXCEPT !.txt = Linked(txt, n)], "ok")
       \/ txt # <<>> /\ lock' = "lost" /\ Reports("no_mem", {}) /\ UNCHANGED services

KeyAt(txt, key) == SelectInSeq(txt, LAMBDA t : t.key = key)
\* mdns_service_txt_item_set_for_host_with_explicit_value_len: the first item
\* with the key takes the value, else an item is put in front.  Mutant: always.
WithItemInFront(txt, item) == <<item>> \o txt
WithItem(txt, item) ==
    LET k == KeyAt(txt, item.key) IN
    IF k # 0 THEN [txt EXCEPT ![k] = item] ELSE <<item>> \o txt
TxtItemSet(q, item) ==
    LET i == Find(Local(q)) IN
    /\ Call /\ i # 0
    /\ \/ Edit(i, [services[i] EXCEPT !.txt = WithItem(@, item)], "ok")
       \/ Reports("no_mem", {}) /\ UNCHANGED <<services, lock>>

\* mdns_service_txt_item_remove_for_host: the first item with the key goes; the
\* rest is announced even when there is none, but not when the list is empty.
TxtItemRemove(q, key) ==
    LET i == Find(Local(q)) IN
    /\ Call /\ i # 0
    /\ LET k == KeyAt(services[i].txt, key)
       IN  \/ /\ services[i].txt # <<>>
              /\ Edit(i, [services[i] EXCEPT !.txt = IF k = 0 THEN @ ELSE RemoveAt(@, k)], "ok")
           \/ services[i].txt = <<>> /\ Reports("ok", {}) /\ UNCHANGED <<services, lock>>

\* service_subtype_add_for_host, item after item: the first one that is there
\* already ends the call with what was added before it.
FirstDouble(sub, items) ==
    Min({j \in 1..Len(items) : items[j] \in ToSet(sub) \cup ToSet(SubSeq(items, 1, j - 1))}
        \cup {Len(items) + 1})

\* Memory runs out at an item before that: the items before it are looked for
\* by their names, one after the other, and taken out of the list that they
\* were added to.  Mutant: so is every item of the array.
RollbackAll(list, items, n) ==
    LET back[idx \in 0..Len(items)] ==
          IF idx = 0 THEN list ELSE RemoveFirst(back[idx - 1], items[idx])
    IN  back[Len(items)]
Rollback(list, items, n) ==
    LET back[idx \in 0..n] ==
          IF idx = 0 THEN list ELSE RemoveFirst(back[idx - 1], items[idx])
    IN  back[n]

AddSubtypes(i, sub, items, told) ==
    LET j == FirstDouble(sub, items)
        Grown(n) == Linked(items, n) \o sub
        With(list) == [services EXCEPT ![i].sub = list]
    IN  \/ j > Len(items) /\ Edit(i, [services[i] EXCEPT !.sub = Grown(j - 1)], "ok")
        \/ /\ j <= Len(items)
           /\ services' = With(Grown(j - 1))
           /\ Reports("invalid", told) /\ UNCHANGED lock
        \/ \E n \in 0..Min({j - 2, Len(items) - 1}) :
             /\ services' = With(Rollback(Grown(n), items, n))
             /\ Reports("no_mem", told) /\ UNCHANGED lock

\* mdns_service_subtype_add_multiple_items_for_host does not put the own
\* hostname in the place of NULL, nor do the two calls after it.
SubtypeAdd(q, items) ==
    LET i == Find(q) IN
    /\ Call /\ i # 0 /\ items # <<>> /\ AddSubtypes(i, services[i].sub, items, {})

\* service_subtype_remove_for_host: the goodbye needs memory.
SubtypeRemove(q, sub) ==
    LET i == Find(q) IN
    /\ Call /\ i # 0 /\ sub \in ToSet(services[i].sub)
    /\ services' = [services EXCEPT ![i].sub = RemoveFirst(@, sub)]
    /\ Reports("ok", {services[i].at}) \/ Reports("no_mem", {})
    /\ UNCHANGED lock

\* mdns_service_subtype_update_multiple_items_for_host: a goodbye to what is
\* not in the array, then the list is built anew from nothing.
SubtypeUpdate(q, items) ==
    LET i == Find(q)
        bye == IF ToSet(services[i].sub) \subseteq ToSet(items) THEN {} ELSE {services[i].at}
    IN  /\ Call /\ i # 0
        /\ \/ /\ items # <<>> /\ AddSubtypes(i, <<>>, items, bye)
           \/ /\ items = <<>> /\ services' = [services EXCEPT ![i].sub = <<>>]
              /\ Reports("ok", bye) /\ UNCHANGED lock

Calls ==
    \/ ServiceRemoveAll
    \/ \E q \in Queries :
         \/ ServiceRemove(q)
         \/ \E p \in Ports : PortSet(q, p) \/ \E txt \in TxtLists : ServiceAdd(q, p, txt)
         \/ \E n \in Instances : InstanceNameSet(q, n)
         \/ \E txt \in TxtLists :
              \/ TxtSet(q, txt)
              \/ \E item \in ToSet(txt) : TxtItemSet(q, item) \/ TxtItemRemove(q, item.key)
         \/ \E items \in SubtypeLists :
              \/ SubtypeAdd(q, items) \/ SubtypeUpdate(q, items)
              \/ \E sub \in ToSet(items) : SubtypeRemove(q, sub)

-----------------------------------------------------------------------------
(* Calls that post an action; with a full queue they return ESP_ERR_NO_MEM *)

Post(a) ==
    /\ Len(actq) < QueueLen /\ actq' = Append(actq, a)
    /\ UNCHANGED <<hosts, services, sema, lock, last>>

InstanceSet(n) == host # None /\ Post([type |-> "instance_set", name |-> n]) /\ UNCHANGED caller
DelegateRemove(n) == Post([type |-> "delegate_remove", name |-> n]) /\ UNCHANGED caller
DelegateSetAddress(n, addr) ==
    Post([type |-> "delegate_set_addr", name |-> n, addr |-> addr]) /\ UNCHANGED caller

\* mdns_hostname_set and mdns_delegate_hostname_add wait for the semaphore.
PostAndWait(c, a) ==
    /\ caller[c] = Idle /\ Post(a)
    /\ caller' = [caller EXCEPT ![c] = a]
HostnameSet(c, n) == PostAndWait(c, [type |-> "hostname_set", name |-> n])
DelegateAdd(c, n, addr) == PostAndWait(c, [type |-> "delegate_add", name |-> n, addr |-> addr])

WaitEnds(c) ==
    /\ caller[c] # Idle /\ sema
    /\ sema' = FALSE /\ caller' = [caller EXCEPT ![c] = Idle]
    /\ UNCHANGED <<hosts, services, actq, lock, last>>

Posts ==
    \/ \E n \in Instances : InstanceSet(n)
    \/ \E n \in Delegates : DelegateRemove(n) \/ \E a \in BOOLEAN : DelegateSetAddress(n, a)
    \/ \E c \in Callers :
         \/ \E n \in Names : HostnameSet(c, n)
         \/ \E n \in Delegates, a \in BOOLEAN : DelegateAdd(c, n, a)

-----------------------------------------------------------------------------
(* The service task *)

\* The task takes an action from the queue, then the lock, and executes it.
\* Between the two the queue has room for one action more, which QueueLen
\* counts.
cur == IF actq = <<>> THEN NoAction ELSE Head(actq)
\* mdns_priv_remap_self_service_hostname.  Mutant: it is left out.
RemapNot(new) == services
Remap(new) ==
    [i \in DOMAIN services |->
       IF Selfhosted(services[i]) THEN [services[i] EXCEPT !.host = new] ELSE services[i]]

Executed == actq' = Tail(actq) /\ UNCHANGED <<caller, lock>>

ExecuteHostnameSet ==
    /\ cur.type = "hostname_set" /\ Executed
    /\ host' = cur.name /\ services' = Remap(cur.name)
    /\ sema' = TRUE /\ Reports("ok", At)
    /\ UNCHANGED <<inst, delegated>>

ExecuteInstanceSet ==
    /\ cur.type = "instance_set" /\ Executed
    /\ inst' = cur.name /\ Reports("ok", NoInstance)
    /\ UNCHANGED <<host, delegated, services, sema>>

\* mdns_priv_delegate_hostname_add: a name that is ours, or no memory, is
\* reported to nobody.
ExecuteDelegateAdd ==
    /\ cur.type = "delegate_add" /\ Executed
    /\ \/ ~IsOurs(cur.name)
          /\ delegated' = [n \in DOMAIN delegated \cup {cur.name} |->
                             IF n = cur.name THEN cur.addr ELSE delegated[n]]
       \/ UNCHANGED delegated
    /\ sema' = TRUE /\ Reports("ok", {})
    /\ UNCHANGED <<host, inst, services>>

\* delegate_hostname_set_address.  Mutant: it gives the semaphore, too.
SemaphoreGiven == TRUE
SemaphoreAfterSetAddr == sema
ExecuteDelegateSetAddr ==
    /\ cur.type = "delegate_set_addr" /\ Executed
    /\ delegated' = IF cur.name \in DOMAIN delegated /\ cur.name # host
                    THEN [delegated EXCEPT ![cur.name] = cur.addr] ELSE delegated
    /\ sema' = SemaphoreAfterSetAddr /\ Reports("ok", {})
    /\ UNCHANGED <<host, inst, services>>

\* delegate_hostname_remove: also when it is the own hostname.  The services
\* that stay, at the positions old[1] < old[2] < ..., keep their order.
ExecuteDelegateRemove ==
    LET stay == {i \in DOMAIN services : services[i].host # cur.name} IN
    /\ cur.type = "delegate_remove" /\ Executed
    /\ \E old \in [1..Cardinality(stay) -> stay] :
         /\ \A i, j \in DOMAIN old : i < j => old[i] < old[j]
         /\ services' = [i \in DOMAIN old |-> services[old[i]]]
    /\ delegated' = [n \in DOMAIN delegated \ {cur.name} |-> delegated[n]]
    /\ Reports("ok", {services[i].at : i \in DOMAIN services \ stay})
    /\ UNCHANGED <<host, inst, sema>>

Execute ==
    /\ lock = "free"
    /\ \/ ExecuteHostnameSet \/ ExecuteInstanceSet \/ ExecuteDelegateAdd
       \/ ExecuteDelegateSetAddr \/ ExecuteDelegateRemove

\* mdns_parse_packet: a lost collision while probing gives a new name to what
\* was hit, the hostname, ...
HostConflict ==
    /\ host' = Mangled[host] /\ services' = Remap(Mangled[host])
    /\ Reports("ok", At) /\ UNCHANGED inst
\* ... or, for the service at i, its instance or else the default.
ServiceConflict(i) ==
    \/ /\ services[i].inst # None
       /\ services' = [services EXCEPT ![i].inst = Mangled[@]]
       /\ Reports("ok", {services[i].at}) /\ UNCHANGED <<host, inst>>
    \/ /\ services[i].inst = None /\ inst # None
       /\ inst' = Mangled[inst]
       /\ Reports("ok", NoInstance) /\ UNCHANGED <<host, services>>
    \/ /\ services[i].inst = None /\ inst = None /\ HostConflict
Conflict ==
    /\ lock = "free" /\ host # None
    /\ UNCHANGED <<delegated, task, lock>>
    /\ HostConflict \/ \E i \in DOMAIN services : Selfhosted(services[i]) /\ ServiceConflict(i)

-----------------------------------------------------------------------------
Init ==
    /\ host = None /\ inst = None /\ delegated = <<>>
    /\ services = <<>>
    /\ actq = <<>> /\ sema = FALSE
    /\ caller = [c \in Callers |-> Idle]
    /\ lock = "free" /\ last = [code |-> "ok", told |-> {}]

Next == Calls \/ Posts \/ (\E c \in Callers : WaitEnds(c)) \/ Execute \/ Conflict

Spec == Init /\ [][Next]_vars

\* The service task runs when it has work, and a task that got its semaphore
\* goes on; nobody has to call anything.
FairSpec == /\ Spec /\ WF_vars(Execute)
            /\ \A c \in Callers : WF_vars(WaitEnds(c))

-----------------------------------------------------------------------------
(* Properties *)

Actions ==
    [type : {"hostname_set"}, name : Names] \cup [type : {"instance_set"}, name : Instances]
    \cup [type : {"delegate_remove"}, name : Delegates]
    \cup [type : {"delegate_add", "delegate_set_addr"}, name : Delegates, addr : BOOLEAN]
Service == [at : 1..MaxServices, type : Types, inst : Instances \cup {None}, host : Names,
            own : BOOLEAN, port : Ports, txt : Seq(Items), sub : Seq(Subtypes)]
\* The table holds at most MDNS_MAX_SERVICES services, each at an address of
\* its own, and the queue what fits.
TypeOK ==
    /\ host \in Names \cup {None} /\ inst \in Instances \cup {None}
    /\ DOMAIN delegated \subseteq Delegates /\ delegated \in [DOMAIN delegated -> BOOLEAN]
    /\ services \in Seq(Service) /\ Len(services) <= MaxServices
    /\ \A i, j \in DOMAIN services : services[i].at = services[j].at => i = j
    /\ actq \in Seq(Actions) /\ Len(actq) <= QueueLen
    /\ sema \in BOOLEAN /\ caller \in [Callers -> Actions \cup {Idle}]
    /\ lock \in {"free", "lost"}
    /\ last \in [code : {"ok", "no_mem", "invalid"}, told : SUBSET (1..MaxServices)]

\* A service added without a hostname carries the device's current one,
\* however often calls and conflicts have renamed the device since.
OwnServicesFollow == \A s \in ToSet(services) : s.own => s.host = host

\* A lookup gives the first max_results of the services asked for, one when
\* max_results is 0, and the first of them last; but nothing when one of those
\* belongs to a host without addresses.
WantedAt(q, self) == {i \in DOMAIN services : Wanted(services[i], q, self)}
Passed(q, max, self) ==
    {i \in WantedAt(q, self) :
        Cardinality({j \in WantedAt(q, self) : j < i}) < (IF max = 0 THEN 1 ELSE max)}
LookupAgrees ==
    \A q \in [type : Types, inst : Instances \cup {None}], max \in 0..MaxServices, self \in BOOLEAN :
      LET found == Lookup(q, max, self)
          passed == Passed(q, max, self)
      IN  IF ~self /\ \E i \in passed : ~HasAddress(services[i].host) THEN found = <<>>
          ELSE /\ Len(found) = Cardinality(passed)
               /\ \A i \in passed : found[Cardinality({j \in passed : j >= i})] = services[i]

\* A call that reports that memory ran out has added nothing: no service, no
\* TXT item, no subtype.  And where it was adding subtypes to those that were
\* there, these are there still, in their order.
Within(s, r) == s.at = r.at /\ ToSet(s.sub) \subseteq ToSet(r.sub) /\ ToSet(s.txt) \subseteq ToSet(r.txt)
SubtypesAdded == \E q \in Queries, items \in SubtypeLists : SubtypeAdd(q, items)
FailedCallUndone ==
    [][last'.code = "no_mem" =>
         /\ \A s \in ToSet(services') : \E r \in ToSet(services) : Within(s, r)
         /\ services' # services => ~SubtypesAdded]_vars

\* What a service looks like from outside.
Seen == {[s EXCEPT !.inst = Effective(@)] : s \in ToSet(services)}
\* A call that reports success, or a step of the service task, names every
\* service whose records it changed to the network, with a probe, an
\* announcement or a goodbye.
TellsWhatChanged ==
    [][last'.code = "ok" =>
         {s.at : s \in (Seen \ Seen') \cup (Seen' \ Seen)} \subseteq last'.told]_vars

\* The one call in progress: mdns_hostname_set, or another.
Request ==
    LET a == caller[CHOOSE c \in Callers : TRUE] IN
    IF a.type # "hostname_set" THEN [wants |-> None, done |-> FALSE]
    ELSE [wants |-> a.name, done |-> a \notin ToSet(actq)]
Register == INSTANCE HostnameRegister WITH NoName <- None, name <- host, request <- Request
\* With one task that calls mdns_hostname_set and mdns_delegate_hostname_add,
\* as in this firmware, the hostname is a register: a call returns, and only
\* after its name was set.
HostnameIsRegister == Register!Spec
=============================================================================
