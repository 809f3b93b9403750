# A verification project for FarolDNS

FarolDNS is the firmware of a small DNS appliance (ESP32-S3, FreeRTOS, C): a
caching DNS forwarder that stays reachable over Ethernet or Wi-Fi, whichever is
there, is configured from a web page and goes by an mDNS name, for which it
carries the mDNS library `espressif__mdns` along. This directory holds TLA+
models of both, TLC configurations that check them on small instances, and
proofs that TLAPS checks for every value of the constants. `src/` below is the
repository; file names without a path are under `src/components/` or
`src/managed_components/espressif__mdns/`.

    tlc -workers 2 -config MCFailover.cfg MCFailover     # one run
    tlapm FailoverProofs.tla                             # one proof module

## 1. Inventory

The firmware:

| Component | State it keeps | Operations | Talks to |
|---|---|---|---|
| `network_manager` | `s_net_state` (behind a mutex), net_monitor's notification | `network_manager_start`, `on_network_event`, the loop of `network_monitor_task`, `get_state` | calls `wifi_manager_*`, reads `eth_w5500_is_connected`; everybody reads its state |
| `ethernet_w5500` | `s_connected`, netif and driver handles | `eth_w5500_init`, link and address event handlers | the event loop; stores a captured address |
| `wifi_manager` | `s_connected`, `s_current_mode`, netif | `start_sta`, `start_ap`, `stop`, event handler | the event loop, the Wi-Fi driver; stores a captured address |
| `dns_server` | linked-list cache and its count, `s_running`, counters | the loop of `dns_server_task`, `cache_lookup`, `cache_insert`, `cache_purge` | clients on port 53, one upstream, `get_state` |
| `storage_manager` | the NVS blob | `storage_load_config`, `storage_save_config`, defaults | called by every other component |
| `mdns_manager` | `s_hostname`, `s_probe_done` | `mdns_manager_start`, `mdns_probe_task` | `get_state`, storage, the mDNS library |
| `web_config` | the HTTP server handle | `GET /`, `/api/config`, `/api/status`, `/api/ping`, `POST /save`, `restart_task` | storage, statistics and netifs of the others |
| `main` | none | the order of start-up | all of them |

The mDNS library, by the parts it falls into:

| Part | State it keeps | Operations | Talks to |
|---|---|---|---|
| interfaces and transmission (`mdns_pcb.c`, the queue of `mdns_send.c`, `mdns_service.c`, `mdns_netif.c`) | one state machine per interface, the queue of packets ordered by time, the queue of actions | probe, announce, goodbye, enable, disable, duplicate; the timer's scan; the service task's loop | everything below posts actions to it or calls it under the service lock |
| packets (`mdns_send.c`, `mdns_receive.c`, `mdns_utils.c`) | one static buffer | compress and read names, build and parse questions, answers and known answers, detect conflicts | responder table, querier, interfaces |
| querier (`mdns_querier.c`) | list of searches, each with its results | `mdns_query*`, `mdns_query_async_*`, start, send, finish, add results | caller's task, timer, service task |
| responder (`mdns_responder.c`) | host name, instance name, delegated hosts, services with TXT items and subtypes | some thirty calls that edit the table | callers' tasks, service task |
| browser (`mdns_browser.c`) | list of browses | `mdns_browse_new`, `mdns_browse_delete` | the firmware never calls it |

The event-loop task runs the handlers of three components. net_monitor, the DNS
task, the probe task, the HTTP task, the library's service task and the timer
run beside it; app_main ends after start-up. The firmware's tasks share plain
static flags, one mutex-protected state and the NVS blob; the library's tasks
share its tables under one service lock, and queues of pointers outside of it.

Hard behaviours, and what makes each part correct:

- *fail-over* (network_manager, ethernet_w5500, wifi_manager): link flags are
  written by one task and read by another, which sleeps up to ten seconds
  between two looks; stopping Wi-Fi leaves stale events in the queue. Correct
  means: where the cable is used, state ETHERNET and the Wi-Fi radio take turns and
  at most one interface keeps an address; no event is missed, the station
  reconnects for ever, and the service ends up on the interface that is there.
- *forwarding* (dns_server): answers are late, lost or for a question given up;
  memory runs out in the middle of an insert; the cache is full; a TTL wraps
  around. Correct means: every client gets the answer to its own question, none
  is served after its time, the cache stays bounded and without duplicates, and
  a silent upstream stops nothing.
- *configuration* (storage_manager and its writers): three tasks load, change
  and save one blob with no lock around the three steps; power fails at any
  time; loads and commits fail. Correct means: what was acknowledged is
  durable, takes effect (all but the host name, which the probe chooses), and is
  undone by nobody.
- *naming* (mdns_manager with the conflict handling of the library): several
  devices probe at once, packets get lost, ten names run out, power fails.
  Correct means: two devices at rest never have one name, and renaming ends.
- *transmission*: queued packets and actions hold addresses that others free;
  an interface moves on only through the packets it sends, which conflicts,
  removals and failing interfaces throw away; two interfaces on one network
  silence each other. Correct means: no freed memory is reached, and no
  interface stands still.
- *searching*: caller, timer and service task end one search at the same time,
  and its memory is used again. Correct means: one end, one notification, no
  action on the wrong search, and the caller comes back.
- *the table*: one semaphore serves several kinds of calls; names change by
  calls and by conflicts; memory runs out halfway. Correct means: what is told
  agrees with what changed, failed calls leave nothing behind.
- *the wire*: names are shortened by pointers into the packet; answers do not
  fit, get lost, repeated and overtaken; known answers suppress answers.
  Correct means: names read back, results describe real services, everything is
  found in the end.

Left out for good: `mdns_console.c`, `mdns_debug.c`, `mdns_networking_socket.c`
and `mdns_mem_caps.c` (not part of this firmware's behaviour), the layout of
`index.html`, pin and driver set-up, partition and build files, logging and the
statistics counters (no property is about them).

## 2. Plan

| # | Modules | Contents | Status |
|---|---|---|---|
| 1 | `InterfaceTurns`, `Failover` | abstract "state and radio take turns"; the fail-over that implements it | done, checked, proved |
| 2 | `DnsCache`, `DnsServer` | the cache as operators; the task around it | done, checked, proved |
| 3 | `ConfigStore` | three writers of one blob, crashes | done, checked, proved |
| 4 | `MdnsTx` | interfaces, transmit queue, actions, timer | done, checked, proved |
| 5 | `MdnsQuery` | the life of a search | done, checked, proved |
| 6 | `HostnameRegister`, `MdnsService` | abstract register; the responder's table, whose host name implements it | done, checked, proved |
| 7 | `MdnsWire`, `MdnsExchange` | names in packets; a query and its answers | done, checked |
| 8 | `MdnsProbe` | several devices and their names: host names for any number of devices, instance names for two | done, checked, proved |
| 9 | `Browser` | the browser's list and its actions, if the firmware comes to use it | open |
| 10 | `StatusApi` | the HTTP task, the life of the Wi-Fi netif; composes with `Failover` | open |
| 11 | proofs | that the packets of `MdnsWire` can be read back, which needs recursive functions in place of its RECURSIVE operators and the condition on names under which it is true | open |

The order follows what the device is for: reachability, then answers, then
settings, then naming, and within the library from what moves everything
(transmission) to what is built on it. Modules take their parameters as
CONSTANTS with named assumptions; only `MdnsWire` and `MdnsExchange`, which TLC
alone checks, use RECURSIVE operators.

## 3. The models

### Failover (`Failover.tla`, `InterfaceTurns.tla`)

One boot of the device. Four actors take turns: app_main in
`network_manager_start` (`mainPc`), the event-loop task (`queue`, `handling`),
net_monitor (`monPc`), and the drivers with the world (`cable`, `router`,
`ethLink`, `ethIp`, `radio`, `conn`).

- Variables named as in the code: `netState` is `s_net_state`, `wifiMode` is
  `s_current_mode`, `ethConnected` and `wifiConnected` are the two
  `s_connected`, `notified` is the task notification.
- The event loop runs an Ethernet event through `eth_event_handler` or
  `got_ip_event_handler` and then `on_network_event`; a Wi-Fi event through
  `on_network_event` and then `wifi_event_handler`, which is registered later.
  Each handler is an action.
- net_monitor: `BootWaitEnds`/`BootSettles`/`BootSkipsWait` (lines 67-75),
  `Check` (77-79 and the choice of 81-103, in `Decision`), `StopRadio` and
  `StopNetif` (`wifi_manager_stop`), `SetState`, `StartWifi`, `SleepEnds`.
- `cfg` and `site` are chosen at Init and fixed: the stored configuration and
  the surroundings (does the W5500 work, does DHCP answer).
- External, modelled from their use: the event queue, esp_wifi, the W5500
  driver, lwIP addresses, the reboot after an abort.

Abstractions: `wifi_manager_start_*` is one action (only net_monitor calls it
and reads what it writes, and the events it causes are queued); the access
point's clients are left out; the creation of the mutex and of the task
succeeds.

`InterfaceTurns` is what net_monitor promises of the two things it controls: in
the modes that use the cable, the state ETHERNET and the Wi-Fi radio have turns,
and one turn ends before the next begins. `StateAndRadioTakeTurns` is the
refinement mapping. It says nothing of addresses, for the code promises nothing:
Ethernet is started in every mode and takes the shared address by itself. In mode
wifi_only, which the mapping leaves out, both interfaces serve for good; in the
others they do from the moment a cable is plugged until net_monitor has stopped
Wi-Fi, and `OneInterfaceAddressed` (in `SettlesTruly`) says that it ends.

### DNS (`DnsCache.tla`, `DnsServer.tla`)

`DnsCache` is the linked list and `s_cache_count` as operators on a record
[list, count]; the list is a set of entries ordered by `seq`, the head being the
newest. `Purge`, `Remove`, `Evict` and `Link` are the four parts of
`cache_insert`; `Lookup` is the search of `cache_lookup`. The count is kept
apart from the list, as in the code, so that they may disagree.

`DnsServer` is the task with its clients, its upstream and the clock. From
`recvfrom` on port 53 to the next blocking call is one action: nobody else
writes what it reads, but `netState`, which is read once. `Forward` and
`AnswerArrives`/`AnswerServfail` are the two sides of the wait for the upstream.
The upstream may answer any query at any later time: `inflight` keeps answers to
queries long given up. A query has its own socket, hence its own `port`.
`Insert` chooses among the outcomes of the two mallocs. `ParsedTtl` says what
`dns_parse_min_ttl` reads: the TTL, or behind a compressed owner name the four
bytes one further on.

Abstractions: a question is a (name, type) pair without its case; datagrams
without a well-formed question are one value, `Malformed`; the clock is read
once per action; RDLENGTH is below 256; the sender of a datagram is left out, as the
task serves one at a time and answers the one it is serving; statistics are
left out. `uptime` stays below the width of the clock (136 years), its sum with
a TTL does not.

### Configuration (`ConfigStore.tla`)

The blob in NVS, as a restart finds it (`flash`) and as a load returns it
(`live`), and the three tasks that load it into a local struct (`copy`), change
that and save it whole: the GOT_IP handlers of both interfaces (`GotIp`), POST
/save (`PostSave`, `ReplyOk`, `ReplyError`) and the probe (`ProbeLoads`,
`ProbeEnds`). A save is `SetBlob` and `Commit`, each of which may fail
(`SaveFails`). `Restart` is restart_task, `PowerFails` everything else; after
either the flash holds what was committed or what was about to be.

A configuration is [version, host, dhcp, ip, user]: `ip` stands for address,
mask and gateway, `user` for every field that only POST /save writes. `base` and
`last` are history variables for the properties. The probe's wait for the end of
INIT is left out (it may start at any time), and its ten queries are one step whose result
is any of its names. A POST that is too long or not JSON changes nothing and
has no action. NVS (external) replaces a blob in one piece.

### Transmission (`MdnsTx.tla`)

One device with its two interfaces. Who moves: the service task
(`ReceiveAction` takes an action from the queue without the lock,
`ExecuteAction` carries it out under the lock), the timer (`BeginScan` takes
the lock, each `ScanPacket` is one turn of the loop of
`mdns_priv_send_packets`), callers of the library (`AddService`,
`UpdateService`, `RemoveService` under the lock, `SetName` by an action), the
event loop and lwIP (`NetifEvent`, `AnnounceEvent`, `PacketArrives`), and time
(`Tick`).

- `pcb`, `txq`, `services`, `actq` are `s_pcbs`, `s_tx_queue_head`,
  `s_server->services` and `s_action_queue`; `ready` is `s_interfaces[].ready`.
  An action holds the number of a packet's address, which `Alloc` gives again
  once the packet is freed.
- The functions of `mdns_pcb.c` and `mdns_send.c` call each other on all these
  tables. They are operators from tables to tables (`w`), named as in the code.
- The answers of the network are chosen (`Arrivals`): a question, a conflict
  that is lost, a packet of the other interface that shows the two to be on one
  network. What decides a conflict is in `MdnsProbe`.
- A packet keeps what later steps look at: its questions, the owners of its
  authority records, and those of its answers.
- Lists whose order nothing depends on are sets, and the transmit queue is a set
  that time of sending and time of arrival order (`Before`).
- `stray` is a ghost: an interface that takes no part has been set probing, which
  `StoppedIsSilent` forbids.

### Searching (`MdnsQuery.tla`)

The memory of each search (`heap`), the list of running ones, the action queue,
the timer and the clients that call `mdns_query` (`SyncReturns`) or
`mdns_query_async_new`, `_get_results` and `_delete`. `list` is the linked list
as a set: searches are added in the order they were posted, which `gen` numbers,
so that the timer walks it from the highest number down. `gen` also tells two
searches at one address apart, which the code cannot. The clock wraps at
`Modulus`.

### The responder's table (`MdnsService.tla`, `HostnameRegister.tla`)

Each call of `mdns_responder.c` under the lock is one action on `services`, with
its outcomes when memory runs out; `HostnameSet`, `DelegateAdd`,
`DelegateRemove`, `DelegateSetAddress` and `InstanceSet` post actions that the
service task executes (`Execute...`), the first two with the caller waiting for
the one `action_sema`. A conflict renames a service or the host. `last` keeps
what a step returned and which services it told the network about; how they are
told is `MdnsTx`. A service's `own` is a ghost: it was added without a host name
and follows the device's. `HostnameRegister` is the promise of
`mdns_hostname_set`: a register that a call writes at one moment before it
returns. `HostnameIsRegister` is the refinement mapping, fairness included.

### Packets (`MdnsWire.tla`, `MdnsExchange.tla`)

`MdnsWire` is the buffer: a sequence of cells (labels, pointers, ends of names,
heads of records, data), each with a size, `append_fqdn` with its search for an
earlier occurrence, `mdns_utils_read_fqdn` with its rules for pointers, and
`append_*_record`, which stop where the room ends and leave what they wrote.
`MdnsExchange` puts two devices around it: what a search asks and tells as known
(`QueryPacket`), what `mdns_parse_packet` and
`mdns_priv_create_answer_from_parsed_packet` make of it (`Parse`, `Answers`),
what is written (`Response`), and how the records become results (`AddPtr`,
`AddSrv`, `AddTxt`, `AddIp`). The network loses, repeats and reorders.

Abstractions: one interface; names of the two devices differ; no default
instance name is set, so that a service without one has its host's; time to
live and the random delay of an answer are left out; memory suffices. A length
byte in the middle of numbers or data is not looked at: `append_fqdn` reads
back what it found there before it points to it.

### Names on one network (`MdnsProbe.tla`)

Several devices with this firmware. Each asks for its names one by one
(`Start`, `InUse`, `QueryEnds`: `mdns_probe_task`), then the library probes and
announces (`Send`, one packet per state of the interface), answers, compares
records in conflicts and renames (`Receive`). A copy of a packet per receiver is
lost or arrives, in any order, within one timed step of its two ends. The answer to
a query waits for some time in its sender's queue, where `AnswerDropped` drops it
when the sender begins to probe again or loses power. Devices
lose power, and nothing reaches those that are off. The names that other hosts have are the first ones, so that only
those left over matter, and how many those are is chosen (`last`).

## 4. What is checked

Passing runs:

| Run | Properties | Bounds | Distinct states |
|---|---|---|---|
| `failover` | `TypeOK`, `NoLostWakeup`, `StationNotStranded`, `SettlesTruly`, `StateAndRadioTakeTurns`, `FailsOver` | every configuration, every site, MaxPending 2 | 263,527 |
| `dns_server` | `TypeOK`, `CacheSound`, `AnswersItsQuestion`, `ServedWhileLive`, `ServesAll` | three questions, two entries, three datagrams, MaxTime 2 | 360,261 |
| `config_saves` | `TypeOK`, `AckedSaveDurable`, `OnlyCurrentVersions`, `FreshSaveKeepsTheRest`, `SavedSettingsRun` | one POST, one GOT_IP, one power failure, failing loads | 455,803 |
| `mdns_tx` | `TypeOK`, `MemorySafe`, `NoInterfaceStuck`, `Settles` | two services of one type, one with an instance name, a queue of two actions, two events | 228,721 |
| `mdns_query` | `TypeOK`, `SearchesOwned`, `OffGrowsNoMore`, `QueryReturns` | two clients, two addresses, two queries, a queue of two actions, a clock of three ticks, one packet | 288,558 |
| `mdns_names` | `TypeOK`, `OwnServicesFollow`, `LookupAgrees`, `HostnameIsRegister` | one caller, two host names of which one may be delegated, two services, one instance name | 108,366 |
| `mdns_records` | `FailedCallUndone`, `TellsWhatChanged` | one service, two ports, two instance names, two TXT keys, three subtypes, lists of none, one and two of them | 60,503 |
| `mdns_exchange` | `TypeOK`, `NamesReadBack`, `ResultsSound`, `SilenceIsKnown`, `Found` | three responders, two queriers, nine searches, three packets under way, 200 bytes a packet | 12,165 |
| `mdns_probe` | `TypeOK`, `UniqueAtRest` (`HostsUnique` and `InstancesUnique`), `HighestKeepsName`, `FoundIsFree`, `ComesToRest` | two devices, one or two free names, two lost packets, one power cut | 788,469 |

Why the bounds are enough:

- *MaxPending* limits only the cable and the router, which move while fewer
  events are queued; the events those cause pile up on their own. One move in
  flight meets every point of net_monitor's loop, and a second one can overtake it.
- *DNS*: a cache of two entries is full with three questions, so eviction,
  replacement and expiry all meet; `MaxDatagrams` and `MaxTime` let an answer
  arrive after its timeout and during a later query, and an entry expire between
  two lookups. `Modulus` 6 with a TTL of one second, read as `Byte` 2 seconds
  behind a compressed name, makes the sum wrap around within the run.
  `MailboxSize` 1 makes datagrams get lost.
- *Configuration*: the races need two tasks between load and save, and every
  task has at least one run; a second POST adds no new pair (the same model with
  two POSTs was explored once: 6,088,000 states, no error).
- *Transmission*: the hazards are an event that comes while the effect of
  another is in one of the queues; two events are what liveness can be checked
  with. A third one may free what the first left there: for any number of them
  the three invariants are proved, and the inductive invariant was also checked
  with three (3,952,654 states). Two services are one with and one without an
  instance name, which a conflict treats differently. `QueueLen` 2 lets posts fail.
- *Searching*: two queries at two addresses or one after the other at one
  address; the clock of three ticks wraps around in both.
- *The table*: with one caller, as in this firmware. What two callers do to the
  one semaphore is below. Memory runs out before every item of a list, so that a
  second subtype fails after the first was added, with others there before; calls
  of the records run add subtypes that are there already. What a step reported
  (`last`) is read by no other step, and the two properties of that run read it
  of the step they look at: its states are told apart without it (VIEW).
- *Packets*: 200 bytes hold the records of one service and not those of two, so
  that answers are cut off in every place; the responders have own and delegated
  hosts, with and without instance names, subtypes, several and empty TXT items.
- *Names*: two devices are what a conflict is between. Two lost packets are also
  the most the protocol withstands: with three, two devices keep one name.

Where a model idles when its bounds are used up, or the system rests, the run
does not check for deadlock.

Runs that end in a counterexample, each a disagreement of the code with its own
documents:

| Run | What happens | What is said |
|---|---|---|
| `dns_ttl` | the TTL behind a compressed name is read one byte late, so far too large | README.md:59 |
| `config_post_undone` | the older copy of the probe, or of the address capture, overwrites an acknowledged POST | README.md:51 |
| `mdns_tx_silent` | a packet received before an interface stopped is executed after it, and sets the interface probing again | mdns_pcb.c:151, :195 |

`FreshSaveKeepsTheRest` is the other side of the second: a save whose load
succeeded and is not out of date does no harm, so that the missing lock and the
unlooked-at error are the whole cause. In the same way `MemorySafe` is the other
side of the third: the next enable sizes a list of services without those that the
stopped interface kept and copies both (mdns_pcb.c:342, :361), and as long as no
stopped interface was set probing, no list is too short and no packet points to a
service that was freed. `NoInterfaceStuck` holds all the same.

Fairness. *Failover*: FreeRTOS runs each ready task, every wait of net_monitor
has a time limit, and the drivers report what they see; the cable, the router
and the choice of site owe nothing, and the properties state what they need of
them. *DnsServer*: the task runs and time passes; clients and upstream owe
nothing. *ConfigStore*: each started save goes on, replies are sent, the two
seconds pass; nothing obliges a user to post or power to fail. *MdnsTx*,
*MdnsQuery*: weak fairness of the service task's taking an action, of the timer
and of time, and of a woken client; strong fairness of executing an action,
which needs the lock that the timer takes every 100 ms and gives back.
*MdnsService*: the service task runs, a woken caller goes on. *MdnsExchange*:
strong fairness of asking, for the timer sends the question every second, and of
the delivery of each kind of packet, for of packets sent again and again some
arrive; without it no protocol over UDP finds anything. *MdnsProbe*: the
devices' tasks run and a packet that is not lost arrives.

Every property has a mutant: an operator such as `NotifyWaiting`,
`RemoveNothing` or `ABeats`' `ALoses` in place of the one it precedes, with
which the property fails. They are marked "Mutant" where they stand and no
specification uses them.

### Seen on the way

Behaviour that reading and checking showed, without a run of its own. Most of it
is outside of what the documents promise, or needs what this firmware does not do.

- *Fail-over*: without a W5500 the ESP_ERROR_CHECK of ethernet_w5500.c:164 aborts
  and the device reboots for ever, where docs/dicas.txt:5 expects Wi-Fi; README.md:79 has at
  most one active interface, but in mode wifi_only Ethernet is up as well, with the
  same address (network_manager.c:118), and the DNS socket is bound to both
  (dns_server.c:204), and in the other modes both are up while net_monitor has
  not yet stopped Wi-Fi; ETHERNET is published by the link alone, without an address
  (ethernet_w5500.c:29, README.md:43); wifi_manager_start_sta loads the
  configuration again after the state was published (wifi_manager.c:115); when
  network_manager_start fails before the mutex exists, main goes on (main.c:31).
- *DNS*: a full cache drops its newest entry where the comment says oldest
  (dns_server.c:104); the upstream has three seconds (dns_server.c:267) where
  docs/plano_de_testes.md:30 has two; the SERVFAIL reply sets AA and clears RA
  where its comment (dns_server.c:295) says RA; a stop and a second start would
  leave two tasks on one cache (dns_server.c:308).
- *Configuration*: a host name that POST /save stored never comes into use: the
  probe starts from the base name (mdns_manager.c:33) and replaces what is stored
  (mdns_manager.c:61), where docs/plano_de_testes.md:79 and :102 have it answer
  by the saved name, which is why `SavedSettingsRun` speaks of the other settings;
  after a failed load it
  stores the defaults (mdns_manager.c:24); a client that falls silent in the
  middle of POST /save keeps the only HTTP task (web_config.c:161); the status
  page reads state and address at two times (web_config.c:84).
- *Names*: three lost packets leave two devices with one name; three devices can
  come to rest with one instance name between two of them without any loss, as who
  probes again for its address alone (check_a_collision at rest, mdns_receive.c:1194)
  neither answers for its service nor announces it, and who takes its instance
  name meanwhile is not told, which is why `InstancesUnique` speaks of two
  devices; the stored host
  name stays the old one when the library has changed it (mdns_manager.c:61); an
  incumbent with the lower address loses its name to a newcomer; the device whose
  host name was changed, now the longer one, wins the instance name.
- *Transmission*: with a queue of one action a packet at the head may stay marked
  as posted for ever and block what is behind it (mdns_send.c:1840), which
  `Settles` excepts; DISABLE sends no goodbye where mdns.h:894 says so;
  mdns_unregister_netif takes its lock twice (mdns_netif.c:431); IGMP is left only
  for the last protocol; TASK_STOP is lost when the queue is full
  (mdns_service.c:328).
- *Searching*: the sums of ticks wrap around after 49 days
  (mdns_querier.c:177), and a search that ends in the last tick never ends, which
  `QueryReturns` excepts; mdns_query_async_get_results takes the semaphore once, so
  that a second call after a success waits in vain (mdns.h:658-669).
- *The table*: two tasks that wait for the one semaphore wake each other too early
  or not at all (mdns_responder.c:617); mdns_service_txt_set keeps the lock when memory
  runs out (mdns_responder.c:1023), after which every call blocks, and `lock` is
  "lost"; mdns_service_exists with no host finds delegated hosts (mdns.h:292,
  mdns_responder.c:818); setting an instance or a host name can make two services
  alike; a delegated host without addresses empties the whole lookup, which
  `LookupAgrees` states; removing the own name as a delegated host removes the own
  services; a double in the list of subtypes to add is not announced.
- *Packets*: a known service without an instance name withdraws the question for
  its whole type (mdns_receive.c:518-584), which `SilenceIsKnown` excepts; with two
  services on one host only one gets the address (mdns_querier.c:648);
  append_fqdn takes a name with `_sub` for one without (mdns_send.c:722);
  append_host_list leaves out the first delegated host (mdns_send.c:376); a query
  ANY with a service and no instance finds nothing; half a record at the end of a
  packet ends the receiver's parsing, so that what was told before it counts and
  known answers do not; max_results is cut to eight bits (mdns_querier.c:446).
- *Browser*, which the firmware does not use: a synchronisation action holds a
  pointer that ACTION_BROWSE_END frees (mdns_browser.c:62).

## 5. What is proved

All for every value of the constants, under the named ASSUMEs of the modules
(cache size, clock width, queue length and MaxPending are positive; configurations,
TTLs and stores have their types; special values differ from ordinary ones).

- `FailoverProofs`: `TypeCorrect`; `WifiOffTheorem`, `WakeupTheorem`,
  `StationTheorem`, `SettlesTheorem`, and `TurnsTheorem`, that Failover
  implements InterfaceTurns. The invariant `IInv` adds to the types what each program
  counter knows: which tasks exist (`TaskInv`), that radio, mode and queued
  events belong together (`RadioInv`), where the mode may be on (`ModeInv`),
  what a decision taken at the head of the loop still means when it is carried
  out (`DecisionInv`), and that a change of the link flag since then has left a
  notification (`WakeInv`). None of these is inductive without it: the decision
  is taken steps before the state is set. `SettlesTheorem` needs `FlagInv` besides
  (`FlagTheorem`): the last event of its kind that is queued or being handled says
  what the link or the station is, and when there is none, the flag does; so that
  with nothing left to handle both flags tell the truth.
- `DnsCacheProofs`: lemmas on the cache operators. What is unlinked is counted
  (`DropCounted`), a non-empty finite list has a head (`HeadExists`, from
  well-foundedness of the strict subset order), and after `MakeRoom` a counted
  cache has fewer than MaxEntries entries and none for the key.
- `DnsServerProofs`: `TypeCorrect`, `CacheSoundTheorem`, `AnswerTheorem`,
  `FreshTheorem`. `IInv` joins a cache invariant (finite, counted, bounded,
  sequence numbers and keys distinct), an entry invariant (the data of an entry
  answers its key, its expiry is what was granted), a port invariant (an
  outstanding query or answer with the current port is for the current
  question, and no port lies ahead) and what was last sent.
- `ConfigStoreProofs`: `TypeCorrect`, `DurableTheorem`, `VersionTheorem`,
  `FreshSaveTheorem` (an action property). `DurableInv` follows a save from
  `SetBlob` over `Commit` to `ReplyOk` while others save in between; `CopyInv`
  says what a copy owes to its load.
- `MdnsQueryProofs`: `TypeCorrect`, `SearchesOwnedTheorem` and
  `OffGrowsNoMoreTheorem`. The library compares addresses that are used again,
  and what makes this enough is spread over three tasks: behind the action that
  adds a search the queue has none for its address (`QueueInv`), a search that
  is still to be added is in state INIT and not in the list (`AddInv`), so that
  neither the timer posts for it nor its owner frees it; what is in the list is
  allocated and its semaphore not given (`ListInv`); and each search has one
  client (`ClientInv`).
- `MdnsProbeProofs`: `TypeCorrect`, `HighestKeepsNameTheorem`,
  `FoundIsFreeTheorem` (an action property), and `HostsUniqueTheorem` and
  `InstancesUniqueTheorem`, which `UniqueTheorem` joins, for any number of devices
  (for two, where instance names are concerned), names, lost packets and power
  cycles. `FoundIsFreeTheorem` rests on `FreeInv`: while no packet was lost, and a
  device asks for the name of another one that has announced it, the answer to the
  first or the question to the second is on its way (`AnswerComes`). It reached
  whoever had the name when it was asked, and who was still probing then, and did
  not answer, announces the name later; besides, who announces puts its address in
  (`Good`), and nothing is on its way to devices that are off (`Reached`).
  `HostsUniqueTheorem` rests on a count (`ThreeChances`). Let two devices have one
  host name, and the one with the higher address be past its probing. The probes
  that the other one has still to send, the announcements still to come, and what
  is on its way between the two are its chances to notice. A chance has the number
  of the packet it came from, 1 to 3 for probes and the answers to them, 4 to 6 for
  announcements, and the numbers left and the packets lost are at least three together: a
  device that begins with its address has three probes ahead, one that ends its
  probing has three announcements, a probe that is handled becomes an answer, an
  answer or announcement that is handled makes the lower address begin again, and
  a packet that is lost was one number at most. At rest there are no chances left, so
  three packets were lost; this is also the least that it takes.
  `InstancesUniqueTheorem` counts the same for the service (`ThreeSrvChances`), where
  the greater host name wins. That count has a hole, which the third device of the
  observation in section 4 falls through: who heard its host name at rest probes and
  announces its address without the service. Of two devices this is never
  the one that has to be heard: it has the lower address and, as only one of two
  can pass over faroldns1 (`NotBothPass`) and the higher address keeps its first
  form, its host name is faroldns1, which beats no other (`Yields`); for this the
  packets on their way must tell the number of their sender (`ToldNumber`, `ToldOne`).
- `MdnsTxProofs`: `TypeCorrect`, `NeverStuck` and `MemoryIsSafe`, for every set of
  services, queue length and number of events. `TxInv` says of each interface that
  what its state calls for is in the transmit queue: who probes has exactly the
  probe, who announces has a packet, a duplicate has a twin that takes part, who
  is off has nothing (`Good`); and, until an interface that takes no part is set
  probing (`stray`), that what is probed and queued are services there are, and
  fewer than the memory was asked for (`Clean`). Each function of `mdns_pcb.c` and
  `mdns_send.c` gets a lemma on the tables it takes and returns, so that the steps
  compose as the calls do. The timer's `scan` keeps an address over several turns
  in which only it has the lock, so its packet is still there.
- `MdnsServiceProofs`: `TypeCorrect`, `OwnTheorem`, `LookupTheorem`,
  `FailedCallTheorem`, `TellsTheorem` (two action properties) and `RegisterTheorem`. Every call under
  the lock leaves the table as it is, edits one service, adds one in front, removes
  one, or empties it, and names the services it did that to (`Result`); what a
  conflict, a new host name and the removal of a delegated host do to all
  services has lemmas of its own. `FailedCallTheorem` is about the loop that takes
  back what a failed call added, item by item, from a list where subtypes with
  these names may have been before: those the call added are in front of the others
  and none of them was there, so each turn takes away one of them (`PileLess`,
  `RollbackIs`); after the last the list is as it was, in its order (`UndoneIs`).
  `RegisterTheorem` is the safety half of
  `HostnameIsRegister`, for one caller of any name, as in this firmware: `WaitInv`
  says that of the actions with a waiting caller the queue has at most its own, and
  once, and that the semaphore is given only to a caller that waits and whose
  action is done.
  With two callers it is false, as told above. `LookupTheorem` says what the walk
  over the table collects, for tables of any length: after each service, those found
  are the ones passed so far, last first, or none when one of them has no
  address (`WalkHas`). The walk is a recursive function over 0..Len(services); that
  it exists, and what it holds at the end, are shown by the least index at which
  they would fail (`WalkExists`, `WalkHasAll`).

Only model-checked:

- the liveness properties (`FailsOver`, `ServesAll`, `SavedSettingsRun`,
  `Settles`, `QueryReturns`, `Found`, `ComesToRest`, and the fairness in
  `HostnameIsRegister`): liveness under fairness and ENABLED are out of the
  prover's reach;
- the four invariants of `MdnsExchange` (`TypeOK`, `NamesReadBack`, `ResultsSound`,
  `SilenceIsKnown`): reading and appending names in `MdnsWire` are RECURSIVE
  operators, which the prover does not handle; besides, `NamesReadBack` needs
  subtypes that are not named like an instance, as append_fqdn takes a name with
  `_sub` for one without (section 4).

## 6. Not modelled

See the components with status "partly" and "not_modelled" in `PROJECT.json`,
and the hazards with a note there. In short:

- `mdns_browser.c`: the firmware never browses; reading it is reported above;
- `mdns_console.c`, `mdns_debug.c`, `mdns_networking_socket.c`,
  `mdns_mem_caps.c`: not part of what this firmware does;
- `mdns_init` and `mdns_free`, which it calls once and never, and failing
  creation of tasks and mutexes;
- the bytes of DNS messages and of TXT and address data, IPv6 (the firmware
  creates no link-local address) and reverse queries (off in this build);
- the GET routes and the status page with the netif it looks at, and a DNS
  server that is stopped and started again, which nothing does.
