------------------------------ MODULE Failover ------------------------------
(***************************************************************************)
(* The network failover of FarolDNS during one boot of the device:         *)
(*                                                                         *)
(*   - app_main, which runs network_manager_start (network_manager.c) and  *)
(*     in it eth_w5500_init (ethernet_w5500.c);                            *)
(*   - the ESP-IDF event-loop task, which takes one event at a time off    *)
(*     the default event queue and runs the registered handlers of         *)
(*     ethernet_w5500.c, network_manager.c and wifi_manager.c in order of  *)
(*     registration;                                                       *)
(*   - net_monitor, the task that owns the failover state machine and      *)
(*     calls wifi_manager_start_sta/_start_ap/_stop;                       *)
(*   - the W5500 and Wi-Fi drivers with the TCP/IP stack (external), which *)
(*     post events and own the addresses; and the world: the cable and the *)
(*     Wi-Fi router come and go.                                           *)
(*                                                                         *)
(* One handler run, and each part of a function between two points where   *)
(* another task can observe it, is one action.                             *)
(***************************************************************************)
EXTENDS Naturals, Sequences

CONSTANTS
    Configs,     \* the stored configurations the device may boot with
    Sites,       \* the surroundings: state of the W5500, does DHCP answer
    MaxPending   \* the world moves only while fewer events are queued

NetModes == {"auto", "eth_only", "wifi_only"}

\* The W5500 works; it does not answer; or its SPI bus or GPIO service fails.
Chips == {"ok", "absent", "no_bus"}

ASSUME ConfigsAssumption ==
    Configs \subseteq [net_mode : NetModes, ssid : BOOLEAN, dhcp : BOOLEAN]
ASSUME SitesAssumption == Sites \subseteq [w5500 : Chips, dhcpServer : BOOLEAN]
ASSUME MaxPendingAssumption == MaxPending \in Nat \ {0}

VARIABLES
    cfg,            \* what storage_load_config returns during this boot
    site,           \* surroundings, fixed for one boot
    cable, router,  \* the world: RJ45 plugged in, Wi-Fi router in reach
    mainPc,         \* app_main inside network_manager_start
    ethLink, ethIp, \* W5500 driver and its netif: link negotiated, address set
    radio,          \* Wi-Fi driver: "off", "sta" or "ap"
    conn,           \* station: "idle", "connecting" or "connected" (with address)
    queue,          \* the default event queue
    handling,       \* event whose second handler is still to run, or "none"
    ethConnected,   \* ethernet_w5500.c: s_connected
    wifiConnected,  \* wifi_manager.c: s_connected
    wifiMode,       \* wifi_manager.c: s_current_mode
    netState,       \* network_manager.c: s_net_state
    notified,       \* net_monitor's task notification (taken with pdTRUE)
    monPc           \* net_monitor's program counter

world    == <<cfg, site, cable, router>>
ethDrv   == <<ethLink, ethIp>>
wifiDrv  == <<radio, conn>>
events   == <<queue, handling>>
flags    == <<ethConnected, wifiConnected>>
monitor  == <<netState, notified, monPc>>
vars     == <<world, mainPc, ethDrv, wifiDrv, events, flags, wifiMode, monitor>>

NetStates == {"INIT", "ETHERNET", "WIFI_STA", "WIFI_AP", "DISCONNECTED"}
EthLinkEvents == {"ETH_CONNECTED", "ETH_DISCONNECTED"}
EthEvents  == EthLinkEvents \cup {"ETH_GOT_IP"}
WifiEvents == {"STA_START", "STA_DISCONNECTED", "STA_GOT_IP", "AP_START", "WIFI_STOP"}
Events     == EthEvents \cup WifiEvents

\* on_network_event is registered after eth_w5500_init returned.
Registered == mainPc \in {"create", "done"}

Init ==
    /\ cfg \in Configs /\ site \in Sites
    /\ cable \in BOOLEAN /\ router \in BOOLEAN
    /\ mainPc = "init"
    /\ ethLink = FALSE /\ ethIp = FALSE
    /\ radio = "off" /\ conn = "idle"
    /\ queue = <<>> /\ handling = "none"
    /\ ethConnected = FALSE /\ wifiConnected = FALSE
    /\ wifiMode = "NULL"
    /\ netState = "INIT" /\ notified = FALSE /\ monPc = "none"

-----------------------------------------------------------------------------
(* The world.  It moves only while the event queue is short (MaxPending).  *)

CableMoves ==
    /\ Len(queue) < MaxPending
    /\ cable' = ~cable
    /\ UNCHANGED <<cfg, site, router, mainPc, ethDrv, wifiDrv, events, flags, wifiMode, monitor>>

\* A station that was connected loses its router: the driver reports it.
RouterMoves ==
    /\ Len(queue) < MaxPending
    /\ router' = ~router
    /\ IF router /\ conn = "connected"
       THEN /\ conn' = "idle"
            /\ queue' = Append(queue, "STA_DISCONNECTED")
       ELSE UNCHANGED <<conn, queue>>
    /\ UNCHANGED <<cfg, site, cable, mainPc, ethDrv, radio, handling, flags, wifiMode, monitor>>

-----------------------------------------------------------------------------
(* The W5500 driver and its netif (external).                              *)

EthStarted == mainPc \in {"register", "create", "done"} /\ site.w5500 = "ok"

EthLinkChanges ==
    /\ EthStarted
    /\ ethLink # cable
    /\ ethLink' = cable
    /\ ethIp' = FALSE
    /\ queue' = Append(queue, IF cable THEN "ETH_CONNECTED" ELSE "ETH_DISCONNECTED")
    /\ UNCHANGED <<world, mainPc, wifiDrv, handling, flags, wifiMode, monitor>>

\* The netif has an address at once when DHCP was stopped in favour of the
\* stored one, and otherwise once a DHCP server answers.
EthGetsAddress ==
    /\ ethLink /\ ~ethIp
    /\ ~cfg.dhcp \/ site.dhcpServer
    /\ ethIp' = TRUE
    /\ queue' = Append(queue, "ETH_GOT_IP")
    /\ UNCHANGED <<world, mainPc, ethLink, wifiDrv, handling, flags, wifiMode, monitor>>

-----------------------------------------------------------------------------
(* The Wi-Fi driver (external).                                            *)

StationConnects ==
    /\ conn = "connecting" /\ router
    /\ conn' = "connected"
    /\ queue' = Append(queue, "STA_GOT_IP")
    /\ UNCHANGED <<world, mainPc, ethDrv, radio, handling, flags, wifiMode, monitor>>

StationFails ==
    /\ conn = "connecting" /\ ~router
    /\ conn' = "idle"
    /\ queue' = Append(queue, "STA_DISCONNECTED")
    /\ UNCHANGED <<world, mainPc, ethDrv, radio, handling, flags, wifiMode, monitor>>

\* Mutant: only STA_START connects.
ConnectOnce ==
    IF handling = "STA_START" /\ radio = "sta" /\ conn = "idle" THEN "connecting" ELSE conn

\* esp_wifi_connect: without a started, idle station it returns an error,
\* which wifi_event_handler ignores.
ConnectResult == IF radio = "sta" /\ conn = "idle" THEN "connecting" ELSE conn

\* What esp_wifi_stop posts.
StopEvents ==
    IF radio = "off" THEN <<>>
    ELSE IF conn = "connected" THEN <<"STA_DISCONNECTED", "WIFI_STOP">>
    ELSE <<"WIFI_STOP">>

-----------------------------------------------------------------------------
(* app_main in network_manager_start.                                      *)

\* eth_w5500_init: a failing bus or GPIO service is an error that the caller
\* only logs; a chip that does not answer trips ESP_ERROR_CHECK.
EthInit ==
    /\ mainPc = "init"
    /\ mainPc' = IF site.w5500 = "absent" THEN "panic" ELSE "register"
    /\ UNCHANGED <<world, ethDrv, wifiDrv, events, flags, wifiMode, monitor>>

\* ESP_ERROR_CHECK aborts and the chip boots again (external).
PanicReboot ==
    /\ mainPc = "panic"
    /\ mainPc' = "init"
    /\ UNCHANGED <<world, ethDrv, wifiDrv, events, flags, wifiMode, monitor>>

\* esp_event_handler_register waits for the event loop's lock, which is held
\* while the handlers of one event run.
RegisterHandlers ==
    /\ mainPc = "register" /\ handling = "none"
    /\ mainPc' = "create"
    /\ UNCHANGED <<world, ethDrv, wifiDrv, events, flags, wifiMode, monitor>>

CreateMonitorTask ==
    /\ mainPc = "create"
    /\ mainPc' = "done"
    /\ monPc' = "boot"
    /\ UNCHANGED <<world, ethDrv, wifiDrv, events, flags, wifiMode, netState, notified>>

-----------------------------------------------------------------------------
(* The event-loop task.  Ethernet events run ethernet_w5500.c's handler and *)
(* then on_network_event; Wi-Fi events run on_network_event and then        *)
(* wifi_manager.c's handler, which is registered later.                     *)

\* Mutant: a notification wakes net_monitor only where it waits.
NotifyWaiting == notified' = (monPc \in {"boot", "sleep"} \/ notified)

\* on_network_event: s_monitor_task_handle is set once the task was created.
Notify == notified' = (mainPc = "done" \/ notified)

TakeEvent(E) ==
    /\ handling = "none" /\ queue # <<>>
    /\ Head(queue) \in E
    /\ handling' = Head(queue)
    /\ queue' = Tail(queue)

\* Mutant: the link-down event is not handled.
EthEventHandlerUpOnly ==
    /\ TakeEvent(EthLinkEvents)
    /\ ethConnected' = (ethConnected \/ handling' = "ETH_CONNECTED")
    /\ UNCHANGED <<world, mainPc, ethDrv, wifiDrv, wifiConnected, wifiMode, monitor>>

EthEventHandler ==
    /\ TakeEvent(EthLinkEvents)
    /\ ethConnected' = (handling' = "ETH_CONNECTED")
    /\ UNCHANGED <<world, mainPc, ethDrv, wifiDrv, wifiConnected, wifiMode, monitor>>

\* got_ip_event_handler: what it stores is the subject of ConfigStore.
EthGotIpHandler ==
    /\ TakeEvent({"ETH_GOT_IP"})
    /\ UNCHANGED <<world, mainPc, ethDrv, wifiDrv, flags, wifiMode, monitor>>

EthEventNotifies ==
    /\ handling \in EthEvents
    /\ IF Registered THEN Notify ELSE UNCHANGED notified
    /\ handling' = "none"
    /\ UNCHANGED <<world, mainPc, ethDrv, wifiDrv, queue, flags, wifiMode, netState, monPc>>

WifiEventNotifies ==
    /\ TakeEvent(WifiEvents)
    /\ Notify
    /\ UNCHANGED <<world, mainPc, ethDrv, wifiDrv, flags, wifiMode, netState, monPc>>

WifiEventHandler ==
    /\ handling \in WifiEvents
    /\ wifiConnected' = CASE handling = "STA_DISCONNECTED" -> FALSE
                          [] handling = "STA_GOT_IP" -> TRUE
                          [] OTHER -> wifiConnected
    /\ conn' = IF handling \in {"STA_START", "STA_DISCONNECTED"} THEN ConnectResult ELSE conn
    /\ handling' = "none"
    /\ UNCHANGED <<world, mainPc, ethDrv, radio, queue, ethConnected, wifiMode, monitor>>

-----------------------------------------------------------------------------
(* net_monitor.  ulTaskNotifyTake(pdTRUE, t) ends with the notification     *)
(* cleared, whether it came or the time ran out.                            *)

EthOk == ethConnected /\ cfg.net_mode # "wifi_only"

BootWaitEnds ==
    /\ monPc = "boot" /\ cfg.net_mode # "wifi_only"
    /\ monPc' = "settle"
    /\ notified' = FALSE
    /\ UNCHANGED <<world, mainPc, ethDrv, wifiDrv, events, flags, wifiMode, netState>>

BootSkipsWait ==
    /\ monPc = "boot" /\ cfg.net_mode = "wifi_only"
    /\ monPc' = "check"
    /\ UNCHANGED <<world, mainPc, ethDrv, wifiDrv, events, flags, wifiMode, netState, notified>>

BootSettles ==
    /\ monPc = "settle"
    /\ monPc' = "check"
    /\ UNCHANGED <<world, mainPc, ethDrv, wifiDrv, events, flags, wifiMode, netState, notified>>

\* Mutants: Wi-Fi is not stopped; INIT is not left without a cable.
DecisionWithoutStop ==
    IF EthOk THEN IF netState = "ETHERNET" THEN "sleep" ELSE "set_eth"
    ELSE IF netState \notin {"ETHERNET", "INIT"} THEN "sleep"
    ELSE IF cfg.net_mode = "eth_only" THEN "set_disconnected" ELSE "set_wifi"
DecisionKeepsInit ==
    IF EthOk THEN IF netState = "ETHERNET" THEN "sleep"
                  ELSE IF wifiMode = "NULL" THEN "set_eth" ELSE "stop_radio"
    ELSE IF netState # "ETHERNET" THEN "sleep"
    ELSE IF cfg.net_mode = "eth_only" THEN "set_disconnected" ELSE "set_wifi"

\* What the rest of the pass does.
Decision ==
    IF EthOk THEN IF netState = "ETHERNET" THEN "sleep"
                  ELSE IF wifiMode = "NULL" THEN "set_eth" ELSE "stop_radio"
    ELSE IF netState \notin {"ETHERNET", "INIT"} THEN "sleep"
    ELSE IF cfg.net_mode = "eth_only" THEN "set_disconnected" ELSE "set_wifi"

\* The head of the loop: one reading of the state and of the link.
Check ==
    /\ monPc = "check"
    /\ monPc' = Decision
    /\ UNCHANGED <<world, mainPc, ethDrv, wifiDrv, events, flags, wifiMode, netState, notified>>

\* wifi_manager_stop, first part: esp_wifi_stop.
StopRadio ==
    /\ monPc = "stop_radio"
    /\ radio' = "off" /\ conn' = "idle"
    /\ queue' = queue \o StopEvents
    /\ monPc' = "stop_netif"
    /\ UNCHANGED <<world, mainPc, ethDrv, handling, flags, wifiMode, netState, notified>>

\* wifi_manager_stop, second part: the netif is destroyed, the mode and the
\* connected flag are reset.
StopNetif ==
    /\ monPc = "stop_netif"
    /\ wifiMode' = "NULL"
    /\ wifiConnected' = FALSE
    /\ monPc' = "set_eth"
    /\ UNCHANGED <<world, mainPc, ethDrv, wifiDrv, events, ethConnected, netState, notified>>

\* Mutant: the Wi-Fi mode is published in place of the state.
ModeToSet == CASE monPc = "set_eth" -> "ETHERNET"
               [] monPc = "set_disconnected" -> "DISCONNECTED"
               [] monPc = "set_wifi" -> IF cfg.ssid THEN "STA" ELSE "AP"

StateToSet == CASE monPc = "set_eth" -> "ETHERNET"
                [] monPc = "set_disconnected" -> "DISCONNECTED"
                [] monPc = "set_wifi" -> IF cfg.ssid THEN "WIFI_STA" ELSE "WIFI_AP"

SetState ==
    /\ monPc \in {"set_eth", "set_disconnected", "set_wifi"}
    /\ netState' = StateToSet
    /\ monPc' = IF monPc = "set_wifi" THEN "start_wifi" ELSE "sleep"
    /\ UNCHANGED <<world, mainPc, ethDrv, wifiDrv, events, flags, wifiMode, notified>>

\* wifi_manager_start_sta when an SSID is stored, else wifi_manager_start_ap.
\* Nothing is done in the mode already on; another mode is stopped first.
StartWifi ==
    LET mode == IF cfg.ssid THEN "STA" ELSE "AP" IN
    /\ monPc = "start_wifi"
    /\ IF wifiMode = mode
       THEN UNCHANGED <<wifiDrv, queue, wifiMode, wifiConnected>>
       ELSE /\ radio' = IF cfg.ssid THEN "sta" ELSE "ap"
            /\ conn' = "idle"
            /\ queue' = queue \o StopEvents \o <<IF cfg.ssid THEN "STA_START" ELSE "AP_START">>
            /\ wifiMode' = mode
            /\ wifiConnected' = (wifiConnected /\ wifiMode = "NULL")
    /\ monPc' = "sleep"
    /\ UNCHANGED <<world, mainPc, ethDrv, handling, ethConnected, netState, notified>>

\* Woken by on_network_event or after ten seconds.
SleepEnds ==
    /\ monPc = "sleep"
    /\ monPc' = "check"
    /\ notified' = FALSE
    /\ UNCHANGED <<world, mainPc, ethDrv, wifiDrv, events, flags, wifiMode, netState>>

-----------------------------------------------------------------------------
World     == CableMoves \/ RouterMoves
EthDriver == EthLinkChanges \/ EthGetsAddress
WifiDriver == StationConnects \/ StationFails
Main      == EthInit \/ PanicReboot \/ RegisterHandlers \/ CreateMonitorTask
EventTask == EthEventHandler \/ EthGotIpHandler \/ EthEventNotifies
               \/ WifiEventNotifies \/ WifiEventHandler
Monitor   == BootWaitEnds \/ BootSkipsWait \/ BootSettles \/ Check \/ StopRadio
               \/ StopNetif \/ SetState \/ StartWifi \/ SleepEnds

Next == World \/ EthDriver \/ WifiDriver \/ Main \/ EventTask \/ Monitor

Spec == Init /\ [][Next]_vars

\* FreeRTOS runs every ready task and every wait of net_monitor has a time
\* limit; the drivers report what they see.  The world owes nothing.
Fairness ==
    /\ WF_vars(Main) /\ WF_vars(EventTask) /\ WF_vars(Monitor)
    /\ WF_vars(EthLinkChanges) /\ WF_vars(EthGetsAddress)
    /\ WF_vars(WifiDriver)

FairSpec == Spec /\ Fairness

-----------------------------------------------------------------------------
TypeOK ==
    /\ cfg \in Configs /\ site \in Sites
    /\ cable \in BOOLEAN /\ router \in BOOLEAN
    /\ mainPc \in {"init", "panic", "register", "create", "done"}
    /\ ethLink \in BOOLEAN /\ ethIp \in BOOLEAN
    /\ radio \in {"off", "sta", "ap"}
    /\ conn \in {"idle", "connecting", "connected"}
    /\ queue \in Seq(Events) /\ handling \in Events \cup {"none"}
    /\ ethConnected \in BOOLEAN /\ wifiConnected \in BOOLEAN
    /\ wifiMode \in {"NULL", "STA", "AP"}
    /\ netState \in NetStates /\ notified \in BOOLEAN
    /\ monPc \in {"none", "boot", "settle", "check", "stop_radio", "stop_netif", "set_eth",
                  "set_disconnected", "set_wifi", "start_wifi", "sleep"}

\* While the published state is ETHERNET the Wi-Fi radio is off, at every
\* interleaving of net_monitor with the events it reacts to: the state is set
\* only after wifi_manager_stop and left before wifi_manager_start_*.
WifiOffOnEthernet == netState = "ETHERNET" => radio = "off" /\ wifiMode = "NULL"

\* No lost wake-up: when net_monitor sleeps with no notification pending, and
\* no link event is between its two handlers, the published state agrees with
\* the link flag, so the ten-second poll is never what repairs the state.
StateAgrees == (netState = "ETHERNET") <=> EthOk
NoLostWakeup ==
    monPc = "sleep" /\ ~notified /\ handling \notin EthLinkEvents => StateAgrees

\* A started station with no connection and no attempt under way has an event
\* coming whose handler calls esp_wifi_connect: reconnection never stops.
Pending(E) == handling \in E \/ \E i \in 1 .. Len(queue) : queue[i] \in E
StationNotStranded ==
    radio = "sta" /\ conn = "idle" => Pending({"STA_START", "STA_DISCONNECTED"})

\* Once the events are drained both s_connected flags tell the truth, however
\* stale the events were that net_monitor's stop overtook.
Drained == queue = <<>> /\ handling = "none"
FlagsSettle ==
    Drained => ethConnected = ethLink /\ wifiConnected = (conn = "connected")

\* When everything is at rest in a mode that uses the cable, at most one
\* interface has an address: Ethernet and station share the configured one.
UsesCable == cfg.net_mode # "wifi_only"
AtRest == Drained /\ monPc = "sleep" /\ ~notified
BothAddressed == ethIp /\ conn = "connected"
OneInterfaceAddressed == AtRest /\ UsesCable => ~BothAddressed

\* What the tasks left behind agrees with the world once nothing more is to be
\* handled: the flags with the links, and the addresses with one another.
SettlesTruly == FlagsSettle /\ OneInterfaceAddressed

-----------------------------------------------------------------------------
\* In the modes that use the cable, state ETHERNET and the Wi-Fi radio take turns.
\* A state ETHERNET with the radio still on is a turn of both, which InterfaceTurns
\* does not know: the refinement implies WifiOffOnEthernet for these modes.
\* This is a property of the state and the radio and not of addresses: W5500 and
\* netif get and keep the shared address by themselves, so that in mode wifi_only,
\* which is excepted here, both interfaces serve for good, and in the others from
\* a plugged cable to StopRadio; how that ends is OneInterfaceAddressed.
AllowedTurns ==
    IF ~UsesCable THEN {}
    ELSE IF cfg.net_mode = "eth_only" THEN {"ethernet"} ELSE {"ethernet", "radio"}
Turn ==
    CASE ~UsesCable -> "none"
      [] UsesCable /\ netState = "ETHERNET" /\ radio # "off" -> "both"
      [] UsesCable /\ netState = "ETHERNET" /\ radio = "off" -> "ethernet"
      [] UsesCable /\ netState # "ETHERNET" /\ radio # "off" -> "radio"
      [] UsesCable /\ netState # "ETHERNET" /\ radio = "off" -> "none"

Abstract == INSTANCE InterfaceTurns WITH allowed <- AllowedTurns, turn <- Turn
StateAndRadioTakeTurns == Abstract!Spec

-----------------------------------------------------------------------------
\* The boot ends: the state leaves INIT, on which the DNS and mDNS tasks wait.
LeavesInit == mainPc = "done" ~> netState # "INIT"

\* A cable that stays in takes the service over, and Wi-Fi stays off.
EthernetTakesOver ==
    (site.w5500 = "ok" /\ UsesCable /\ <>[]cable)
        => <>[](netState = "ETHERNET" /\ radio = "off")

\* With the cable out for good and the router in reach, the station ends up
\* connected; without a stored network, the access point ends up on.
WifiTakesOver ==
    (site.w5500 # "absent" /\ cfg.net_mode # "eth_only" /\ <>[](~cable) /\ <>[]router)
        => <>[](IF cfg.ssid THEN wifiConnected /\ conn = "connected" ELSE radio = "ap")

\* The service finds its interface after the boot and after every change that
\* lasts, in whatever order cable, router, drivers and tasks move.
FailsOver == LeavesInit /\ EthernetTakesOver /\ WifiTakesOver
=============================================================================
