--------------------------- MODULE FailoverProofs ---------------------------
(***************************************************************************)
(* Machine-checked proofs about Failover, for every set of configurations  *)
(* and surroundings and every bound on the event queue.                    *)
(*                                                                         *)
(* The invariants of Failover are not inductive: they speak of the states  *)
(* in which net_monitor has published its decision, and not of the points  *)
(* between reading the link flag and publishing.  IInv says what holds at  *)
(* each of these points, and FlagInv how the two s_connected flags follow  *)
(* the events that are still on their way.                                 *)
(***************************************************************************)
EXTENDS Failover, TLAPS

OnWifi == netState \in {"WIFI_STA", "WIFI_AP"}

\* A link event reached ethernet_w5500.c after net_monitor's last look at the
\* flag, and net_monitor has been or is about to be notified of it.
Alerted == notified \/ handling \in EthLinkEvents

\* net_monitor exists once app_main is through network_manager_start.
TaskInv == monPc # "none" => mainPc = "done"

\* The Wi-Fi driver runs exactly in a mode that wifi_manager.c has recorded,
\* except between esp_wifi_stop and the end of wifi_manager_stop.
RadioInv ==
    IF monPc = "stop_netif" THEN radio = "off" /\ wifiMode # "NULL"
    ELSE radio = "off" <=> wifiMode = "NULL"

\* Wi-Fi is on in the Wi-Fi states only, and stopped before Ethernet is
\* published.
ModeInv ==
    /\ ~OnWifi => wifiMode = "NULL"
    /\ monPc \in {"set_eth", "start_wifi"} => wifiMode = "NULL"
    /\ monPc = "stop_radio" => wifiMode # "NULL"

\* What net_monitor's decision was based on, where it has not been carried
\* out yet.
DecisionInv ==
    /\ netState = "ETHERNET" => cfg.net_mode # "wifi_only"
    /\ monPc \in {"stop_radio", "stop_netif", "set_eth"} =>
         cfg.net_mode # "wifi_only" /\ netState # "ETHERNET"
    /\ monPc \in {"set_disconnected", "set_wifi"} => netState \in {"ETHERNET", "INIT"}
    /\ monPc \in {"set_wifi", "start_wifi"} => cfg.net_mode # "eth_only"
    /\ monPc \in {"stop_radio", "stop_netif", "start_wifi"} => OnWifi

\* The decision is still right, or an alert is on its way.
WakeInv ==
    /\ monPc \in {"stop_radio", "stop_netif", "set_eth"} => EthOk \/ Alerted
    /\ monPc \in {"set_disconnected", "set_wifi", "start_wifi"} => ~EthOk \/ Alerted
    /\ monPc = "sleep" => StateAgrees \/ Alerted

IInv == TaskInv /\ RadioInv /\ ModeInv /\ DecisionInv /\ WakeInv
-----------------------------------------------------------------------------
(* Types. *)

\* Posting several events at once.
LEMMA ConcatType ==
    ASSUME NEW a \in Seq(Events), NEW b \in Seq(Events), NEW c \in Seq(Events)
    PROVE  a \o b \o c \in Seq(Events)
  OBVIOUS

\* esp_wifi_stop posts Wi-Fi events only.
LEMMA StopEventsType == StopEvents \in Seq(Events)
<1>1. /\ <<>> \in Seq(Events)
      /\ <<"WIFI_STOP">> \in Seq(Events)
      /\ <<"STA_DISCONNECTED", "WIFI_STOP">> \in Seq(Events)
  BY DEF Events, WifiEvents
<1> QED
  BY <1>1, Zenon DEF StopEvents

\* The type invariant of Failover.
THEOREM TypeCorrect == Spec => []TypeOK
<1>1. Init => TypeOK
  <2> SUFFICES ASSUME Init PROVE TypeOK
    OBVIOUS
  <2>1. /\ ethLink \in BOOLEAN /\ ethIp \in BOOLEAN
        /\ ethConnected \in BOOLEAN /\ wifiConnected \in BOOLEAN
        /\ notified \in BOOLEAN
    BY Zenon DEF Init
  <2> QED
    BY <2>1 DEF Init, TypeOK, NetStates
<1>2. TypeOK /\ [Next]_vars => TypeOK'
  <2> SUFFICES ASSUME TypeOK, [Next]_vars PROVE TypeOK'
    OBVIOUS
  <2> USE DEF TypeOK, world, ethDrv, wifiDrv, events, flags, monitor
  <2>1. CASE CableMoves
    BY <2>1 DEF CableMoves
  <2>2. CASE RouterMoves
    BY <2>2 DEF RouterMoves, Events, WifiEvents
  <2>3. CASE EthLinkChanges
    <3>1. ethIp' \in BOOLEAN
      BY <2>3, Zenon DEF EthLinkChanges
    <3>2. queue' \in Seq(Events)
      BY <2>3 DEF EthLinkChanges, Events, EthEvents, EthLinkEvents
    <3> QED
      BY <2>3, <3>1, <3>2 DEF EthLinkChanges
  <2>4. CASE EthGetsAddress
    BY <2>4 DEF EthGetsAddress, Events, EthEvents
  <2>5. CASE StationConnects
    BY <2>5 DEF StationConnects, Events, WifiEvents
  <2>6. CASE StationFails
    BY <2>6 DEF StationFails, Events, WifiEvents
  <2>7. CASE EthInit
    BY <2>7 DEF EthInit
  <2>8. CASE PanicReboot
    BY <2>8 DEF PanicReboot
  <2>9. CASE RegisterHandlers
    BY <2>9 DEF RegisterHandlers
  <2>10. CASE CreateMonitorTask
    BY <2>10 DEF CreateMonitorTask
  <2>11. CASE EthEventHandler
    BY <2>11 DEF EthEventHandler, TakeEvent
  <2>12. CASE EthGotIpHandler
    BY <2>12 DEF EthGotIpHandler, TakeEvent
  <2>13. CASE EthEventNotifies
    <3>1. notified' \in BOOLEAN
      BY <2>13 DEF EthEventNotifies, Notify
    <3> QED
      BY <2>13, <3>1 DEF EthEventNotifies
  <2>14. CASE WifiEventNotifies
    BY <2>14 DEF WifiEventNotifies, TakeEvent, Notify
  <2>15. CASE WifiEventHandler
    <3>1. wifiConnected' \in BOOLEAN
      BY <2>15, Zenon DEF WifiEventHandler
    <3>2. conn' \in {"idle", "connecting", "connected"}
      BY <2>15 DEF WifiEventHandler, ConnectResult
    <3> QED
      <4>1. /\ handling' = "none"
            /\ UNCHANGED <<world, mainPc, ethDrv, radio, queue, ethConnected, wifiMode, monitor>>
        BY <2>15, Zenon DEF WifiEventHandler
      <4> QED
        BY <3>1, <3>2, <4>1
  <2>16. CASE BootWaitEnds
    <3>1. notified' \in BOOLEAN
      BY <2>16, Zenon DEF BootWaitEnds
    <3> QED
      BY <2>16, <3>1 DEF BootWaitEnds
  <2>17. CASE BootSkipsWait
    BY <2>17 DEF BootSkipsWait
  <2>18. CASE BootSettles
    BY <2>18 DEF BootSettles
  <2>19. CASE Check
    BY <2>19 DEF Check, Decision, EthOk
  <2>20. CASE StopRadio
    <3>1. queue' \in Seq(Events)
      BY <2>20, StopEventsType DEF StopRadio
    <3> QED
      BY <2>20, <3>1 DEF StopRadio
  <2>21. CASE StopNetif
    <3>1. wifiConnected' \in BOOLEAN
      BY <2>21, Zenon DEF StopNetif
    <3> QED
      BY <2>21, <3>1 DEF StopNetif
  <2>22. CASE SetState
    BY <2>22 DEF SetState, StateToSet, NetStates
  <2>23. CASE StartWifi
    <3>1. queue' \in Seq(Events)
      <4>1. <<IF cfg.ssid THEN "STA_START" ELSE "AP_START">> \in Seq(Events)
        BY DEF Events, WifiEvents
      <4> QED
        <5>1. queue' = queue \/ queue' = queue \o StopEvents \o <<IF cfg.ssid THEN "STA_START" ELSE "AP_START">>
          BY <2>23, Zenon DEF StartWifi
        <5> QED
          BY <4>1, <5>1, StopEventsType, ConcatType, ZenonT(30)
    <3>2. wifiConnected' \in BOOLEAN
      BY <2>23, Zenon DEF StartWifi
    <3>3. radio' \in {"off", "sta", "ap"} /\ conn' \in {"idle", "connecting", "connected"}
      BY <2>23 DEF StartWifi
    <3>4. wifiMode' \in {"NULL", "STA", "AP"}
      BY <2>23 DEF StartWifi
    <3> QED
      BY <2>23, <3>1, <3>2, <3>3, <3>4 DEF StartWifi
  <2>24. CASE SleepEnds
    <3>1. notified' \in BOOLEAN
      BY <2>24, Zenon DEF SleepEnds
    <3> QED
      BY <2>24, <3>1 DEF SleepEnds
  <2>25. CASE UNCHANGED vars
    BY <2>25 DEF vars
  <2> QED
    BY <2>1, <2>2, <2>3, <2>4, <2>5, <2>6, <2>7, <2>8, <2>9, <2>10, <2>11, <2>12, <2>13, <2>14, <2>15, <2>16, <2>17, <2>18, <2>19, <2>20, <2>21, <2>22, <2>23, <2>24, <2>25
    DEF Next, World, EthDriver, WifiDriver, Main, EventTask, Monitor
<1> QED
  BY <1>1, <1>2, PTL DEF Spec
-----------------------------------------------------------------------------
(* The inductive invariant. *)

\* What IInv speaks of.
iinvVars == <<cfg, mainPc, radio, handling, ethConnected, wifiMode, monitor>>

\* A step that leaves these variables alone keeps IInv.
LEMMA Frame == ASSUME IInv, UNCHANGED iinvVars PROVE IInv'
  BY DEF IInv, TaskInv, RadioInv, ModeInv, DecisionInv, WakeInv, OnWifi, Alerted, StateAgrees,
         EthOk, iinvVars, monitor

\* Every step keeps IInv.
LEMMA IInvStep == ASSUME TypeOK, IInv, [Next]_vars PROVE IInv'
<1> USE DEF TypeOK, NetStates, world, ethDrv, wifiDrv, events, flags, monitor
<1>1. CASE World \/ EthDriver \/ WifiDriver \/ UNCHANGED vars
  BY <1>1, Frame DEF World, EthDriver, WifiDriver, CableMoves, RouterMoves, EthLinkChanges,
     EthGetsAddress, StationConnects, StationFails, iinvVars, vars
<1>2. CASE EthInit \/ PanicReboot \/ RegisterHandlers
  BY <1>2 DEF EthInit, PanicReboot, RegisterHandlers, IInv, TaskInv, RadioInv, ModeInv, DecisionInv,
     WakeInv, OnWifi, Alerted, StateAgrees, EthOk
<1>3. CASE CreateMonitorTask
  BY <1>3 DEF CreateMonitorTask, IInv, TaskInv, RadioInv, ModeInv, DecisionInv, WakeInv, OnWifi
<1>4. CASE EthEventHandler
  BY <1>4 DEF EthEventHandler, TakeEvent, EthLinkEvents, IInv, TaskInv, RadioInv, ModeInv, DecisionInv,
     WakeInv, OnWifi, Alerted
<1>5. CASE EthGotIpHandler
  BY <1>5 DEF EthGotIpHandler, TakeEvent, EthLinkEvents, IInv, TaskInv, RadioInv, ModeInv, DecisionInv,
     WakeInv, OnWifi, Alerted, StateAgrees, EthOk
<1>6. CASE EthEventNotifies
  BY <1>6 DEF EthEventNotifies, Registered, Notify, IInv, TaskInv, RadioInv, ModeInv, DecisionInv,
     WakeInv, OnWifi, Alerted, StateAgrees, EthOk
<1>7. CASE WifiEventNotifies
  BY <1>7 DEF WifiEventNotifies, TakeEvent, Notify, EthLinkEvents, IInv, TaskInv, RadioInv, ModeInv,
     DecisionInv, WakeInv, OnWifi, Alerted, StateAgrees, EthOk
<1>8. CASE WifiEventHandler
  <2>1. /\ handling \in WifiEvents /\ handling' = "none"
        /\ UNCHANGED <<cfg, mainPc, radio, ethConnected, wifiMode, monitor>>
    BY <1>8, Zenon DEF WifiEventHandler
  <2> QED
    BY <2>1 DEF WifiEvents, EthLinkEvents, IInv, TaskInv, RadioInv, ModeInv, DecisionInv,
       WakeInv, OnWifi, Alerted, StateAgrees, EthOk
<1>9. CASE BootWaitEnds \/ BootSkipsWait \/ BootSettles
  BY <1>9 DEF BootWaitEnds, BootSkipsWait, BootSettles, IInv, TaskInv, RadioInv, ModeInv, DecisionInv,
     WakeInv, OnWifi
<1>10. CASE Check
  BY <1>10, ConfigsAssumption DEF Check, Decision, NetModes, IInv, TaskInv, RadioInv, ModeInv, DecisionInv,
     WakeInv, OnWifi, Alerted, StateAgrees, EthOk
<1>11. CASE StopRadio
  BY <1>11 DEF StopRadio, IInv, TaskInv, RadioInv, ModeInv, DecisionInv, WakeInv, OnWifi, Alerted, EthOk
<1>12. CASE StopNetif
  BY <1>12 DEF StopNetif, IInv, TaskInv, RadioInv, ModeInv, DecisionInv, WakeInv, OnWifi, Alerted, EthOk
<1>13. CASE SetState
  BY <1>13 DEF SetState, StateToSet, IInv, TaskInv, RadioInv, ModeInv, DecisionInv, WakeInv, OnWifi, Alerted,
     StateAgrees, EthOk
<1>14. CASE StartWifi
  BY <1>14 DEF StartWifi, IInv, TaskInv, RadioInv, ModeInv, DecisionInv, WakeInv, OnWifi, Alerted,
     StateAgrees, EthOk
<1>15. CASE SleepEnds
  BY <1>15 DEF SleepEnds, IInv, TaskInv, RadioInv, ModeInv, DecisionInv, WakeInv, OnWifi
<1> QED
  BY <1>1, <1>2, <1>3, <1>4, <1>5, <1>6, <1>7, <1>8, <1>9, <1>10, <1>11, <1>12, <1>13, <1>14, <1>15
  DEF Next, Main, EventTask, Monitor

\* IInv holds at every point of net_monitor, in every behaviour.
THEOREM Inductive == Spec => []IInv
<1>1. Init => IInv
  BY DEF Init, IInv, TaskInv, RadioInv, ModeInv, DecisionInv, WakeInv, OnWifi
<1> QED
  BY <1>1, IInvStep, TypeCorrect, PTL DEF Spec

\* While the published state is ETHERNET the Wi-Fi radio is off
\* (network_monitor_task: wifi_manager_stop before set_state, set_state
\* before wifi_manager_start_*).
THEOREM WifiOffTheorem == Spec => []WifiOffOnEthernet
<1>1. IInv => WifiOffOnEthernet
  BY DEF IInv, RadioInv, ModeInv, DecisionInv, OnWifi, WifiOffOnEthernet
<1> QED
  BY <1>1, Inductive, PTL

\* net_monitor never sleeps on a link event it has not been notified of.
THEOREM WakeupTheorem == Spec => []NoLostWakeup
<1>1. IInv => NoLostWakeup
  BY DEF IInv, WakeInv, Alerted, NoLostWakeup
<1> QED
  BY <1>1, Inductive, PTL

-----------------------------------------------------------------------------
(* Failover implements InterfaceTurns. *)

\* A step of Failover ends or begins a turn as InterfaceTurns does, or neither.
LEMMA RefinementStep == ASSUME IInv, [Next]_vars PROVE [Abstract!Next]_(Abstract!turnVars)
<1> USE DEF world, ethDrv, wifiDrv, events, flags, monitor, Abstract!turnVars
\* Only these steps touch what the refinement mapping reads.
<1>1. CASE UNCHANGED <<cfg, netState, radio>>
  BY <1>1 DEF AllowedTurns, Turn, UsesCable
<1>2. [Next]_vars => UNCHANGED <<cfg, netState, radio>> \/ StopRadio \/ SetState \/ StartWifi
  BY Zenon DEF Next, World, EthDriver, WifiDriver, Main, EventTask, Monitor, vars,
     CableMoves, RouterMoves, EthLinkChanges, EthGetsAddress, StationConnects, StationFails,
     EthInit, PanicReboot, RegisterHandlers, CreateMonitorTask, EthEventHandler,
     EthGotIpHandler, EthEventNotifies, WifiEventNotifies, WifiEventHandler,
     BootWaitEnds, BootSkipsWait, BootSettles, Check, StopNetif, SleepEnds
\* In mode wifi_only nobody has a turn.
<1>3. CASE ~UsesCable /\ (StopRadio \/ SetState \/ StartWifi)
  BY <1>3 DEF StopRadio, SetState, StartWifi, AllowedTurns, Turn, UsesCable
<1>4. CASE UsesCable /\ StopRadio
  <2>1. Turn \in {"radio", "none"} /\ Turn' = "none" /\ UNCHANGED AllowedTurns
    BY <1>4 DEF StopRadio, IInv, DecisionInv, Turn, AllowedTurns, UsesCable
  <2> QED
    BY <2>1 DEF Abstract!Next, Abstract!End
<1>5. CASE UsesCable /\ SetState /\ monPc = "set_eth"
  <2>1. /\ Turn = "none" /\ Turn' = "ethernet" /\ "ethernet" \in AllowedTurns
        /\ UNCHANGED AllowedTurns
    BY <1>5 DEF SetState, StateToSet, IInv, RadioInv, ModeInv, DecisionInv, Turn, AllowedTurns, UsesCable
  <2> QED
    BY <2>1 DEF Abstract!Next, Abstract!Begin, Abstract!Sides
<1>6. CASE UsesCable /\ SetState /\ monPc # "set_eth"
  <2>1. Turn \in {"ethernet", "none"} /\ Turn' = "none" /\ UNCHANGED AllowedTurns
    BY <1>6 DEF SetState, StateToSet, IInv, RadioInv, ModeInv, DecisionInv, OnWifi, Turn, AllowedTurns, UsesCable
  <2> QED
    BY <2>1 DEF Abstract!Next, Abstract!End
<1>7. CASE UsesCable /\ StartWifi
  <2>1. /\ Turn = "none" /\ Turn' = "radio" /\ "radio" \in AllowedTurns
        /\ UNCHANGED AllowedTurns
    BY <1>7 DEF StartWifi, IInv, RadioInv, ModeInv, DecisionInv, OnWifi, Turn, AllowedTurns, UsesCable
  <2> QED
    BY <2>1 DEF Abstract!Next, Abstract!Begin, Abstract!Sides
<1> QED
  BY <1>1, <1>2, <1>3, <1>4, <1>5, <1>6, <1>7

\* In every mode that uses the cable the published state ETHERNET and the radio
\* take turns, for every configuration.  (Not a claim on addresses: these are
\* the drivers', and net_monitor does not hold them back.)
THEOREM TurnsTheorem == Spec => StateAndRadioTakeTurns
<1>1. Init => Abstract!Init
  BY DEF Init, Abstract!Init, Abstract!Sides, Turn, AllowedTurns, UsesCable
<1>2. Spec => [][Abstract!Next]_(Abstract!turnVars)
  BY RefinementStep, Inductive, PTL DEF Spec
<1> QED
  BY <1>1, <1>2, PTL DEF Spec, StateAndRadioTakeTurns, Abstract!Spec

-----------------------------------------------------------------------------
(* The station keeps trying. *)

Retries == {"STA_START", "STA_DISCONNECTED"}

\* A pending event stays pending when others are posted behind it, ...
LEMMA PendingPosted ==
    ASSUME TypeOK, NEW s \in Seq(Events), queue' = queue \o s, handling' = handling,
           Pending(Retries)
    PROVE  Pending(Retries)'
<1>1. CASE handling \in Retries
  BY <1>1 DEF Pending
<1>2. CASE \E i \in 1 .. Len(queue) : queue[i] \in Retries
  <2>1. PICK i \in 1 .. Len(queue) : queue[i] \in Retries
    BY <1>2
  <2>2. i \in 1 .. Len(queue') /\ queue'[i] = queue[i]
    BY <2>1 DEF TypeOK
  <2> QED
    BY <2>1, <2>2 DEF Pending
<1> QED
  BY <1>1, <1>2 DEF Pending

\* ... and an event of Retries posted last is pending.
LEMMA PendingLast ==
    ASSUME TypeOK, NEW s \in Seq(Events), NEW e \in Retries, queue' = s \o <<e>>
    PROVE  Pending(Retries)'
<1>1. Len(queue') \in 1 .. Len(queue') /\ queue'[Len(queue')] = e
  OBVIOUS
<1> QED
  BY <1>1 DEF Pending

\* Taking the first event keeps what was pending: it is being handled now or
\* is still queued.
LEMMA PendingTaken ==
    ASSUME TypeOK, NEW E, TakeEvent(E), Pending(Retries)
    PROVE  Pending(Retries)'
<1>1. PICK i \in 1 .. Len(queue) : queue[i] \in Retries
  BY DEF Pending, TakeEvent, Retries
<1>2. queue \in Seq(Events) /\ queue # <<>> /\ handling' = Head(queue) /\ queue' = Tail(queue)
  BY DEF TypeOK, TakeEvent
<1>3. CASE i = 1
  BY <1>1, <1>2, <1>3 DEF Pending
<1>4. CASE i # 1
  <2>1. i - 1 \in 1 .. Len(queue') /\ queue'[i - 1] = queue[i]
    BY <1>1, <1>2, <1>4
  <2> QED
    BY <1>1, <2>1 DEF Pending
<1> QED
  BY <1>3, <1>4

\* No step leaves the station without an attempt or an event to come.
LEMMA StrandedStep ==
    ASSUME TypeOK, StationNotStranded, [Next]_vars
    PROVE  StationNotStranded'
<1> SUFFICES ASSUME radio' = "sta", conn' = "idle" PROVE Pending(Retries)'
  BY DEF StationNotStranded, Retries
<1> USE DEF TypeOK, world, ethDrv, wifiDrv, events, flags, monitor
<1>1. radio = "sta" /\ conn = "idle" => Pending(Retries)
  BY DEF StationNotStranded, Retries
<1>2. <<"STA_DISCONNECTED">> \in Seq(Events) /\ \A e \in Events : <<e>> \in Seq(Events)
  BY DEF Events, WifiEvents
<1>3. CASE RouterMoves
  BY <1>1, <1>2, <1>3, PendingLast DEF RouterMoves, Retries, Pending
<1>4. CASE StationFails
  BY <1>4, PendingLast DEF StationFails, Retries
<1>5. CASE StationConnects
  BY <1>5 DEF StationConnects
<1>6. CASE EthLinkChanges
  <2>1. PICK e \in Events : queue' = queue \o <<e>>
    BY <1>6 DEF EthLinkChanges, Events, EthEvents, EthLinkEvents
  <2> QED
    BY <1>1, <1>2, <1>6, <2>1, PendingPosted DEF EthLinkChanges
<1>7. CASE EthGetsAddress
  <2>1. "ETH_GOT_IP" \in Events
    BY DEF Events, EthEvents
  <2>2. queue' = queue \o <<"ETH_GOT_IP">>
    BY <1>7 DEF EthGetsAddress
  <2> QED
    BY <1>1, <1>2, <1>7, <2>1, <2>2, PendingPosted DEF EthGetsAddress
<1>8. CASE EthEventHandler \/ EthGotIpHandler \/ WifiEventNotifies
  <2>1. UNCHANGED <<radio, conn>> /\ \E E : TakeEvent(E)
    BY <1>8, Zenon DEF EthEventHandler, EthGotIpHandler, WifiEventNotifies, wifiDrv
  <2> QED
    BY <1>1, <2>1, PendingTaken
<1>9. CASE EthEventNotifies
  BY <1>1, <1>9 DEF EthEventNotifies, EthEvents, EthLinkEvents, Retries, Pending
<1>10. CASE WifiEventHandler
  <2>1. /\ radio' = radio /\ queue' = queue
        /\ conn' = IF handling \in Retries THEN ConnectResult ELSE conn
    BY <1>10, Zenon DEF WifiEventHandler, Retries
  <2>2. conn = "idle" /\ handling \notin Retries
    BY <2>1 DEF ConnectResult
  <2> QED
    BY <1>1, <2>1, <2>2 DEF Pending
<1>11. CASE StopRadio
  BY <1>11 DEF StopRadio
<1>12. CASE StartWifi
  <2>1. CASE UNCHANGED <<wifiDrv, queue, handling>>
    BY <1>1, <2>1 DEF Pending
  <2>2. CASE /\ radio' = IF cfg.ssid THEN "sta" ELSE "ap"
             /\ queue' = queue \o StopEvents \o <<IF cfg.ssid THEN "STA_START" ELSE "AP_START">>
    <3>1. queue' = (queue \o StopEvents) \o <<"STA_START">> /\ queue \o StopEvents \in Seq(Events)
      BY <2>2, StopEventsType
    <3> QED
      BY <3>1, PendingLast DEF Retries
  <2> QED
    BY <1>12, <2>1, <2>2, Zenon DEF StartWifi
<1>13. CASE UNCHANGED <<wifiDrv, queue, handling>>
  BY <1>1, <1>13 DEF Pending
<1> QED
  BY <1>3, <1>4, <1>5, <1>6, <1>7, <1>8, <1>9, <1>10, <1>11, <1>12, <1>13, Zenon
  DEF Next, World, EthDriver, WifiDriver, Main, EventTask, Monitor, vars, CableMoves,
      EthInit, PanicReboot, RegisterHandlers, CreateMonitorTask, BootWaitEnds,
      BootSkipsWait, BootSettles, Check, StopNetif, SetState, SleepEnds

\* A started station that is not connected always has an esp_wifi_connect to
\* come: under way in the driver, or in the handler of an event on its way.
THEOREM StationTheorem == Spec => []StationNotStranded
<1>1. Init => StationNotStranded
  BY DEF Init, StationNotStranded
<1> QED
  BY <1>1, StrandedStep, TypeCorrect, PTL DEF Spec

-----------------------------------------------------------------------------
(* Where the flags and the addresses end up.                                *)

\* The events of E in a queue: there is none, or the last of them is e.
NoneIn(q, E) == \A i \in 1 .. Len(q) : q[i] \notin E
LastIn(q, E, e) ==
    \E i \in 1 .. Len(q) : q[i] = e /\ \A j \in i + 1 .. Len(q) : q[j] \notin E

\* Without events of E on their way, posting others brings none.
LEMMA NonePosted ==
    ASSUME NEW q \in Seq(Events), NEW s \in Seq(Events), NEW E,
           NoneIn(q, E), NoneIn(s, E)
    PROVE  NoneIn(q \o s, E)
<1> SUFFICES ASSUME NEW i \in 1 .. Len(q \o s) PROVE (q \o s)[i] \notin E
  BY DEF NoneIn
<1>1. CASE i <= Len(q)
  <2>1. (q \o s)[i] = q[i] /\ i \in 1 .. Len(q)
    BY <1>1
  <2> QED
    BY <2>1 DEF NoneIn
<1>2. CASE i > Len(q)
  <2>1. (q \o s)[i] = s[i - Len(q)] /\ i - Len(q) \in 1 .. Len(s)
    BY <1>2
  <2> QED
    BY <2>1 DEF NoneIn
<1> QED
  BY <1>1, <1>2

\* The last event of E stays the last one.
LEMMA LastKept ==
    ASSUME NEW q \in Seq(Events), NEW s \in Seq(Events), NEW E, NEW e,
           LastIn(q, E, e), NoneIn(s, E)
    PROVE  LastIn(q \o s, E, e)
<1>1. PICK i \in 1 .. Len(q) : q[i] = e /\ \A j \in i + 1 .. Len(q) : q[j] \notin E
  BY DEF LastIn
<1>2. i \in 1 .. Len(q \o s) /\ (q \o s)[i] = e
  BY <1>1
<1>3. ASSUME NEW j \in i + 1 .. Len(q \o s) PROVE (q \o s)[j] \notin E
  <2>1. CASE j <= Len(q)
    <3>1. (q \o s)[j] = q[j] /\ j \in i + 1 .. Len(q)
      BY <1>1, <2>1
    <3> QED
      BY <1>1, <3>1
  <2>2. CASE j > Len(q)
    <3>1. (q \o s)[j] = s[j - Len(q)] /\ j - Len(q) \in 1 .. Len(s)
      BY <1>1, <2>2
    <3> QED
      BY <3>1 DEF NoneIn
  <2> QED
    BY <1>1, <2>1, <2>2
<1> QED
  BY <1>2, <1>3 DEF LastIn

\* An event of E that is posted last is the last one.
LEMMA LastPosted ==
    ASSUME NEW q \in Seq(Events), NEW s \in Seq(Events), NEW E, NEW e, LastIn(s, E, e)
    PROVE  LastIn(q \o s, E, e)
<1>1. PICK i \in 1 .. Len(s) : s[i] = e /\ \A j \in i + 1 .. Len(s) : s[j] \notin E
  BY DEF LastIn
<1>2. i + Len(q) \in 1 .. Len(q \o s) /\ (q \o s)[i + Len(q)] = e
  BY <1>1
<1>3. ASSUME NEW j \in i + Len(q) + 1 .. Len(q \o s) PROVE (q \o s)[j] \notin E
  <2>1. (q \o s)[j] = s[j - Len(q)] /\ j - Len(q) \in i + 1 .. Len(s)
    BY <1>1
  <2> QED
    BY <1>1, <2>1
<1> QED
  BY <1>2, <1>3 DEF LastIn

\* Without events of E on their way, the one taken is not of E.
LEMMA NoneTaken ==
    ASSUME NEW q \in Seq(Events), q # <<>>, NEW E, NoneIn(q, E)
    PROVE  Head(q) \notin E /\ NoneIn(Tail(q), E)
<1>1. Head(q) \notin E
  <2>1. 1 \in 1 .. Len(q) /\ Head(q) = q[1]
    OBVIOUS
  <2> QED
    BY <2>1 DEF NoneIn
<1>2. ASSUME NEW i \in 1 .. Len(Tail(q)) PROVE Tail(q)[i] \notin E
  <2>1. Tail(q)[i] = q[i + 1] /\ i + 1 \in 1 .. Len(q)
    OBVIOUS
  <2> QED
    BY <2>1 DEF NoneIn
<1> QED
  BY <1>1, <1>2 DEF NoneIn

\* The last event of E is still to come, or it is the one that is taken.
LEMMA LastTaken ==
    ASSUME NEW q \in Seq(Events), q # <<>>, NEW E, NEW e, LastIn(q, E, e)
    PROVE  LastIn(Tail(q), E, e) \/ (Head(q) = e /\ NoneIn(Tail(q), E))
<1>1. PICK i \in 1 .. Len(q) : q[i] = e /\ \A j \in i + 1 .. Len(q) : q[j] \notin E
  BY DEF LastIn
<1>2. ASSUME NEW j \in i .. Len(Tail(q)) PROVE Tail(q)[j] \notin E
  <2>1. Tail(q)[j] = q[j + 1] /\ j + 1 \in i + 1 .. Len(q)
    BY <1>1
  <2> QED
    BY <1>1, <2>1
<1>3. CASE i = 1
  BY <1>1, <1>2, <1>3 DEF NoneIn
<1>4. CASE i # 1
  <2>1. i - 1 \in 1 .. Len(Tail(q)) /\ Tail(q)[i - 1] = e
    BY <1>1, <1>4
  <2>2. \A j \in (i - 1) + 1 .. Len(Tail(q)) : Tail(q)[j] \notin E
    BY <1>2
  <2> QED
    BY <2>1, <2>2 DEF LastIn
<1> QED
  BY <1>3, <1>4

\* The last link event on its way tells the link; without one the flag does.
LinkEvent == IF ethLink THEN "ETH_CONNECTED" ELSE "ETH_DISCONNECTED"
LinkInv ==
    \/ LastIn(queue, EthLinkEvents, LinkEvent)
    \/ NoneIn(queue, EthLinkEvents) /\ ethConnected = ethLink

\* The same for the station, whose flag is set by the second handler.
StaEvents == {"STA_DISCONNECTED", "STA_GOT_IP"}
StaEvent == IF conn = "connected" THEN "STA_GOT_IP" ELSE "STA_DISCONNECTED"
StaInv ==
    \/ LastIn(queue, StaEvents, StaEvent)
    \/ NoneIn(queue, StaEvents) /\ handling = StaEvent
    \/ /\ NoneIn(queue, StaEvents) /\ handling \notin StaEvents
       /\ wifiConnected = (conn = "connected")

\* Only a link carries an address, and only a started station connects.
DriverInv == (ethIp => ethLink) /\ (radio # "sta" => conn = "idle")

FlagInv == LinkInv /\ StaInv /\ DriverInv

\* One event of E, or several events none of which is of E.
LEMMA OneEvent ==
    ASSUME NEW E, NEW e \in Events
    PROVE  /\ <<e>> \in Seq(Events) /\ LastIn(<<e>>, E, e)
           /\ e \notin E => NoneIn(<<e>>, E)
  BY DEF LastIn, NoneIn

\* What posting does to the last event of E that is on its way.
LEMMA NothingPosted ==
    ASSUME UNCHANGED <<queue, handling, ethLink, ethConnected, conn, wifiConnected>>
    PROVE  (LinkInv => LinkInv') /\ (StaInv => StaInv')
  BY DEF LinkInv, StaInv, LinkEvent, StaEvent

\* Every step keeps the link flag in step with the link events on their way.
LEMMA LinkStep ==
    ASSUME TypeOK, LinkInv, [Next]_vars
    PROVE  LinkInv'
<1> USE DEF world, ethDrv, wifiDrv, events, flags, monitor
<1> DEFINE L == EthLinkEvents
<1>1. queue \in Seq(Events) /\ LinkEvent \in L /\ L \subseteq Events
  BY DEF TypeOK, LinkEvent, EthLinkEvents, Events, EthEvents
\* Posting what is no link event.
<1>2. ASSUME NEW s \in Seq(Events), queue' = queue \o s, NoneIn(s, L), UNCHANGED <<ethLink, ethConnected>>
      PROVE  LinkInv'
  BY <1>1, <1>2, NonePosted, LastKept DEF LinkInv, LinkEvent
\* Taking what is no link event.
<1>3. ASSUME NEW E, TakeEvent(E), E \cap L = {}, UNCHANGED <<ethLink, ethConnected>>
      PROVE  LinkInv'
  <2>1. queue # <<>> /\ queue' = Tail(queue) /\ Head(queue) \notin L
    BY <1>3 DEF TakeEvent
  <2> QED
    BY <1>1, <1>3, <2>1, NoneTaken, LastTaken DEF LinkInv, LinkEvent
<1>4. CASE EthLinkChanges
  <2> DEFINE e == IF cable THEN "ETH_CONNECTED" ELSE "ETH_DISCONNECTED"
  <2>1. queue' = queue \o <<e>> /\ LinkEvent' = e
    BY <1>4 DEF EthLinkChanges, LinkEvent
  <2>2. e \in Events
    BY DEF EthLinkEvents, Events, EthEvents
  <2> HIDE DEF e
  <2>3. LastIn(queue \o <<e>>, L, e)
    BY <1>1, <2>2, OneEvent, LastPosted
  <2> QED
    BY <2>1, <2>3 DEF LinkInv
<1>5. CASE EthEventHandler
  <2>1. queue # <<>> /\ queue' = Tail(queue) /\ Head(queue) \in L /\ ethLink' = ethLink
        /\ ethConnected' = (Head(queue) = "ETH_CONNECTED")
    BY <1>5 DEF EthEventHandler, TakeEvent
  <2>2. LastIn(queue, L, LinkEvent)
    BY <1>1, <2>1, NoneTaken DEF LinkInv
  <2>3. LastIn(Tail(queue), L, LinkEvent) \/ (Head(queue) = LinkEvent /\ NoneIn(Tail(queue), L))
    BY <1>1, <2>1, <2>2, LastTaken
  <2>4. ethLink \in BOOLEAN
    BY DEF TypeOK
  <2>5. Head(queue) = LinkEvent => ethConnected' = ethLink
    BY <2>1, <2>4 DEF LinkEvent
  <2> QED
    BY <2>1, <2>3, <2>5 DEF LinkInv, LinkEvent
<1>6. CASE RouterMoves
  <2>1. "STA_DISCONNECTED" \in Events /\ "STA_DISCONNECTED" \notin L
    BY DEF Events, WifiEvents, EthLinkEvents
  <2>2. UNCHANGED <<ethLink, ethConnected>> /\ (queue' = queue \/ queue' = queue \o <<"STA_DISCONNECTED">>)
    BY <1>6 DEF RouterMoves
  <2> QED
    BY <1>2, <2>1, <2>2, OneEvent DEF LinkInv, LinkEvent
<1>7. CASE EthGetsAddress \/ StationConnects \/ StationFails
  <2>1. PICK e \in {"ETH_GOT_IP", "STA_GOT_IP", "STA_DISCONNECTED"} :
          UNCHANGED <<ethLink, ethConnected>> /\ queue' = queue \o <<e>>
    BY <1>7, SMTT(30) DEF EthGetsAddress, StationConnects, StationFails
  <2>2. e \in Events /\ e \notin L
    BY <2>1 DEF Events, WifiEvents, EthEvents, EthLinkEvents
  <2> QED
    BY <1>2, <2>1, <2>2, OneEvent
<1>8. CASE EthGotIpHandler
  BY <1>3, <1>8 DEF EthGotIpHandler, EthLinkEvents
<1>9. CASE WifiEventNotifies
  BY <1>3, <1>9 DEF WifiEventNotifies, WifiEvents, EthLinkEvents
<1>10. StopEvents \in Seq(Events) /\ NoneIn(StopEvents, L)
  <2>1. NoneIn(<<>>, L) /\ NoneIn(<<"STA_DISCONNECTED", "WIFI_STOP">>, L) /\ NoneIn(<<"WIFI_STOP">>, L)
    BY DEF NoneIn, EthLinkEvents
  <2> QED
    BY <2>1, StopEventsType, Zenon DEF StopEvents
<1>11. CASE StopRadio
  BY <1>2, <1>10, <1>11 DEF StopRadio
<1>12. CASE StartWifi
  <2> DEFINE e == IF cfg.ssid THEN "STA_START" ELSE "AP_START"
  <2>1. e \in Events /\ e \notin L
    BY DEF Events, WifiEvents, EthLinkEvents
  <2>2. UNCHANGED <<ethLink, ethConnected>> /\ (queue' = queue \/ queue' = queue \o StopEvents \o <<e>>)
    BY <1>12, Zenon DEF StartWifi
  <2> HIDE DEF e
  <2>3. CASE queue' = queue
    BY <2>2, <2>3 DEF LinkInv, LinkEvent
  <2>4. CASE queue' = queue \o StopEvents \o <<e>>
    <3>1. <<e>> \in Seq(Events) /\ NoneIn(<<e>>, L)
      BY <2>1, OneEvent
    <3>2. StopEvents \o <<e>> \in Seq(Events)
      BY <1>10, <3>1
    <3>4. NoneIn(StopEvents \o <<e>>, L)
      BY <1>10, <3>1, NonePosted
    <3>3. queue' = queue \o (StopEvents \o <<e>>)
      BY <1>1, <1>10, <2>4, <3>1
    <3> QED
      BY <1>2, <2>2, <3>2, <3>3, <3>4
  <2> QED
    BY <2>2, <2>3, <2>4
<1>13. CASE UNCHANGED <<queue, ethLink, ethConnected>>
  BY <1>13 DEF LinkInv, LinkEvent
<1> QED
  BY <1>4, <1>5, <1>6, <1>7, <1>8, <1>9, <1>11, <1>12, <1>13, Zenon
  DEF Next, World, EthDriver, WifiDriver, Main, EventTask, Monitor, vars, CableMoves,
      EthInit, PanicReboot, RegisterHandlers, CreateMonitorTask, EthEventNotifies,
      WifiEventHandler, BootWaitEnds, BootSkipsWait, BootSettles, Check, StopNetif,
      SetState, SleepEnds

\* The same for the station's flag; wifi_manager_stop and wifi_manager_start_*
\* reset it only while the radio is off.
LEMMA StaStep ==
    ASSUME TypeOK, IInv, DriverInv, StaInv, [Next]_vars
    PROVE  StaInv'
<1> USE DEF world, ethDrv, wifiDrv, events, flags, monitor
<1> DEFINE S == StaEvents
<1>1. /\ queue \in Seq(Events) /\ StaEvent \in S /\ S \subseteq Events
      /\ conn \in {"idle", "connecting", "connected"} /\ wifiConnected \in BOOLEAN
  BY DEF TypeOK, StaEvent, StaEvents, Events, WifiEvents
\* Posting an event of the station.
<1>2. ASSUME NEW e \in S, queue' = queue \o <<e>>, StaEvent' = e
      PROVE  StaInv'
  <2>1. e \in Events
    BY <1>1
  <2>2. LastIn(queue \o <<e>>, S, e)
    BY <1>1, <2>1, OneEvent, LastPosted
  <2> QED
    BY <1>2, <2>2 DEF StaInv
\* Posting what is none, while the station stays as connected as it was.
<1>3. ASSUME NEW s \in Seq(Events), queue' = queue \o s, NoneIn(s, S), handling' = handling,
             wifiConnected' = wifiConnected, (conn' = "connected") = (conn = "connected")
      PROVE  StaInv'
  <2>1. StaEvent' = StaEvent
    BY <1>3 DEF StaEvent
  <2> QED
    BY <1>1, <1>3, <2>1, NonePosted, LastKept DEF StaInv
\* The first handler of an event.
<1>4. ASSUME NEW E, TakeEvent(E), UNCHANGED <<conn, wifiConnected>>
      PROVE  StaInv'
  <2>1. /\ queue # <<>> /\ queue' = Tail(queue) /\ handling' = Head(queue) /\ handling = "none"
        /\ StaEvent' = StaEvent
    BY <1>4 DEF TakeEvent, StaEvent
  <2>2. CASE LastIn(queue, S, StaEvent)
    <3>1. LastIn(Tail(queue), S, StaEvent) \/ (Head(queue) = StaEvent /\ NoneIn(Tail(queue), S))
      BY <1>1, <2>1, <2>2, LastTaken
    <3> QED
      BY <2>1, <3>1 DEF StaInv
  <2>3. CASE NoneIn(queue, S)
    <3>1. Head(queue) \notin S /\ NoneIn(Tail(queue), S)
      BY <1>1, <2>1, <2>3, NoneTaken
    <3>2. wifiConnected = (conn = "connected") \/ LastIn(queue, S, StaEvent)
      BY <2>1 DEF StaInv, StaEvent
    <3> QED
      BY <1>4, <2>1, <2>2, <3>1, <3>2 DEF StaInv
  <2> QED
    BY <2>2, <2>3 DEF StaInv
<1>5. CASE RouterMoves
  <2>1. CASE router /\ conn = "connected"
    <3>1. queue' = queue \o <<"STA_DISCONNECTED">> /\ conn' = "idle"
      BY <1>5, <2>1 DEF RouterMoves
    <3> QED
      BY <1>2, <3>1 DEF StaEvent, StaEvents
  <2>2. CASE ~(router /\ conn = "connected")
    BY <1>5, <2>2 DEF RouterMoves, StaInv, StaEvent
  <2> QED
    BY <2>1, <2>2
<1>6. CASE StationConnects
  BY <1>2, <1>6 DEF StationConnects, StaEvent, StaEvents
<1>7. CASE StationFails
  BY <1>2, <1>7 DEF StationFails, StaEvent, StaEvents
<1>8. CASE EthLinkChanges \/ EthGetsAddress
  <2>1. PICK e \in EthEvents :
          UNCHANGED <<conn, handling, wifiConnected>> /\ queue' = queue \o <<e>>
    BY <1>8, SMTT(30) DEF EthLinkChanges, EthGetsAddress, EthEvents, EthLinkEvents
  <2>2. e \in Events /\ e \notin S
    BY <2>1 DEF Events, EthEvents, EthLinkEvents, StaEvents
  <2> QED
    BY <1>3, <2>1, <2>2, OneEvent
<1>9. CASE EthEventHandler \/ EthGotIpHandler \/ WifiEventNotifies
  <2>1. UNCHANGED <<conn, wifiConnected>> /\ \E E : TakeEvent(E)
    BY <1>9, Zenon DEF EthEventHandler, EthGotIpHandler, WifiEventNotifies, wifiDrv, flags
  <2> QED
    BY <1>4, <2>1
<1>10. CASE EthEventNotifies
  <2>1. handling \notin S /\ handling' \notin S /\ UNCHANGED <<queue, conn, wifiConnected>>
    BY <1>10 DEF EthEventNotifies, EthEvents, EthLinkEvents, StaEvents
  <2> QED
    BY <1>1, <2>1 DEF StaInv, StaEvent
<1>11. CASE WifiEventHandler
  <2>1. /\ handling' = "none" /\ queue' = queue
        /\ (handling = "STA_DISCONNECTED" => ~wifiConnected')
        /\ (handling = "STA_GOT_IP" => wifiConnected' /\ conn' = conn)
        /\ (handling \notin S => wifiConnected' = wifiConnected)
        /\ (conn' = conn \/ conn' = ConnectResult)
    BY <1>11, Zenon DEF WifiEventHandler, StaEvents
  <2>2. (conn' = "connected") = (conn = "connected")
    BY <2>1 DEF ConnectResult
  <2>3. wifiConnected' \in BOOLEAN
    BY <1>11, <1>1, Zenon DEF WifiEventHandler
  <2>4. StaEvent' = StaEvent /\ handling' \notin S
    BY <2>1, <2>2 DEF StaEvent, StaEvents
  <2>5. CASE LastIn(queue, S, StaEvent)
    BY <2>1, <2>4, <2>5 DEF StaInv
  <2>6. CASE NoneIn(queue, S) /\ handling = StaEvent
    <3>1. wifiConnected' = (conn' = "connected")
      BY <2>1, <2>2, <2>3, <2>6 DEF StaEvent
    <3> QED
      BY <2>1, <2>4, <2>6, <3>1 DEF StaInv
  <2>7. CASE NoneIn(queue, S) /\ handling \notin S /\ wifiConnected = (conn = "connected")
    <3>1. wifiConnected' = (conn' = "connected")
      BY <2>1, <2>2, <2>7
    <3> QED
      BY <2>1, <2>4, <2>7, <3>1 DEF StaInv
  <2> QED
    BY <2>5, <2>6, <2>7 DEF StaInv
<1>12. CASE StopRadio
  <2>1. queue' = queue \o StopEvents /\ conn' = "idle" /\ UNCHANGED <<handling, wifiConnected>>
    BY <1>12 DEF StopRadio
  <2>2. CASE conn = "connected" /\ radio # "off"
    <3> DEFINE s == <<"STA_DISCONNECTED", "WIFI_STOP">>
               e == "STA_DISCONNECTED"
    <3>1. queue' = queue \o s /\ StaEvent' = e
      BY <2>1, <2>2 DEF StopEvents, StaEvent
    <3>2. s \in Seq(Events) /\ LastIn(s, S, e)
      BY DEF LastIn, StaEvents, Events, WifiEvents
    <3> HIDE DEF s, e
    <3>3. LastIn(queue \o s, S, e)
      BY <1>1, <3>2, LastPosted
    <3> QED
      BY <3>1, <3>3 DEF StaInv
  <2>3. CASE conn # "connected"
    <3>1. NoneIn(<<>>, S) /\ NoneIn(<<"WIFI_STOP">>, S)
      BY DEF NoneIn, StaEvents
    <3>2. NoneIn(StopEvents, S)
      BY <2>3, <3>1 DEF StopEvents
    <3> QED
      BY <1>3, <2>1, <2>3, <3>2, StopEventsType
  <2> QED
    BY <2>2, <2>3 DEF DriverInv
<1>13. CASE StopNetif
  <2>1. conn = "idle" /\ ~wifiConnected' /\ wifiConnected' \in BOOLEAN /\ UNCHANGED <<queue, handling, conn>>
    BY <1>13, Zenon DEF StopNetif, IInv, RadioInv, DriverInv
  <2> QED
    BY <2>1 DEF StaInv, StaEvent
<1>14. CASE StartWifi
  <2> DEFINE e == IF cfg.ssid THEN "STA_START" ELSE "AP_START"
  <2>1. wifiMode = "NULL" /\ radio = "off" /\ conn = "idle" /\ StopEvents = <<>>
    BY <1>14 DEF StartWifi, IInv, RadioInv, ModeInv, DriverInv, StopEvents
  <2>2. e \in Events /\ e \notin S
    BY DEF Events, WifiEvents, StaEvents
  <2>3. queue' = queue \o StopEvents \o <<e>> /\ conn' = "idle" /\ handling' = handling
        /\ wifiConnected' = (wifiConnected /\ wifiMode = "NULL")
    BY <1>14, <2>1, Zenon DEF StartWifi
  <2> HIDE DEF e
  <2>4. queue' = queue \o <<e>> /\ wifiConnected' = wifiConnected
    BY <1>1, <2>1, <2>2, <2>3
  <2> QED
    BY <1>3, <2>1, <2>2, <2>3, <2>4, OneEvent
<1>15. CASE UNCHANGED <<queue, handling, conn, wifiConnected>>
  BY <1>15 DEF StaInv, StaEvent
<1> QED
  BY <1>5, <1>6, <1>7, <1>8, <1>9, <1>10, <1>11, <1>12, <1>13, <1>14, <1>15, Zenon
  DEF Next, World, EthDriver, WifiDriver, Main, EventTask, Monitor, vars, CableMoves,
      EthInit, PanicReboot, RegisterHandlers, CreateMonitorTask, BootWaitEnds,
      BootSkipsWait, BootSettles, Check, SetState, SleepEnds

\* The drivers keep their addresses apart.
LEMMA DriverStep ==
    ASSUME TypeOK, DriverInv, [Next]_vars
    PROVE  DriverInv'
<1> USE DEF world, ethDrv, wifiDrv, events, flags, monitor, TypeOK, DriverInv
<1>1. CASE EthLinkChanges \/ EthGetsAddress
  BY <1>1, Zenon DEF EthLinkChanges, EthGetsAddress
<1>2. CASE RouterMoves \/ StationConnects \/ StationFails
  BY <1>2 DEF RouterMoves, StationConnects, StationFails
<1>3. CASE WifiEventHandler
  <2>1. UNCHANGED <<ethDrv, radio>> /\ (conn' = conn \/ conn' = ConnectResult)
    BY <1>3, <1>1, Zenon DEF WifiEventHandler
  <2> QED
    BY <2>1 DEF ConnectResult
<1>4. CASE StopRadio \/ StartWifi
  BY <1>4 DEF StopRadio, StartWifi
<1>5. CASE UNCHANGED <<ethDrv, wifiDrv>>
  BY <1>5
<1> QED
  BY <1>1, <1>2, <1>3, <1>4, <1>5, Zenon
  DEF Next, World, EthDriver, WifiDriver, Main, EventTask, Monitor, vars, CableMoves,
      EthInit, PanicReboot, RegisterHandlers, CreateMonitorTask, EthEventHandler,
      EthGotIpHandler, EthEventNotifies, WifiEventNotifies, BootWaitEnds,
      BootSkipsWait, BootSettles, Check, StopNetif, SetState, SleepEnds

\* The flags follow the events on their way, in every behaviour.
THEOREM FlagTheorem == Spec => []FlagInv
<1>1. Init => FlagInv
  <2> SUFFICES ASSUME Init PROVE FlagInv
    OBVIOUS
  <2>1. NoneIn(queue, EthLinkEvents) /\ NoneIn(queue, StaEvents)
    BY DEF Init, NoneIn
  <2>2. /\ ethConnected = ethLink /\ wifiConnected = (conn = "connected") /\ DriverInv
        /\ handling \notin StaEvents
    BY DEF Init, DriverInv, StaEvents
  <2> QED
    BY <2>1, <2>2 DEF FlagInv, LinkInv, StaInv
<1>2. TypeOK /\ IInv /\ FlagInv /\ [Next]_vars => FlagInv'
  BY LinkStep, StaStep, DriverStep DEF FlagInv
<1> QED
  BY <1>1, <1>2, TypeCorrect, Inductive, PTL DEF Spec

\* Once nothing more is to be handled, the s_connected flags of ethernet_w5500.c
\* and wifi_manager.c tell the truth, and in a mode that uses the cable only one
\* interface has an address.
THEOREM SettlesTheorem == Spec => []SettlesTruly
<1>1. TypeOK /\ IInv /\ FlagInv => SettlesTruly
  <2> SUFFICES ASSUME TypeOK, IInv, FlagInv PROVE SettlesTruly
    OBVIOUS
  <2>1. ASSUME Drained PROVE ethConnected = ethLink /\ wifiConnected = (conn = "connected")
    <3>1. queue = <<>> /\ handling = "none"
      BY <2>1 DEF Drained
    <3>2. \A E, e : ~LastIn(queue, E, e)
      BY <3>1 DEF LastIn
    <3>3. handling # StaEvent
      BY <3>1 DEF StaEvent
    <3> QED
      BY <3>2, <3>3 DEF FlagInv, LinkInv, StaInv
  <2>2. ASSUME AtRest, cfg.net_mode # "wifi_only" PROVE ~BothAddressed
    <3> SUFFICES ASSUME BothAddressed PROVE FALSE
      OBVIOUS
    <3>1. ethConnected /\ EthOk
      BY <2>1, <2>2 DEF AtRest, BothAddressed, FlagInv, DriverInv, EthOk
    <3>2. StateAgrees
      BY <2>2 DEF AtRest, Drained, IInv, WakeInv, Alerted, EthLinkEvents
    <3>3. netState = "ETHERNET"
      BY <3>1, <3>2 DEF StateAgrees
    <3>4. radio = "off"
      BY <2>2, <3>3 DEF AtRest, IInv, RadioInv, ModeInv, OnWifi
    <3> QED
      BY <3>4 DEF BothAddressed, FlagInv, DriverInv
  <2> QED
    BY <2>1, <2>2 DEF SettlesTruly, FlagsSettle, OneInterfaceAddressed, UsesCable
<1> QED
  BY <1>1, TypeCorrect, Inductive, FlagTheorem, PTL
=============================================================================
