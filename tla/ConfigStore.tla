----------------------------- MODULE ConfigStore -----------------------------
(***************************************************************************)
(* The stored configuration (storage_manager.c) and the three tasks that   *)
(* load it, change their copy and save it whole, with nothing to keep one  *)
(* from working in the middle of another:                                  *)
(*                                                                         *)
(*   - "evt", the event-loop task: both GOT_IP handlers capture the first  *)
(*     DHCP address as the fixed one (ethernet_w5500.c, wifi_manager.c);   *)
(*   - "httpd", the web server's task, with POST /save (web_config.c);     *)
(*   - "probe", mdns_probe_task (mdns_manager.c), which stores the         *)
(*     hostname it found free.                                             *)
(*                                                                         *)
(* NVS is external.  nvs_set_blob replaces the blob in one piece and every *)
(* later read sees it; until nvs_commit a restart may find the blob as it  *)
(* was.  Power fails at any time; POST /save restarts the device.          *)
(***************************************************************************)
EXTENDS Naturals

CONSTANTS
    Users, DefaultUser,   \* values of all fields only the user changes (Wi-Fi, upstream, mode)
    Probed, DefaultName,  \* hostnames the probe may choose
    Chosen,               \* hostnames a user types
    Addresses, NoAddress, \* values of ip, netmask and gw; the empty ones
    Unsent, Posts,        \* a field that a POST does not contain; the POSTs
    Absent,               \* no blob in NVS
    FirstStores,          \* what the flash may hold at first
    ReadsFail,            \* may nvs_open or nvs_get_blob fail?
    MaxPosts, MaxLeases, MaxFailures  \* bounds: POSTs, GOT_IP events, power failures

Names == Probed \cup Chosen
Current == "current"   \* CONFIG_VERSION_CURRENT
Config == [version : {Current, "other"}, host : Names, dhcp : {"on", "off"},
           ip : Addresses \cup {NoAddress}, user : Users]

ASSUME DefaultsAssumption == DefaultUser \in Users /\ DefaultName \in Probed
ASSUME AbsentAssumption == Absent \notin Config
ASSUME PostsAssumption ==
    Posts \subseteq [host : Names \cup {Unsent}, dhcp : {"on", "off", Unsent},
                     ip : Addresses \cup {NoAddress, Unsent}, user : Users \cup {Unsent}]
ASSUME FirstStoresAssumption == FirstStores \subseteq Config \cup {Absent}
ASSUME BoundsAssumption ==
    ReadsFail \in BOOLEAN /\ MaxPosts \in Nat /\ MaxLeases \in Nat /\ MaxFailures \in Nat

VARIABLES
    flash,    \* the blob a restart finds
    live,     \* the blob nvs_get_blob returns
    boot,     \* the configuration this boot started from
    pc,       \* of each task
    copy,     \* of each task: its faroldns_config_t while it has one
    base,     \* of each task, for the properties: what its load found
    restart,  \* is a restart_task waiting?
    last,     \* for the properties: the last nvs_set_blob of this boot, and was it answered "OK"
    posts, leases, failures  \* counters for the bounds

Tasks == {"evt", "httpd", "probe"}

tasks  == <<pc, copy, base>>
store  == <<flash, live>>
bounds == <<posts, leases, failures>>
vars   == <<store, boot, tasks, restart, last, bounds>>

Nobody == "nobody"
NoSave == [by |-> Nobody, cfg |-> Absent, acked |-> FALSE]

-----------------------------------------------------------------------------
(* storage_manager.c.                                                      *)

Default == [version |-> Current, host |-> DefaultName, dhcp |-> "on",
            ip |-> NoAddress, user |-> DefaultUser]

\* What storage_load_config makes of the blob.  Mutants: a missing blob is not
\* looked for; neither is another version.
LoadedRaw(s) == s
LoadedAnyVersion(s) == IF s = Absent THEN Default ELSE s
Loaded(s) == IF s = Absent \/ (s # Absent /\ s.version # Current) THEN Default ELSE s

\* Its results; on an error the defaults are left in the caller's struct.
LoadResults(s) ==
    {[ok |-> TRUE, store |-> s, cfg |-> Loaded(s)]}
      \cup (IF ReadsFail THEN {[ok |-> FALSE, store |-> s, cfg |-> Default]} ELSE {})

\* For the properties: the value of base while a task has loaded nothing.
NoLoad == [ok |-> FALSE, store |-> Absent, cfg |-> Default]

\* The struct is a local variable of storage_save_config's caller: httpd and
\* the capture return, and the probe does not look at it again.
Forgets(t) ==
    /\ copy' = [copy EXCEPT ![t] = Default]
    /\ base' = [base EXCEPT ![t] = NoLoad]

\* nvs_open and nvs_set_blob.
SetBlob(t) ==
    /\ pc[t] = "set"
    /\ live' = copy[t]
    /\ last' = [by |-> t, cfg |-> copy[t], acked |-> FALSE]
    /\ pc' = [pc EXCEPT ![t] = "commit"]
    /\ UNCHANGED <<flash, boot, copy, base, restart, bounds>>

\* Where its three callers go with the result: only httpd looks at it.
\* Mutant: httpd does not either.
HttpdAfterSaveUnchecked(ok) == "saved"
HttpdAfterSave(ok) == IF ok THEN "saved" ELSE "failed"
ProbeAfterSave == "done"
CaptureAfterSave == "idle"
AfterSave(t, ok) ==
    CASE t = "httpd" -> HttpdAfterSave(ok)
      [] t = "probe" -> ProbeAfterSave
      [] t = "evt" -> CaptureAfterSave

Commit(t) ==
    /\ pc[t] = "commit"
    /\ flash' = live
    /\ pc' = [pc EXCEPT ![t] = AfterSave(t, TRUE)]
    /\ Forgets(t)
    /\ UNCHANGED <<live, boot, restart, last, bounds>>

SaveFails(t) ==
    /\ pc[t] \in {"set", "commit"}
    /\ pc' = [pc EXCEPT ![t] = AfterSave(t, FALSE)]
    /\ Forgets(t)
    /\ UNCHANGED <<store, boot, restart, last, bounds>>

-----------------------------------------------------------------------------
(* GOT_IP, of Ethernet or of the station.                                  *)

\* Mutant: the captured address goes into a struct of defaults.
CapturedAlone(c, i) == [Default EXCEPT !.ip = i, !.dhcp = "off"]
Captured(c, i) == [c EXCEPT !.ip = i, !.dhcp = "off"]

\* The address comes from DHCP, or it is the fixed one the interface was given.
GotIp(i) ==
    /\ pc["evt"] = "idle" /\ leases < MaxLeases
    /\ leases' = leases + 1
    /\ \E r \in LoadResults(live) :
          IF r.ok /\ r.cfg.dhcp = "on"
          THEN /\ copy' = [copy EXCEPT !["evt"] = Captured(r.cfg, i)]
               /\ base' = [base EXCEPT !["evt"] = r]
               /\ pc' = [pc EXCEPT !["evt"] = "set"]
          ELSE UNCHANGED tasks
    /\ UNCHANGED <<store, boot, restart, last, posts, failures>>

-----------------------------------------------------------------------------
(* POST /save.  The page sends every field, other clients may send some.   *)

Sent(value, old) == IF value = Unsent THEN old ELSE value
Merged(c, p) == [c EXCEPT !.host = Sent(p.host, @), !.dhcp = Sent(p.dhcp, @),
                          !.ip = Sent(p.ip, @), !.user = Sent(p.user, @)]

PostSave(p) ==
    /\ pc["httpd"] = "idle" /\ posts < MaxPosts
    /\ posts' = posts + 1
    /\ \E r \in LoadResults(live) :
          /\ copy' = [copy EXCEPT !["httpd"] = Merged(r.cfg, p)]
          /\ base' = [base EXCEPT !["httpd"] = r]
    /\ pc' = [pc EXCEPT !["httpd"] = "set"]
    /\ UNCHANGED <<store, boot, restart, last, leases, failures>>

\* "OK", and the restart two seconds later.  Mutant: no restart.
ScheduleNothing == restart' = restart
ScheduleRestart == restart' = TRUE

ReplyOk ==
    /\ pc["httpd"] = "saved"
    /\ pc' = [pc EXCEPT !["httpd"] = "idle"]
    /\ last' = [last EXCEPT !.acked = (last.by = "httpd")]
    /\ ScheduleRestart
    /\ UNCHANGED <<store, boot, copy, base, bounds>>

ReplyError ==
    /\ pc["httpd"] = "failed"
    /\ pc' = [pc EXCEPT !["httpd"] = "idle"]
    /\ UNCHANGED <<store, boot, copy, base, restart, last, bounds>>

-----------------------------------------------------------------------------
(* mdns_probe_task.                                                        *)

ProbeLoads ==
    /\ pc["probe"] = "idle"
    /\ \E r \in LoadResults(live) :
          /\ copy' = [copy EXCEPT !["probe"] = r.cfg]
          /\ base' = [base EXCEPT !["probe"] = r]
    /\ pc' = [pc EXCEPT !["probe"] = "query"]
    /\ UNCHANGED <<store, boot, restart, last, bounds>>

\* Up to ten queries of a second each; the name chosen is up to the others on
\* the network.
ProbeEnds(h) ==
    /\ pc["probe"] = "query"
    /\ copy' = [copy EXCEPT !["probe"].host = h]
    /\ pc' = [pc EXCEPT !["probe"] = "set"]
    /\ UNCHANGED <<store, boot, base, restart, last, bounds>>

-----------------------------------------------------------------------------
(* Starting over.                                                          *)

BootsFrom(s) ==
    /\ boot' \in {r.cfg : r \in LoadResults(s)}
    /\ pc' = [t \in Tasks |-> "idle"]
    /\ copy' = [t \in Tasks |-> Default]
    /\ base' = [t \in Tasks |-> NoLoad]
    /\ restart' = FALSE

Reboot ==
    /\ flash' \in {flash, live}
    /\ live' = flash'
    /\ BootsFrom(flash')
    /\ last' = IF last.acked THEN last ELSE NoSave
    /\ UNCHANGED <<posts, leases>>

Restart == restart /\ Reboot /\ UNCHANGED failures
PowerFails == failures < MaxFailures /\ failures' = failures + 1 /\ Reboot

Init ==
    /\ flash \in FirstStores /\ live = flash
    /\ boot \in {r.cfg : r \in LoadResults(flash)}
    /\ pc = [t \in Tasks |-> "idle"] /\ copy = [t \in Tasks |-> Default]
    /\ base = [t \in Tasks |-> NoLoad]
    /\ restart = FALSE /\ last = NoSave
    /\ posts = 0 /\ leases = 0 /\ failures = 0

Save(t) == SetBlob(t) \/ Commit(t) \/ SaveFails(t)

Next ==
    \/ \E t \in Tasks : Save(t)
    \/ \E i \in Addresses \cup ({boot.ip} \ {NoAddress}) : GotIp(i)
    \/ (\E p \in Posts : PostSave(p)) \/ ReplyOk \/ ReplyError
    \/ ProbeLoads \/ (\E h \in Probed : ProbeEnds(h))
    \/ Restart \/ PowerFails

Spec == Init /\ [][Next]_vars

\* FreeRTOS runs every ready task, and the two seconds of restart_task pass.
Fairness == WF_vars(Restart) /\ WF_vars(ReplyOk) /\ WF_vars(ReplyError)
              /\ \A t \in Tasks : WF_vars(Save(t))
FairSpec == Spec /\ Fairness

-----------------------------------------------------------------------------
Results == [ok : BOOLEAN, store : Config \cup {Absent}, cfg : Config]

TypeOK ==
    /\ flash \in Config \cup {Absent} /\ live \in Config \cup {Absent}
    /\ boot \in Config
    /\ pc \in [Tasks -> {"idle", "query", "set", "commit", "saved", "failed", "done"}]
    /\ copy \in [Tasks -> Config] /\ base \in [Tasks -> Results]
    /\ restart \in BOOLEAN
    /\ last \in [by : Tasks \cup {Nobody}, cfg : Config \cup {Absent}, acked : BOOLEAN]
    /\ posts \in Nat /\ leases \in Nat /\ failures \in Nat

\* A save that the user was told "OK" survives every restart and power
\* failure, for as long as no other save replaces it.
AckedSaveDurable == last.acked => flash = last.cfg /\ live = last.cfg

\* Nothing of a configuration of another version is ever used or stored again.
OnlyCurrentVersions ==
    /\ boot.version = Current /\ \A t \in Tasks : copy[t].version = Current
    /\ last.by # Nobody => live.version = Current

Sets(t) == pc[t] = "set" /\ pc'[t] = "commit"

\* Where nothing came between its load and its save, the capture changes only
\* the address, from DHCP to fixed, and the probe only the hostname.
FreshSaveKeepsTheRest ==
    [][\A t \in {"evt", "probe"} :
          LET old == Loaded(live) IN
          Sets(t) /\ base[t].ok /\ base[t].store = live =>
             IF t = "evt"
             THEN old.dhcp = "on" /\ live' = [old EXCEPT !.dhcp = "off", !.ip = live'.ip]
             ELSE live' = [old EXCEPT !.host = live'.host]]_vars

\* The settings saved with "OK" are those the device comes to run with, or the
\* defaults where that load fails, unless another save replaces them first.
\* The hostname is not among them: mdns_probe_task asks for "faroldns1" and on
\* whatever name is stored, and stores the one that it then runs under.
Settings(c) == [dhcp |-> c.dhcp, ip |-> c.ip, user |-> c.user]
SavedSettingsRun ==
    last.acked ~> \/ ~last.acked
                  \/ Settings(boot) \in {Settings(last.cfg), Settings(Default)}

\* The settings that POST /save acknowledged are left alone by the capture of
\* an address and by the probe.
PostSurvives ==
    [][last.acked /\ (Sets("evt") \/ Sets("probe")) => live'.user = last.cfg.user]_vars
=============================================================================
