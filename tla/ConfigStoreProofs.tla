-------------------------- MODULE ConfigStoreProofs --------------------------
(***************************************************************************)
(* Theorems about ConfigStore: its type invariant, and on it an inductive  *)
(* invariant in three parts.  DurableInv ties the last save to the flash,  *)
(* VersionInv follows the version through every copy of the configuration, *)
(* and CopyInv says what a copy owes to the load it came from.             *)
(***************************************************************************)
EXTENDS ConfigStore, TLAPS

\* storage_load_config yields a configuration of the current version from
\* whatever NVS holds.
LEMMA LoadedFact ==
    ASSUME NEW s \in Config \cup {Absent}
    PROVE  Loaded(s) \in Config /\ Loaded(s).version = Current
<1>1. Default \in Config /\ Default.version = Current
  BY DefaultsAssumption DEF Default, Config, Names, Current
<1> QED BY <1>1, AbsentAssumption DEF Loaded, Config, Current

\* Its results, with or without an error.
LEMMA LoadResultsFact ==
    ASSUME NEW s \in Config \cup {Absent}, NEW r \in LoadResults(s)
    PROVE  /\ r \in Results /\ r.cfg.version = Current /\ r.store = s
           /\ r.ok => r.cfg = Loaded(s)
<1>1. Default \in Config /\ Default.version = Current
  BY DefaultsAssumption DEF Default, Config, Names, Current
<1>2. r = [ok |-> TRUE, store |-> s, cfg |-> Loaded(s)]
        \/ r = [ok |-> FALSE, store |-> s, cfg |-> Default]
  BY DEF LoadResults
<1>3. Loaded(s) \in Config /\ Loaded(s).version = Current BY LoadedFact
<1>4. CASE r = [ok |-> TRUE, store |-> s, cfg |-> Loaded(s)]
  <2>1. r \in Results BY <1>3, <1>4 DEF Results
  <2> QED BY <1>3, <1>4, <2>1
<1>5. CASE r = [ok |-> FALSE, store |-> s, cfg |-> Default]
  <2>1. r \in Results BY <1>1, <1>5 DEF Results
  <2> QED BY <1>1, <1>5, <2>1
<1> QED BY <1>2, <1>4, <1>5

LEMMA NoLoadFact == NoLoad \in Results /\ Default \in Config /\ Default.version = Current
BY DefaultsAssumption DEF NoLoad, Results, Default, Config, Names, Current

\* A POST changes fields of a configuration, never its version.
LEMMA MergedFact ==
    ASSUME NEW c \in Config, NEW p \in Posts
    PROVE  Merged(c, p) \in Config /\ Merged(c, p).version = c.version
<1> USE PostsAssumption DEF Config
<1>1. Sent(p.host, c.host) \in Names BY DEF Sent
<1>2. Sent(p.dhcp, c.dhcp) \in {"on", "off"} BY DEF Sent
<1>3. Sent(p.ip, c.ip) \in Addresses \cup {NoAddress} BY DEF Sent
<1>4. Sent(p.user, c.user) \in Users BY DEF Sent
<1> QED BY <1>1, <1>2, <1>3, <1>4 DEF Merged

LEMMA CapturedFact ==
    ASSUME NEW c \in Config, NEW i \in Addresses \cup {NoAddress}
    PROVE  Captured(c, i) \in Config /\ Captured(c, i).version = c.version
BY DEF Captured, Config

-----------------------------------------------------------------------------
(* Type correctness.                                                       *)

\* The variables of ConfigStore keep their types.
THEOREM TypeCorrect == Spec => []TypeOK
<1> USE DEF Tasks, Nobody
<1>1. Init => TypeOK
  <2> SUFFICES ASSUME Init PROVE TypeOK OBVIOUS
  <2> USE DEF Init
  <2>1. flash \in Config \cup {Absent} BY FirstStoresAssumption
  <2>2. boot \in Config BY <2>1, LoadResultsFact DEF Results
  <2> QED BY <2>1, <2>2, NoLoadFact DEF TypeOK, NoSave
<1>2. TypeOK /\ [Next]_vars => TypeOK'
  <2> SUFFICES ASSUME TypeOK, [Next]_vars PROVE TypeOK' OBVIOUS
  <2> USE DEF TypeOK, store, bounds
  <2>1. ASSUME NEW t \in Tasks, SetBlob(t) PROVE TypeOK'
    BY <2>1 DEF SetBlob
  <2>2. ASSUME NEW t \in Tasks, Commit(t) PROVE TypeOK'
    BY <2>2, NoLoadFact DEF Commit, AfterSave, HttpdAfterSave, ProbeAfterSave, CaptureAfterSave, Forgets
  <2>3. ASSUME NEW t \in Tasks, SaveFails(t) PROVE TypeOK'
    BY <2>3, NoLoadFact DEF SaveFails, AfterSave, HttpdAfterSave, ProbeAfterSave, CaptureAfterSave, Forgets
  <2>4. ASSUME NEW i \in Addresses \cup ({boot.ip} \ {NoAddress}), GotIp(i) PROVE TypeOK'
    <3>1. i \in Addresses \cup {NoAddress} BY DEF Config
    <3>2. PICK r \in LoadResults(live) :
             IF r.ok /\ r.cfg.dhcp = "on"
             THEN /\ copy' = [copy EXCEPT !["evt"] = Captured(r.cfg, i)]
                  /\ base' = [base EXCEPT !["evt"] = r]
                  /\ pc' = [pc EXCEPT !["evt"] = "set"]
             ELSE UNCHANGED tasks
      BY <2>4 DEF GotIp
    <3>3. r \in Results /\ Captured(r.cfg, i) \in Config
      BY <3>1, LoadResultsFact, CapturedFact DEF Results
    <3>4. pc' \in [Tasks -> {"idle", "query", "set", "commit", "saved", "failed", "done"}]
            /\ copy' \in [Tasks -> Config] /\ base' \in [Tasks -> Results]
      BY <3>2, <3>3 DEF tasks
    <3> QED BY <3>4, <2>4 DEF GotIp
  <2>5. ASSUME NEW p \in Posts, PostSave(p) PROVE TypeOK'
    <3>1. PICK r \in LoadResults(live) :
             /\ copy' = [copy EXCEPT !["httpd"] = Merged(r.cfg, p)]
             /\ base' = [base EXCEPT !["httpd"] = r]
      BY <2>5 DEF PostSave
    <3>2. r \in Results /\ Merged(r.cfg, p) \in Config
      BY LoadResultsFact, MergedFact DEF Results
    <3> QED BY <3>1, <3>2, <2>5 DEF PostSave
  <2>6. CASE ReplyOk
    BY <2>6 DEF ReplyOk, ScheduleRestart
  <2>7. CASE ReplyError
    BY <2>7 DEF ReplyError
  <2>8. CASE ProbeLoads
    <3>1. PICK r \in LoadResults(live) :
             /\ copy' = [copy EXCEPT !["probe"] = r.cfg]
             /\ base' = [base EXCEPT !["probe"] = r]
      BY <2>8 DEF ProbeLoads
    <3>2. r \in Results /\ r.cfg \in Config BY LoadResultsFact DEF Results
    <3> QED BY <3>1, <3>2, <2>8 DEF ProbeLoads
  <2>9. ASSUME NEW h \in Probed, ProbeEnds(h) PROVE TypeOK'
    <3>1. [copy["probe"] EXCEPT !.host = h] \in Config BY DEF Config, Names
    <3> QED BY <3>1, <2>9 DEF ProbeEnds
  <2>10. ASSUME Reboot, failures' \in Nat PROVE TypeOK'
    <3>1. flash' \in Config \cup {Absent} BY <2>10 DEF Reboot
    <3>2. boot' \in Config BY <2>10, <3>1, LoadResultsFact DEF Reboot, BootsFrom, Results
    <3> QED BY <2>10, <3>1, <3>2, NoLoadFact DEF Reboot, BootsFrom, NoSave
  <2>11. CASE Restart \/ PowerFails
    BY <2>10, <2>11 DEF Restart, PowerFails
  <2>12. CASE UNCHANGED vars
    BY <2>12 DEF vars, tasks
  <2> QED BY <2>1, <2>2, <2>3, <2>4, <2>5, <2>6, <2>7, <2>8, <2>9, <2>11, <2>12 DEF Next, Save
<1> QED BY <1>1, <1>2, PTL DEF Spec

-----------------------------------------------------------------------------
(* The inductive invariant.                                                *)

\* The last save of this boot is what NVS returns; it is on the flash once its
\* commit has succeeded, and "OK" is only said after that.
DurableInv ==
    /\ last.by # Nobody => live = last.cfg
    /\ last.acked => last.by = "httpd" /\ flash = live
    /\ pc["httpd"] = "saved" /\ last.by = "httpd" => flash = live

VersionInv ==
    /\ boot.version = Current
    /\ \A t \in Tasks : copy[t].version = Current
    /\ last.by # Nobody => live.version = Current

\* A task's copy is what it loaded, up to the fields it is there to change.
CopyInv ==
    /\ pc["evt"] = "set" =>
          LET old == Loaded(base["evt"].store)
          IN old.dhcp = "on" /\ \E i \in Addresses \cup {NoAddress} : copy["evt"] = Captured(old, i)
    /\ pc["probe"] = "query" /\ base["probe"].ok => copy["probe"] = Loaded(base["probe"].store)
    /\ pc["probe"] = "set" /\ base["probe"].ok =>
          \E h \in Names : copy["probe"] = [Loaded(base["probe"].store) EXCEPT !.host = h]
    /\ pc["evt"] \in {"idle", "set", "commit"}

IInv == TypeOK /\ DurableInv /\ VersionInv /\ CopyInv

\* The invariant holds at first.
LEMMA InitIInv == Init => DurableInv /\ VersionInv /\ CopyInv
<1> SUFFICES ASSUME Init PROVE DurableInv /\ VersionInv /\ CopyInv OBVIOUS
<1> USE DEF Init, Tasks, Nobody
<1>1. boot.version = Current BY FirstStoresAssumption, LoadResultsFact
<1>2. DurableInv BY DEF DurableInv, NoSave
<1>3. VersionInv BY <1>1, NoLoadFact DEF VersionInv, NoSave
<1>4. CopyInv BY DEF CopyInv
<1> QED BY <1>2, <1>3, <1>4

\* A restart finds what was committed, or what was about to be.
LEMMA RebootFact ==
    ASSUME IInv, Reboot
    PROVE  DurableInv' /\ VersionInv' /\ CopyInv'
<1> USE DEF IInv, TypeOK, Tasks, Nobody, Reboot, BootsFrom
<1>1. boot'.version = Current
  <2>1. flash' \in Config \cup {Absent} OBVIOUS
  <2> QED BY <2>1, LoadResultsFact
<1>2. DurableInv' BY DEF DurableInv, NoSave
<1>3. VersionInv' BY <1>1, NoLoadFact DEF DurableInv, VersionInv, NoSave
<1>4. CopyInv' BY DEF CopyInv
<1> QED BY <1>2, <1>3, <1>4

\* Every step keeps the invariant.
LEMMA NextIInv ==
    ASSUME IInv, [Next]_vars
    PROVE  DurableInv' /\ VersionInv' /\ CopyInv'
<1> USE DEF IInv, TypeOK, Tasks, Nobody, store, bounds
<1>1. ASSUME NEW t \in Tasks, SetBlob(t) PROVE DurableInv' /\ VersionInv' /\ CopyInv'
  <2>1. DurableInv' BY <1>1 DEF SetBlob, DurableInv
  <2>2. VersionInv' BY <1>1 DEF SetBlob, VersionInv
  <2>3. CopyInv' BY <1>1 DEF SetBlob, CopyInv
  <2> QED BY <2>1, <2>2, <2>3
<1>2. ASSUME NEW t \in Tasks, Commit(t) PROVE DurableInv' /\ VersionInv' /\ CopyInv'
  <2>1. DurableInv' BY <1>2 DEF Commit, DurableInv
  <2>2. VersionInv' BY <1>2, NoLoadFact DEF Commit, Forgets, VersionInv
  <2>3. CopyInv' BY <1>2 DEF Commit, Forgets, AfterSave, HttpdAfterSave, ProbeAfterSave, CaptureAfterSave, CopyInv
  <2> QED BY <2>1, <2>2, <2>3
<1>3. ASSUME NEW t \in Tasks, SaveFails(t) PROVE DurableInv' /\ VersionInv' /\ CopyInv'
  <2>1. DurableInv' BY <1>3 DEF SaveFails, AfterSave, HttpdAfterSave, ProbeAfterSave, CaptureAfterSave, DurableInv
  <2>2. VersionInv' BY <1>3, NoLoadFact DEF SaveFails, Forgets, VersionInv
  <2>3. CopyInv' BY <1>3 DEF SaveFails, Forgets, AfterSave, HttpdAfterSave, ProbeAfterSave, CaptureAfterSave, CopyInv
  <2> QED BY <2>1, <2>2, <2>3
<1>4. ASSUME NEW i \in Addresses \cup ({boot.ip} \ {NoAddress}), GotIp(i)
      PROVE  DurableInv' /\ VersionInv' /\ CopyInv'
  <2>1. i \in Addresses \cup {NoAddress} BY DEF Config
  <2>2. PICK r \in LoadResults(live) :
           IF r.ok /\ r.cfg.dhcp = "on"
           THEN /\ copy' = [copy EXCEPT !["evt"] = Captured(r.cfg, i)]
                /\ base' = [base EXCEPT !["evt"] = r]
                /\ pc' = [pc EXCEPT !["evt"] = "set"]
           ELSE UNCHANGED tasks
    BY <1>4 DEF GotIp
  <2>3. CASE r.ok /\ r.cfg.dhcp = "on"
    <3>1. r.cfg = Loaded(r.store) /\ r.cfg \in Config /\ r.cfg.version = Current
      BY <2>3, LoadResultsFact DEF Results
    <3>2. Captured(r.cfg, i).version = Current BY <2>1, <3>1, CapturedFact
    <3>3. DurableInv' BY <1>4, <2>2, <2>3 DEF GotIp, DurableInv
    <3>4. VersionInv' BY <1>4, <2>2, <2>3, <3>2 DEF GotIp, VersionInv
    <3>5. CopyInv' BY <1>4, <2>1, <2>2, <2>3, <3>1 DEF GotIp, CopyInv
    <3> QED BY <3>3, <3>4, <3>5
  <2>4. CASE ~(r.ok /\ r.cfg.dhcp = "on")
    BY <1>4, <2>2, <2>4 DEF GotIp, tasks, DurableInv, VersionInv, CopyInv
  <2> QED BY <2>3, <2>4
<1>5. ASSUME NEW p \in Posts, PostSave(p) PROVE DurableInv' /\ VersionInv' /\ CopyInv'
  <2>1. PICK r \in LoadResults(live) :
           /\ copy' = [copy EXCEPT !["httpd"] = Merged(r.cfg, p)]
           /\ base' = [base EXCEPT !["httpd"] = r]
    BY <1>5 DEF PostSave
  <2>2. Merged(r.cfg, p).version = Current
    <3>1. r.cfg \in Config /\ r.cfg.version = Current BY LoadResultsFact DEF Results
    <3> QED BY <3>1, MergedFact
  <2>3. DurableInv' BY <1>5 DEF PostSave, DurableInv
  <2>4. VersionInv' BY <1>5, <2>1, <2>2 DEF PostSave, VersionInv
  <2>5. CopyInv' BY <1>5, <2>1 DEF PostSave, CopyInv
  <2> QED BY <2>3, <2>4, <2>5
<1>6. CASE ReplyOk
  BY <1>6 DEF ReplyOk, DurableInv, VersionInv, CopyInv
<1>7. CASE ReplyError
  BY <1>7 DEF ReplyError, DurableInv, VersionInv, CopyInv
<1>8. CASE ProbeLoads
  <2>1. PICK r \in LoadResults(live) :
           /\ copy' = [copy EXCEPT !["probe"] = r.cfg]
           /\ base' = [base EXCEPT !["probe"] = r]
    BY <1>8 DEF ProbeLoads
  <2>2. r.cfg.version = Current /\ (r.ok => r.cfg = Loaded(r.store)) BY LoadResultsFact
  <2>3. DurableInv' BY <1>8 DEF ProbeLoads, DurableInv
  <2>4. VersionInv' BY <1>8, <2>1, <2>2 DEF ProbeLoads, VersionInv
  <2>5. CopyInv' BY <1>8, <2>1, <2>2 DEF ProbeLoads, CopyInv
  <2> QED BY <2>3, <2>4, <2>5
<1>9. ASSUME NEW h \in Probed, ProbeEnds(h) PROVE DurableInv' /\ VersionInv' /\ CopyInv'
  <2>1. DurableInv' BY <1>9 DEF ProbeEnds, DurableInv
  <2>2. VersionInv' BY <1>9 DEF ProbeEnds, VersionInv, Config
  <2>3. copy'["probe"] = [copy["probe"] EXCEPT !.host = h] /\ h \in Names
    BY <1>9 DEF ProbeEnds, Names
  <2>4. CopyInv' BY <1>9, <2>3 DEF ProbeEnds, CopyInv
  <2> QED BY <2>1, <2>2, <2>4
<1>10. CASE Restart \/ PowerFails
  BY <1>10, RebootFact DEF Restart, PowerFails
<1>11. CASE UNCHANGED vars
  BY <1>11 DEF vars, tasks, DurableInv, VersionInv, CopyInv
<1> QED BY <1>1, <1>2, <1>3, <1>4, <1>5, <1>6, <1>7, <1>8, <1>9, <1>10, <1>11 DEF Next, Save

\* The invariant holds in every state the device reaches.
THEOREM Inductive == Spec => []IInv
<1>1. TypeOK /\ Init => IInv BY InitIInv DEF IInv
<1>2. TypeOK' /\ IInv /\ [Next]_vars => IInv' BY NextIInv DEF IInv
<1> QED BY <1>1, <1>2, TypeCorrect, PTL DEF Spec

-----------------------------------------------------------------------------
(* What follows from it.                                                   *)

\* A save answered "OK" survives restarts and power failures until another
\* save replaces it, for any number of POSTs, events and failures.
THEOREM DurableTheorem == Spec => []AckedSaveDurable
<1>1. IInv => AckedSaveDurable BY DEF IInv, DurableInv, AckedSaveDurable, Nobody
<1> QED BY <1>1, Inductive, PTL

\* A configuration of another version never comes into use.
THEOREM VersionTheorem == Spec => []OnlyCurrentVersions
<1>1. IInv => OnlyCurrentVersions BY DEF IInv, VersionInv, OnlyCurrentVersions
<1> QED BY <1>1, Inductive, PTL

\* A save whose load is not out of date changes only its task's own fields.
THEOREM FreshSaveTheorem == Spec => FreshSaveKeepsTheRest
<1> DEFINE old == Loaded(live)
    Keeps(t) == IF t = "evt"
                THEN old.dhcp = "on" /\ live' = [old EXCEPT !.dhcp = "off", !.ip = live'.ip]
                ELSE live' = [old EXCEPT !.host = live'.host]
    Fresh == \A t \in {"evt", "probe"} :
                Sets(t) /\ base[t].ok /\ base[t].store = live => Keeps(t)
<1>1. IInv /\ [Next]_vars => [Fresh]_vars
  <2> SUFFICES ASSUME IInv, Next, NEW t \in {"evt", "probe"},
                      Sets(t), base[t].ok, base[t].store = live
               PROVE  Keeps(t)
    OBVIOUS
  <2> USE DEF IInv, TypeOK, Tasks
  <2>1. old \in Config BY LoadedFact
  <2>2. live' = copy[t]
    <3>1. ASSUME NEW u \in Tasks, Save(u) PROVE live' = copy[t]
      <4>1. CASE SetBlob(u) BY <4>1 DEF SetBlob, Sets
      <4>2. CASE Commit(u) BY <4>2 DEF Commit, AfterSave, HttpdAfterSave, ProbeAfterSave, CaptureAfterSave, Sets
      <4>3. CASE SaveFails(u) BY <4>3 DEF SaveFails, AfterSave, HttpdAfterSave, ProbeAfterSave, CaptureAfterSave, Sets
      <4> QED BY <3>1, <4>1, <4>2, <4>3 DEF Save
    <3>2. ASSUME NEW i \in Addresses \cup ({boot.ip} \ {NoAddress}), GotIp(i) PROVE FALSE
      BY <3>2 DEF GotIp, Sets, tasks
    <3>3. ASSUME NEW p \in Posts, PostSave(p) PROVE FALSE
      BY <3>3 DEF PostSave, Sets
    <3>4. ASSUME NEW h \in Probed, ProbeEnds(h) PROVE FALSE
      BY <3>4 DEF ProbeEnds, Sets
    <3>5. CASE ReplyOk \/ ReplyError \/ ProbeLoads
      BY <3>5 DEF ReplyOk, ReplyError, ProbeLoads, Sets
    <3>6. CASE Restart \/ PowerFails
      BY <3>6 DEF Restart, PowerFails, Reboot, BootsFrom, Sets
    <3> QED BY <3>1, <3>2, <3>3, <3>4, <3>5, <3>6 DEF Next
  <2> HIDE DEF old
  <2>3. CASE t = "evt"
    <3>1. PICK i \in Addresses \cup {NoAddress} : copy["evt"] = Captured(old, i)
      BY <2>3 DEF CopyInv, Sets, old
    <3>2. old.dhcp = "on" BY <2>3 DEF CopyInv, Sets, old
    <3> QED BY <2>1, <2>2, <2>3, <3>1, <3>2 DEF Captured, Config
  <2>4. CASE t = "probe"
    <3>1. PICK h \in Names : copy["probe"] = [old EXCEPT !.host = h]
      BY <2>4 DEF CopyInv, Sets, old
    <3> QED BY <2>1, <2>2, <2>4, <3>1 DEF Config
  <2> QED BY <2>3, <2>4
<1> QED BY <1>1, Inductive, PTL DEF Spec, FreshSaveKeepsTheRest
=============================================================================
