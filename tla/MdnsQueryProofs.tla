---------------------------- MODULE MdnsQueryProofs ----------------------------
(***************************************************************************)
(* Machine-checked proofs about MdnsQuery, for any number of clients,      *)
(* searches, queries and packets, every length of the queue and every      *)
(* width of the clock.                                                     *)
(*                                                                         *)
(* SearchesOwned is not inductive.  IInv adds what makes comparing         *)
(* addresses enough: behind a search's ACTION_SEARCH_ADD the queue has no  *)
(* action for its address (QueueInv), for a search that is still to be     *)
(* added is not in the list (AddInv), and the timer posts only for those   *)
(* that are; and who frees a search is the one client that has it          *)
(* (ClientInv), when it is over.                                           *)
(***************************************************************************)
EXTENDS MdnsQuery, SequenceTheorems, TLAPS

\* A search in the heap, with no more results than it may have.
Occupied == {r \in Search : r.max # 0 => r.num <= r.max}
Posted == Actions \ {NoAction}
ForSearches == {"add", "send", "end"}
Concerns(a, s) == a.type \in ForSearches /\ a.s = s

QueueInv ==
    /\ \A j, k \in DOMAIN actq :
         j < k /\ actq[j].type = "add" => ~Concerns(actq[k], actq[j].s)
    /\ cur.type = "add" => \A k \in DOMAIN actq : ~Concerns(actq[k], cur.s)
AddInv ==
    \A a \in Pending : a.type = "add" =>
        /\ heap[a.s] # Free /\ heap[a.s].state = "init" /\ ~heap[a.s].sem
        /\ ~InList(a.s)
ListInv == \A s \in list : heap[s] # Free /\ ~heap[s].sem
SemInv ==
    \A s \in Searches : heap[s] # Free /\ heap[s].sem =>
        heap[s].state = "off" /\ ~heap[s].notifier
ClientInv ==
    /\ \A c \in Clients : client[c].pc # "idle" =>
         client[c].s \in Searches /\ heap[client[c].s] # Free
    /\ \A c, d \in Clients :
         c # d /\ client[c].pc # "idle" /\ client[d].pc # "idle" => client[c].s # client[d].s
OwnInv == QueueInv /\ AddInv /\ ListInv /\ LeftoversMissTheirTarget /\ SemInv /\ ClientInv
IInv == TypeOK /\ OwnInv

-----------------------------------------------------------------------------
(* Types. *)

LEMMA ModType ==
    ASSUME NEW x \in Int
    PROVE  x % Modulus \in 0 .. Modulus - 1
  BY NumbersAssumption

LEMMA OccupiedNotFree ==
    ASSUME NEW r \in Occupied
    PROVE  r # Free /\ r \in Search
  BY DEF Occupied, Search, Free

LEMMA HeapType ==
    /\ TypeOK => heap \in [Searches -> Occupied \cup {Free}]
    /\ heap \in [Searches -> Occupied \cup {Free}] =>
         /\ heap \in [Searches -> Search \cup {Free}]
         /\ \A s \in Searches : heap[s] # Free /\ heap[s].max # 0 => heap[s].num <= heap[s].max
  BY DEF TypeOK, Occupied

\* A field of a search that does not count its results.
LEMMA SetState ==
    ASSUME NEW r \in Occupied, NEW st \in {"init", "running", "off"},
           NEW t \in 0 .. Modulus - 1, NEW n \in BOOLEAN, NEW m \in BOOLEAN
    PROVE  LET q == [r EXCEPT !.state = st, !.sent = t, !.notifier = n, !.sem = m] IN
           q \in Occupied /\ q.gen = r.gen /\ q.sem = m /\ q.notifier = n /\ q.state = st
  BY DEF Occupied, Search

LEMMA FinishedType ==
    ASSUME NEW r \in Occupied
    PROVE  /\ Finished(r) \in Occupied /\ Finished(r).gen = r.gen
           /\ Finished(r).state = "off" /\ ~Finished(r).notifier /\ Finished(r).sem
  BY DEF Occupied, Search, Finished

LEMMA AddResultsType ==
    ASSUME NEW r \in Occupied, NEW n \in {1, 2}
    PROVE  /\ AddResults(r, n) \in Occupied /\ AddResults(r, n).gen = r.gen
           /\ AddResults(r, n).state = r.state /\ AddResults(r, n).sem = r.sem
           /\ AddResults(r, n).notifier = r.notifier
<1> DEFINE num == IF r.max # 0 /\ r.num + n > r.max THEN r.max ELSE r.num + n
<1>1. r \in Search /\ r.max \in Nat /\ r.num \in Nat
  BY NumbersAssumption DEF Occupied, Search
<1>2. num \in Nat /\ (r.max # 0 => num <= r.max)
  BY <1>1
<1>3. AddResults(r, n) = [r EXCEPT !.num = num]
  BY DEF AddResults
<1> HIDE DEF num
<1> QED
  BY <1>1, <1>2, <1>3 DEF Occupied, Search

LEMMA NewSearchType ==
    ASSUME TypeOK, queries < MaxQueries, NEW kind, NEW max \in Limits
    PROVE  /\ NewSearch(kind, max) \in Occupied /\ NewSearch(kind, max).gen = queries + 1
           /\ NewSearch(kind, max).state = "init" /\ ~NewSearch(kind, max).sem
  BY NumbersAssumption DEF TypeOK, NewSearch, Occupied, Search

LEMMA AfterScanType ==
    ASSUME TypeOK, NEW s \in Searches, heap[s] \in Occupied
    PROVE  /\ AfterScan(s) \in Occupied /\ AfterScan(s).gen = heap[s].gen
           /\ AfterScan(s).sem = heap[s].sem /\ AfterScan(s).notifier = heap[s].notifier
           /\ heap[s].state = "off" => AfterScan(s) = heap[s]
<1> DEFINE r == heap[s]
           before == (now + Modulus - Resend) % Modulus
<1>1. now \in 0 .. Modulus - 1 /\ now + Modulus - Resend \in Int
  BY NumbersAssumption DEF TypeOK
<1>2. before \in 0 .. Modulus - 1
  BY <1>1, ModType
<1> HIDE DEF before
<1>3. \A st \in {"init", "running", "off"} :
        /\ [r EXCEPT !.state = st] \in Occupied /\ [r EXCEPT !.state = st].gen = r.gen
        /\ [r EXCEPT !.state = st].sem = r.sem /\ [r EXCEPT !.state = st].notifier = r.notifier
  BY DEF Occupied, Search
<1>4. \A t \in 0 .. Modulus - 1 :
        LET q == [r EXCEPT !.state = "running", !.sent = t] IN
        q \in Occupied /\ q.gen = r.gen /\ q.sem = r.sem /\ q.notifier = r.notifier
  BY DEF Occupied, Search
<1>5. CASE r.state = "off"
  <2>1. AfterScan(s) = r
    BY <1>5 DEF AfterScan
  <2> QED
    BY <2>1
<1>6. CASE r.state # "off" /\ Over(s)
  <2>1. AfterScan(s) = [r EXCEPT !.state = IF Room THEN "off" ELSE "running"]
    BY <1>6 DEF AfterScan
  <2> QED
    BY <1>3, <1>6, <2>1
<1>7. CASE r.state # "off" /\ ~Over(s) /\ SendAgain(s)
  <2>1. AfterScan(s) = [r EXCEPT !.state = "running", !.sent = IF Room THEN now ELSE before]
    BY <1>7 DEF AfterScan, before
  <2> QED
    BY <1>1, <1>2, <1>4, <1>7, <2>1
<1>8. CASE r.state # "off" /\ ~Over(s) /\ ~SendAgain(s)
  <2>1. AfterScan(s) = r
    BY <1>8 DEF AfterScan
  <2> QED
    BY <2>1
<1> QED
  BY <1>5, <1>6, <1>7, <1>8

-----------------------------------------------------------------------------
(* The queue. *)

LEMMA PostedType ==
    /\ NoAction \in Actions /\ [type |-> "rx"] \in Posted
    /\ \A type \in ForSearches, s \in Searches, g \in 1 .. MaxQueries :
         [type |-> type, s |-> s, gen |-> g] \in Posted
    /\ \A a \in Actions : a.type \in ForSearches => a.s \in Searches
  BY DEF Actions, Posted, NoAction, ForSearches

\* An action is put behind the others.
LEMMA Posting ==
    ASSUME TypeOK, NEW a \in Posted, Room, actq' = Append(actq, a), cur' = cur
    PROVE  /\ actq' \in Seq(Posted) /\ Len(actq') <= QueueLen
           /\ Pending' = Pending \cup {a}
           /\ QueueInv /\ (\A b \in Pending : b.type = "add" => ~Concerns(a, b.s)) => QueueInv'
<1>1. actq \in Seq(Posted) /\ Len(actq) \in Nat /\ QueueLen \in Nat
  BY NumbersAssumption DEF TypeOK, Posted
<1>2. /\ actq' \in Seq(Posted) /\ Len(actq') = Len(actq) + 1
      /\ \A i \in 1 .. Len(actq) : actq'[i] = actq[i]
      /\ actq'[Len(actq) + 1] = a
  BY <1>1, AppendProperties
<1>3. DOMAIN actq = 1 .. Len(actq) /\ DOMAIN actq' = 1 .. Len(actq) + 1
  BY <1>1, <1>2, LenProperties
<1>4. Len(actq') <= QueueLen
  BY <1>1, <1>2 DEF Room
<1>5. Pending' = Pending \cup {a}
  BY <1>1, <1>2, <1>3 DEF Pending
<1>6. ASSUME QueueInv, \A b \in Pending : b.type = "add" => ~Concerns(a, b.s)
      PROVE  QueueInv'
  <2>1. ASSUME NEW j \in DOMAIN actq', NEW k \in DOMAIN actq', j < k, actq'[j].type = "add"
        PROVE  ~Concerns(actq'[k], actq'[j].s)
    <3>1. j \in DOMAIN actq /\ actq'[j] = actq[j] /\ actq[j] \in Pending
      BY <1>1, <1>2, <1>3, <2>1 DEF Pending
    <3>2. CASE k \in DOMAIN actq
      BY <1>2, <1>3, <1>6, <2>1, <3>1, <3>2 DEF QueueInv
    <3>3. CASE k = Len(actq) + 1
      BY <1>2, <1>6, <2>1, <3>1, <3>3
    <3> QED
      BY <1>1, <1>3, <3>2, <3>3
  <2>2. ASSUME cur'.type = "add", NEW k \in DOMAIN actq'
        PROVE  ~Concerns(actq'[k], cur'.s)
    <3>1. cur \in Pending
      BY DEF Pending
    <3>2. CASE k \in DOMAIN actq
      BY <1>2, <1>3, <1>6, <2>2, <3>2 DEF QueueInv
    <3>3. CASE k = Len(actq) + 1
      BY <1>2, <1>6, <2>2, <3>1, <3>3
    <3> QED
      BY <1>1, <1>3, <3>2, <3>3
  <2> QED
    BY <2>1, <2>2 DEF QueueInv
<1> QED
  BY <1>2, <1>4, <1>5, <1>6

\* The first action is taken.
LEMMA Receiving ==
    ASSUME TypeOK, ReceiveAction
    PROVE  /\ actq' \in Seq(Posted) /\ Len(actq') <= QueueLen /\ cur' \in Posted
           /\ Pending' \subseteq Pending
           /\ QueueInv => QueueInv'
<1>1. actq \in Seq(Posted) /\ actq # <<>> /\ cur' = Head(actq) /\ actq' = Tail(actq)
  BY DEF TypeOK, Posted, ReceiveAction
<1>2. Len(actq) \in Nat /\ Len(actq) # 0 /\ QueueLen \in Nat /\ Len(actq) <= QueueLen
  BY <1>1, NumbersAssumption, EmptySeq, LenProperties DEF TypeOK
<1>3. /\ cur' \in Posted /\ cur' = actq[1]
      /\ actq' \in Seq(Posted) /\ Len(actq') = Len(actq) - 1
      /\ \A i \in 1 .. Len(actq') : actq'[i] = actq[i + 1]
  BY <1>1, <1>2, HeadTailProperties
<1>4. DOMAIN actq = 1 .. Len(actq) /\ DOMAIN actq' = 1 .. Len(actq) - 1
  BY <1>1, <1>3, LenProperties
<1>5. Pending' \subseteq Pending
  <2>1. \A i \in DOMAIN actq' : i + 1 \in DOMAIN actq /\ actq'[i] = actq[i + 1]
    BY <1>2, <1>3, <1>4
  <2>2. 1 \in DOMAIN actq
    BY <1>2, <1>4
  <2> QED
    BY <1>3, <2>1, <2>2 DEF Pending
<1>6. ASSUME QueueInv
      PROVE  QueueInv'
  <2>1. \A i \in DOMAIN actq' : /\ i + 1 \in DOMAIN actq /\ actq'[i] = actq[i + 1]
                                /\ 1 \in DOMAIN actq /\ 1 < i + 1
    BY <1>2, <1>3, <1>4
  <2>2. \A j, k \in DOMAIN actq' : j < k => j + 1 < k + 1
    BY <1>2, <1>4
  <2> QED
    BY <1>3, <1>6, <2>1, <2>2 DEF QueueInv
<1> QED
  BY <1>2, <1>3, <1>4, <1>5, <1>6

\* An action has been carried out.
LEMMA Executing ==
    ASSUME TypeOK, cur' = NoAction, actq' = actq
    PROVE  /\ cur' \in Actions /\ Pending' \subseteq Pending \cup {NoAction}
           /\ QueueInv => QueueInv'
<1>1. NoAction.type # "add"
  BY DEF NoAction
<1> QED
  BY <1>1, PostedType DEF Pending, QueueInv

-----------------------------------------------------------------------------
(* Clients. *)

\* What most steps leave to show about types.
Typed ==
    /\ heap \in [Searches -> Occupied \cup {Free}] /\ list \subseteq Searches
    /\ actq \in Seq(Posted) /\ Len(actq) <= QueueLen /\ cur \in Actions
    /\ scan \in list \cup {NoSearch} /\ fired \in BOOLEAN /\ now \in 0 .. Modulus - 1
    /\ client \in [Clients -> [pc : {"idle", "sync", "async", "got"},
                               s : Searches \cup {NoSearch}]]
    /\ queries \in 0 .. MaxQueries /\ packets \in 0 .. MaxPackets

LEMMA TypedIsType == TypeOK <=> Typed
  BY HeapType DEF TypeOK, Typed, Posted

LEMMA TypedStep == TypeOK' <=> Typed'
  BY TypedIsType, PTL

LEMMA PendingType ==
    ASSUME Typed
    PROVE  \A a \in Pending : a.type \in {"add", "send", "end"} => a.s \in Searches
<1>1. \A i \in DOMAIN actq : actq[i] \in Posted
  BY ElementOfSeq, LenProperties DEF Typed
<1> QED
  BY <1>1, PostedType DEF Typed, Pending, Posted, ForSearches

LEMMA BeginStep ==
    ASSUME IInv, NEW c \in Clients, NEW kind \in {"sync", "async"}, NEW max \in Limits,
           Begin(c, kind, max)
    PROVE  IInv'
<1>1. PICK s \in Searches :
        /\ heap[s] = Free
        /\ heap' = [heap EXCEPT ![s] = NewSearch(kind, max)]
        /\ actq' = Append(actq, [type |-> "add", s |-> s, gen |-> queries + 1])
        /\ client' = [client EXCEPT ![c] = [pc |-> kind, s |-> s]]
  BY DEF Begin
<1> DEFINE a == [type |-> "add", s |-> s, gen |-> queries + 1]
           r == NewSearch(kind, max)
<1>2. /\ client[c].pc = "idle" /\ queries < MaxQueries /\ Room /\ queries' = queries + 1
      /\ UNCHANGED <<list, cur, scan, fired, now, packets>>
  BY DEF Begin, clock
<1>3. Typed /\ OwnInv
  BY TypedIsType DEF IInv
<1>4. r \in Occupied /\ r # Free /\ r.state = "init" /\ ~r.sem
  BY <1>2, NewSearchType, OccupiedNotFree DEF IInv
<1>5. a \in Posted /\ a.type = "add" /\ a.s = s
  BY <1>2, <1>3, PostedType, NumbersAssumption DEF Typed, ForSearches
<1>6. \A t \in Searches : heap'[t] = IF t = s THEN r ELSE heap[t]
  BY <1>1, <1>3 DEF Typed
<1>7. \A b \in Pending : b.type = "add" => b.s # s
  BY <1>1, <1>3 DEF OwnInv, AddInv
<1>8. /\ actq' \in Seq(Posted) /\ Len(actq') <= QueueLen
      /\ Pending' = Pending \cup {a} /\ QueueInv'
  BY <1>1, <1>2, <1>3, <1>5, <1>7, Posting DEF IInv, OwnInv, Concerns
<1>9. s \notin list
  BY <1>1, <1>3 DEF OwnInv, ListInv
<1> HIDE DEF a, r
<1>10. Typed'
  <2>1. heap' \in [Searches -> Occupied \cup {Free}]
    BY <1>1, <1>3, <1>4 DEF Typed, r
  <2>2. client' \in [Clients -> [pc : {"idle", "sync", "async", "got"},
                                s : Searches \cup {NoSearch}]]
    BY <1>1, <1>3 DEF Typed
  <2>3. queries' \in 0 .. MaxQueries
    BY <1>2, <1>3, NumbersAssumption DEF Typed
  <2> QED
    BY <1>2, <1>3, <1>8, <2>1, <2>2, <2>3 DEF Typed
<1>11. AddInv'
  <2>1. \A b \in Pending : b.type = "add" => b.s \in Searches /\ heap'[b.s] = heap[b.s]
    BY <1>3, <1>6, <1>7, PendingType
  <2> QED
    BY <1>2, <1>3, <1>4, <1>5, <1>6, <1>8, <1>9, <2>1 DEF OwnInv, AddInv, InList
<1>12. ListInv'
  BY <1>2, <1>3, <1>6, <1>9 DEF OwnInv, ListInv, Typed
<1>13. LeftoversMissTheirTarget'
  BY <1>2, <1>3, <1>5, <1>6, <1>8, <1>9 DEF OwnInv, LeftoversMissTheirTarget, InList, Typed
<1>14. SemInv'
  BY <1>3, <1>4, <1>6 DEF OwnInv, SemInv
<1>15. ClientInv'
  <2>1. \A d \in Clients : client'[d] = IF d = c THEN [pc |-> kind, s |-> s] ELSE client[d]
    BY <1>1, <1>3 DEF Typed
  <2>2. \A d \in Clients : client[d].pc # "idle" => client[d].s # s
    BY <1>1, <1>3 DEF OwnInv, ClientInv
  <2> QED
    BY <1>3, <1>4, <1>6, <2>1, <2>2 DEF OwnInv, ClientInv
<1> QED
  BY <1>8, <1>10, <1>11, <1>12, <1>13, <1>14, <1>15, TypedStep DEF IInv, OwnInv

\* A client frees search s, which nobody else can reach.
LEMMA Freeing ==
    ASSUME IInv, NEW c \in Clients, client[c].pc # "idle",
           NEW s \in Searches, s = client[c].s,
           heap' = [heap EXCEPT ![s] = Free], list' = list \ {s},
           client' = [client EXCEPT ![c] = [pc |-> "idle", s |-> NoSearch]],
           \A b \in Pending : b.type = "add" => b.s # s,
           scan' \in list' \cup {NoSearch},
           UNCHANGED <<actq, cur, fired, now, queries, packets>>
    PROVE  IInv'
<1>1. Typed /\ OwnInv /\ Pending' = Pending
  BY TypedIsType DEF IInv, Pending
<1>2. \A t \in Searches : heap'[t] = IF t = s THEN Free ELSE heap[t]
  BY <1>1 DEF Typed
<1>3. Typed'
  <2>1. heap' \in [Searches -> Occupied \cup {Free}]
    BY <1>1 DEF Typed
  <2>2. client' \in [Clients -> [pc : {"idle", "sync", "async", "got"},
                                s : Searches \cup {NoSearch}]]
    BY <1>1 DEF Typed
  <2> QED
    BY <1>1, <2>1, <2>2 DEF Typed
<1>4. QueueInv'
  BY <1>1 DEF OwnInv, QueueInv
<1>5. AddInv'
  <2>1. \A b \in Pending : b.type = "add" => b.s \in Searches /\ heap'[b.s] = heap[b.s]
    BY <1>1, <1>2, PendingType
  <2> QED
    BY <1>1, <2>1 DEF OwnInv, AddInv, InList
<1>6. ListInv'
  BY <1>1, <1>2 DEF OwnInv, ListInv, Typed
<1>7. LeftoversMissTheirTarget'
  BY <1>1, <1>2 DEF OwnInv, LeftoversMissTheirTarget, InList, Typed
<1>8. SemInv'
  BY <1>1, <1>2 DEF OwnInv, SemInv
<1>9. ClientInv'
  <2>1. \A d \in Clients : client'[d] = IF d = c THEN [pc |-> "idle", s |-> NoSearch] ELSE client[d]
    BY <1>1 DEF Typed
  <2>2. \A d \in Clients : d # c /\ client[d].pc # "idle" => client[d].s # s
    BY <1>1 DEF OwnInv, ClientInv
  <2> QED
    BY <1>1, <1>2, <2>1, <2>2 DEF OwnInv, ClientInv
<1> QED
  BY <1>3, <1>4, <1>5, <1>6, <1>7, <1>8, <1>9, TypedStep DEF IInv, OwnInv

LEMMA SyncReturnsStep ==
    ASSUME IInv, NEW c \in Clients, SyncReturns(c)
    PROVE  IInv'
<1> DEFINE s == client[c].s
<1>1. client[c].pc # "idle" /\ heap[s].sem /\ Typed /\ OwnInv
  BY TypedIsType DEF IInv, SyncReturns
<1>2. s \in Searches /\ heap[s] # Free
  BY <1>1 DEF OwnInv, ClientInv
<1>3. s \notin list
  BY <1>1 DEF OwnInv, ListInv
<1>4. \A b \in Pending : b.type = "add" => b.s # s
  BY <1>1 DEF OwnInv, AddInv
<1>5. list' = list \ {s} /\ scan' \in list' \cup {NoSearch}
  BY <1>1, <1>3 DEF SyncReturns, clock, Typed
<1> QED
  BY <1>1, <1>2, <1>4, <1>5, Freeing DEF SyncReturns, clock

LEMMA AsyncDeleteStep ==
    ASSUME IInv, NEW c \in Clients, AsyncDelete(c)
    PROVE  IInv'
<1> DEFINE s == client[c].s
<1>1. client[c].pc # "idle" /\ heap[s].state = "off" /\ Typed /\ OwnInv
  BY TypedIsType DEF IInv, AsyncDelete, Deletable
<1>2. s \in Searches /\ heap[s] # Free
  BY <1>1 DEF OwnInv, ClientInv
<1>3. \A b \in Pending : b.type = "add" => b.s # s
  BY <1>1 DEF OwnInv, AddInv
<1>4. list' = list \ {s} /\ scan' \in list' \cup {NoSearch}
  BY DEF AsyncDelete, Detach, Unlocked, clock
<1> QED
  BY <1>1, <1>2, <1>3, <1>4, Freeing DEF AsyncDelete, clock

LEMMA AsyncGetResultsStep ==
    ASSUME IInv, NEW c \in Clients, AsyncGetResults(c)
    PROVE  IInv'
<1> DEFINE s == client[c].s
           r == [heap[s] EXCEPT !.sem = FALSE]
<1>1. client[c].pc # "idle" /\ heap[s].sem /\ Typed /\ OwnInv /\ Pending' = Pending
  BY TypedIsType DEF IInv, AsyncGetResults, Pending
<1>2. s \in Searches /\ heap[s] # Free /\ heap[s] \in Occupied
  BY <1>1 DEF OwnInv, ClientInv, Typed
<1>3. r \in Occupied /\ r # Free /\ ~r.sem /\ r.gen = heap[s].gen
  BY <1>2, OccupiedNotFree DEF Occupied, Search
<1>4. heap' = [heap EXCEPT ![s] = r] /\ client' = [client EXCEPT ![c].pc = "got"]
      /\ UNCHANGED <<list, actq, cur, scan, fired, now, queries, packets>>
  BY DEF AsyncGetResults, clock
<1> HIDE DEF r
<1>5. \A t \in Searches : heap'[t] = IF t = s THEN r ELSE heap[t]
  BY <1>1, <1>4 DEF Typed
<1>6. \A d \in Clients : client'[d].s = client[d].s /\ (client'[d].pc # "idle" <=> client[d].pc # "idle")
  BY <1>1, <1>4 DEF Typed
<1>7. Typed'
  <2>1. heap' \in [Searches -> Occupied \cup {Free}]
    BY <1>1, <1>3, <1>4 DEF Typed
  <2>2. client' \in [Clients -> [pc : {"idle", "sync", "async", "got"},
                                s : Searches \cup {NoSearch}]]
    BY <1>1, <1>4 DEF Typed
  <2> QED
    BY <1>1, <1>4, <2>1, <2>2 DEF Typed
<1>8. QueueInv'
  BY <1>1, <1>4 DEF OwnInv, QueueInv
<1>9. AddInv'
  <2>1. \A b \in Pending : b.type = "add" => b.s \in Searches /\ b.s # s /\ heap'[b.s] = heap[b.s]
    BY <1>1, <1>5, PendingType DEF OwnInv, AddInv
  <2> QED
    BY <1>1, <1>4, <2>1 DEF OwnInv, AddInv, InList
<1>10. ListInv' /\ LeftoversMissTheirTarget' /\ SemInv'
  BY <1>1, <1>3, <1>4, <1>5 DEF OwnInv, ListInv, LeftoversMissTheirTarget, SemInv, InList, Typed
<1>11. ClientInv'
  BY <1>1, <1>3, <1>5, <1>6 DEF OwnInv, ClientInv
<1> QED
  BY <1>7, <1>8, <1>9, <1>10, <1>11, TypedStep DEF IInv, OwnInv

-----------------------------------------------------------------------------
(* The timer, and arriving packets. *)

LEMMA GoesInside ==
    ASSUME NEW S, S \subseteq list, Goes(S)
    PROVE  scan' \in list \cup {NoSearch}
  BY DEF Goes, First

\* The steps that leave searches and actions alone.
LEMMA QuietStep ==
    ASSUME IInv, BeginScan \/ Tick \/ UNCHANGED vars
    PROVE  IInv'
<1>1. Typed /\ OwnInv
  BY TypedIsType DEF IInv
<1>2. UNCHANGED <<heap, list, actq, cur, client, queries, packets>> /\ Pending' = Pending
  BY DEF BeginScan, Tick, vars, clock, Pending
<1>3. scan' \in list \cup {NoSearch}
  BY <1>1, GoesInside DEF BeginScan, Tick, vars, clock, Typed
<1>4. fired' \in BOOLEAN
  BY <1>1 DEF BeginScan, Tick, vars, clock, Typed
<1>5. now' \in 0 .. Modulus - 1
  <2>1. now + 1 \in Int
    BY <1>1 DEF Typed
  <2> QED
    BY <1>1, <2>1, ModType DEF BeginScan, Tick, vars, clock, Typed
<1>6. Typed'
  BY <1>1, <1>2, <1>3, <1>4, <1>5 DEF Typed
<1>7. OwnInv'
  BY <1>1, <1>2 DEF OwnInv, QueueInv, AddInv, ListInv, LeftoversMissTheirTarget, SemInv,
                    ClientInv, InList
<1> QED
  BY <1>6, <1>7, TypedStep DEF IInv

LEMMA ScanSearchStep ==
    ASSUME IInv, ScanSearch
    PROVE  IInv'
<1> DEFINE s == scan
           r == AfterScan(s)
           a == [type |-> Due(s), s |-> s, gen |-> heap[s].gen]
           posts == Due(s) # "none" /\ Room
<1>1. Typed /\ OwnInv /\ s \in list /\ s \in Searches
  BY TypedIsType DEF IInv, ScanSearch, Unlocked, Typed
<1>2. /\ heap' = [heap EXCEPT ![s] = r]
      /\ actq' = IF posts THEN Append(actq, a) ELSE actq
      /\ UNCHANGED <<list, cur, fired, now, client, queries, packets>>
  BY DEF ScanSearch
<1>3. heap[s] \in Occupied /\ ~heap[s].sem
  BY <1>1 DEF OwnInv, ListInv, Typed
<1>4. r \in Occupied /\ r # Free /\ r.gen = heap[s].gen /\ ~r.sem
  BY <1>1, <1>3, AfterScanType, OccupiedNotFree DEF IInv
<1>5. scan' \in list' \cup {NoSearch}
  BY <1>2, GoesInside DEF ScanSearch, Behind
<1>6. \A b \in Pending : b.type = "add" => b.s \in Searches /\ b.s # s
  BY <1>1, PendingType DEF OwnInv, AddInv, InList
<1>7. /\ actq' \in Seq(Posted) /\ Len(actq') <= QueueLen /\ QueueInv'
      /\ Pending' = Pending \/ (Due(s) \in {"end", "send"} /\ Pending' = Pending \cup {a})
  <2>1. CASE posts
    <3>1. Due(s) \in {"end", "send"} /\ heap[s].gen \in 1 .. MaxQueries
      BY <1>3, <2>1 DEF Due, Occupied, Search
    <3>2. a \in Posted /\ \A b \in Pending : b.type = "add" => ~Concerns(a, b.s)
      BY <1>1, <1>6, <3>1, PostedType DEF Concerns, ForSearches
    <3> QED
      BY <1>1, <1>2, <2>1, <3>1, <3>2, Posting DEF IInv, OwnInv
  <2>2. CASE ~posts
    BY <1>1, <1>2, <2>2 DEF Typed, OwnInv, QueueInv, Pending
  <2> QED
    BY <2>1, <2>2
<1> HIDE DEF r, posts
<1>8. \A t \in Searches : heap'[t] = IF t = s THEN r ELSE heap[t]
  BY <1>1, <1>2 DEF Typed
<1>9. Typed'
  <2>1. heap' \in [Searches -> Occupied \cup {Free}]
    BY <1>1, <1>2, <1>4 DEF Typed
  <2> QED
    BY <1>1, <1>2, <1>5, <1>7, <2>1 DEF Typed
<1>10. AddInv'
  BY <1>1, <1>2, <1>6, <1>7, <1>8 DEF OwnInv, AddInv, InList
<1>11. ListInv'
  BY <1>1, <1>2, <1>4, <1>8 DEF OwnInv, ListInv, Typed
<1>12. LeftoversMissTheirTarget'
  <2>1. \A t \in list : heap'[t].gen = heap[t].gen
    BY <1>1, <1>4, <1>8 DEF Typed
  <2>2. a.s = s /\ a.gen = heap[s].gen
    OBVIOUS
  <2> QED
    BY <1>1, <1>2, <1>7, <2>1, <2>2 DEF OwnInv, LeftoversMissTheirTarget, InList
<1>13. SemInv'
  BY <1>1, <1>4, <1>8 DEF OwnInv, SemInv
<1>14. ClientInv'
  BY <1>1, <1>2, <1>4, <1>8 DEF OwnInv, ClientInv
<1> QED
  BY <1>7, <1>9, <1>10, <1>11, <1>12, <1>13, <1>14, TypedStep DEF IInv, OwnInv

LEMMA PacketArrivesStep ==
    ASSUME IInv, PacketArrives
    PROVE  IInv'
<1> DEFINE a == [type |-> "rx"]
<1>1. Typed /\ OwnInv
  BY TypedIsType DEF IInv
<1>2. UNCHANGED <<heap, list, cur, scan, fired, now, client, queries>>
  BY DEF PacketArrives, clock
<1>3. /\ actq' \in Seq(Posted) /\ Len(actq') <= QueueLen /\ QueueInv'
      /\ Pending' = Pending \cup {a}
  BY <1>1, PostedType, Posting DEF IInv, OwnInv, PacketArrives, Concerns, ForSearches
<1>4. packets' \in 0 .. MaxPackets
  BY <1>1, NumbersAssumption DEF PacketArrives, Typed
<1>5. Typed'
  BY <1>1, <1>2, <1>3, <1>4 DEF Typed
<1>6. AddInv' /\ ListInv' /\ LeftoversMissTheirTarget' /\ SemInv' /\ ClientInv'
  BY <1>1, <1>2, <1>3 DEF OwnInv, AddInv, ListInv, LeftoversMissTheirTarget, SemInv,
                          ClientInv, InList
<1> QED
  BY <1>3, <1>5, <1>6, TypedStep DEF IInv, OwnInv

-----------------------------------------------------------------------------
(* The service task. *)

LEMMA ReceiveActionStep ==
    ASSUME IInv, ReceiveAction
    PROVE  IInv'
<1>1. Typed /\ OwnInv
  BY TypedIsType DEF IInv
<1>2. UNCHANGED <<heap, list, scan, fired, now, client, queries, packets>>
  BY DEF ReceiveAction, clock
<1>3. /\ actq' \in Seq(Posted) /\ Len(actq') <= QueueLen /\ cur' \in Actions
      /\ Pending' \subseteq Pending /\ QueueInv'
  BY <1>1, Receiving DEF IInv, OwnInv, Posted
<1>4. Typed'
  BY <1>1, <1>2, <1>3 DEF Typed
<1>5. AddInv' /\ ListInv' /\ LeftoversMissTheirTarget' /\ SemInv' /\ ClientInv'
  BY <1>1, <1>2, <1>3 DEF OwnInv, AddInv, ListInv, LeftoversMissTheirTarget, SemInv,
                          ClientInv, InList
<1> QED
  BY <1>3, <1>4, <1>5, TypedStep DEF IInv, OwnInv

\* The effect of ACTION_SEARCH_END and of a packet: searches S are finished, others
\* of the list may get results.
LEMMA Finishing ==
    ASSUME IInv, NEW S, S \subseteq list, NEW h \in [Searches -> Occupied \cup {Free}],
           \A s \in Searches :
             \/ h[s] = heap[s]
             \/ /\ s \in list /\ h[s] \in Occupied /\ h[s].gen = heap[s].gen
                /\ h[s].state = heap[s].state /\ h[s].sem = heap[s].sem,
           heap' = [s \in Searches |-> IF s \in S THEN Finished(h[s]) ELSE h[s]],
           list' = list \ S, cur' = NoAction, Unlocked,
           UNCHANGED <<actq, clock, client, queries, packets>>
    PROVE  IInv'
<1>1. Typed /\ OwnInv /\ scan = NoSearch
  BY TypedIsType DEF IInv, Unlocked
<1>2. UNCHANGED <<actq, scan, fired, now, client, queries, packets>>
  BY DEF clock
<1>3. cur' \in Actions /\ Pending' \subseteq Pending \cup {NoAction} /\ QueueInv'
  BY <1>1, Executing DEF IInv, OwnInv
<1>4. \A s \in list : s \in Searches /\ heap[s] # Free /\ heap[s] \in Occupied /\ ~heap[s].sem
  BY <1>1 DEF OwnInv, ListInv, Typed
<1>5. \A s \in list : h[s] \in Occupied /\ h[s].gen = heap[s].gen /\ ~h[s].sem
  BY <1>4
<1>6. \A s \in S : /\ heap'[s] \in Occupied /\ heap'[s].gen = heap[s].gen /\ heap'[s].sem
                   /\ heap'[s].state = "off" /\ ~heap'[s].notifier
  BY <1>4, <1>5, FinishedType
<1>7. \A s \in Searches \ S : heap'[s] = h[s]
  OBVIOUS
<1>8. \A s \in Searches \ list : heap'[s] = heap[s]
  BY <1>7
<1>9. \A s \in list : heap'[s] \in Occupied /\ heap'[s] # Free /\ heap'[s].gen = heap[s].gen
  BY <1>4, <1>5, <1>6, <1>7, OccupiedNotFree
<1>10. Typed'
  <2>1. heap' \in [Searches -> Occupied \cup {Free}]
    BY <1>6, <1>7
  <2> QED
    BY <1>1, <1>2, <1>3, <2>1 DEF Typed
<1>11. NoAction.type \notin ForSearches
  BY DEF NoAction, ForSearches
<1>12. AddInv'
  <2>1. \A b \in Pending : b.type = "add" => b.s \in Searches \ list
    BY <1>1, PendingType DEF OwnInv, AddInv, InList
  <2> QED
    BY <1>1, <1>3, <1>8, <1>11, <2>1 DEF OwnInv, AddInv, InList, ForSearches
<1>13. ListInv'
  BY <1>5, <1>4, <1>7, <1>9 DEF ListInv
<1>14. LeftoversMissTheirTarget'
  BY <1>1, <1>3, <1>9, <1>11 DEF OwnInv, LeftoversMissTheirTarget, InList, ForSearches
<1>15. SemInv'
  <2>1. ASSUME NEW s \in Searches, heap'[s] # Free, heap'[s].sem
        PROVE  heap'[s].state = "off" /\ ~heap'[s].notifier
    <3>1. CASE s \in S
      BY <1>6, <3>1
    <3>2. CASE s \in list \ S
      BY <1>4, <1>5, <1>7, <2>1, <3>2
    <3>3. CASE s \notin list
      BY <1>1, <1>8, <2>1, <3>3 DEF OwnInv, SemInv
    <3> QED
      BY <3>1, <3>2, <3>3
  <2> QED
    BY <2>1 DEF SemInv
<1>16. ClientInv'
  <2>1. \A s \in Searches : heap[s] # Free => heap'[s] # Free
    BY <1>8, <1>9
  <2> QED
    BY <1>1, <1>2, <2>1 DEF OwnInv, ClientInv
<1> QED
  BY <1>3, <1>10, <1>12, <1>13, <1>14, <1>15, <1>16, TypedStep DEF IInv, OwnInv

LEMMA ExecuteAddStep ==
    ASSUME IInv, ExecuteAction, ExecuteAdd
    PROVE  IInv'
<1> DEFINE s == cur.s
<1>1. Typed /\ OwnInv /\ scan = NoSearch /\ cur \in Pending /\ cur.type = "add"
  BY TypedIsType DEF IInv, ExecuteAction, ExecuteAdd, Unlocked, Pending
<1>2. /\ list' = list \cup {s} /\ cur' = NoAction
      /\ UNCHANGED <<heap, actq, scan, fired, now, client, queries, packets>>
  BY DEF ExecuteAction, ExecuteAdd, clock
<1>3. s \in Searches /\ heap[s] # Free /\ ~heap[s].sem
  BY <1>1, PendingType DEF OwnInv, AddInv
<1>4. /\ cur' \in Actions /\ QueueInv'
      /\ \A b \in Pending' : b = NoAction \/ (b \in Pending /\ ~Concerns(b, s))
  <2>1. \A i \in DOMAIN actq : actq[i] \in Pending /\ ~Concerns(actq[i], s)
    BY <1>1 DEF OwnInv, QueueInv, Pending
  <2>2. \A b \in Pending' : b = NoAction \/ \E i \in DOMAIN actq : b = actq[i]
    BY <1>2 DEF Pending
  <2> QED
    BY <1>1, <1>2, <2>1, <2>2, Executing DEF IInv, OwnInv
<1>5. Typed'
  BY <1>1, <1>2, <1>3, <1>4 DEF Typed
<1>6. NoAction.type \notin ForSearches
  BY DEF NoAction, ForSearches
<1>7. AddInv' /\ LeftoversMissTheirTarget'
  BY <1>1, <1>2, <1>4, <1>6 DEF OwnInv, AddInv, LeftoversMissTheirTarget, InList, Concerns,
                                ForSearches
<1>8. ListInv' /\ SemInv' /\ ClientInv'
  BY <1>1, <1>2, <1>3 DEF OwnInv, ListInv, SemInv, ClientInv
<1> QED
  BY <1>4, <1>5, <1>7, <1>8, TypedStep DEF IInv, OwnInv

LEMMA ExecuteActionStep ==
    ASSUME IInv, ExecuteAction
    PROVE  IInv'
<1>1. Typed /\ OwnInv
  BY TypedIsType DEF IInv
<1>2. heap \in [Searches -> Occupied \cup {Free}] /\ \A s \in list : heap[s] \in Occupied
  BY <1>1 DEF Typed, OwnInv, ListInv
<1>3. CASE ExecuteAdd
  BY <1>3, ExecuteAddStep
<1>4. CASE ExecuteSend
  <2>1. heap' = [s \in Searches |-> IF s \in {} THEN Finished(heap[s]) ELSE heap[s]]
    BY <1>2, <1>4 DEF ExecuteSend
  <2>2. list' = list \ {}
    BY <1>4 DEF ExecuteSend
  <2> QED
    BY <1>2, <2>1, <2>2, Finishing DEF ExecuteAction
<1>5. CASE ExecuteEnd
  <2> DEFINE S == {s \in {cur.s} : InList(s)}
  <2>1. Finish(S, heap) /\ S \subseteq list
    BY <1>5 DEF ExecuteEnd, InList
  <2> HIDE DEF S
  <2> QED
    BY <1>2, <2>1, Finishing DEF ExecuteAction, Finish
<1>6. CASE ExecuteRx
  <2>1. PICK A \in SUBSET Answerable, n \in {1, 2} :
          LET h == [s \in Searches |-> IF s \in A THEN AddResults(heap[s], n) ELSE heap[s]]
          IN  Finish({s \in Searches : InList(s) /\ Enough(h[s])}, h)
    BY <1>6 DEF ExecuteRx
  <2> DEFINE h == [s \in Searches |-> IF s \in A THEN AddResults(heap[s], n) ELSE heap[s]]
             S == {s \in Searches : InList(s) /\ Enough(h[s])}
  <2>2. Finish(S, h) /\ S \subseteq list
    BY <2>1 DEF InList
  <2>3. \A s \in A : s \in list /\ s \in Searches
    BY <1>1 DEF Answerable, InList
  <2>4. h \in [Searches -> Occupied \cup {Free}]
    BY <1>2, <2>3, AddResultsType
  <2>5. ASSUME NEW s \in Searches
        PROVE  \/ h[s] = heap[s]
               \/ /\ s \in list /\ h[s] \in Occupied /\ h[s].gen = heap[s].gen
                  /\ h[s].state = heap[s].state /\ h[s].sem = heap[s].sem
    BY <1>2, <2>3, AddResultsType
  <2> HIDE DEF S, h
  <2> QED
    BY <2>2, <2>4, <2>5, Finishing DEF ExecuteAction, Finish
<1> QED
  BY <1>3, <1>4, <1>5, <1>6 DEF ExecuteAction

-----------------------------------------------------------------------------

LEMMA InvStep ==
    ASSUME IInv, [Next]_vars
    PROVE  IInv'
<1>1. ASSUME NEW c \in Clients, ClientStep(c)
      PROVE  IInv'
  BY <1>1, BeginStep, SyncReturnsStep, AsyncGetResultsStep, AsyncDeleteStep DEF ClientStep
<1>2. CASE Timer \/ Tick \/ UNCHANGED vars
  BY <1>2, QuietStep, ScanSearchStep DEF Timer
<1>3. CASE PacketArrives \/ ServiceTask
  BY <1>3, PacketArrivesStep, ReceiveActionStep, ExecuteActionStep DEF ServiceTask
<1> QED
  BY <1>1, <1>2, <1>3 DEF Next

LEMMA InitInv ==
    ASSUME Init
    PROVE  IInv
<1>1. DOMAIN actq = {} /\ actq \in Seq(Posted) /\ Len(actq) = 0
  BY EmptySeq, LenProperties DEF Init
<1>2. Pending = {NoAction} /\ NoAction.type \notin ForSearches
  BY <1>1 DEF Init, Pending, NoAction, ForSearches
<1>3. Typed
  <2>1. heap \in [Searches -> Occupied \cup {Free}] /\ list \subseteq Searches
    BY DEF Init
  <2>2. client \in [Clients -> [pc : {"idle", "sync", "async", "got"},
                               s : Searches \cup {NoSearch}]]
    BY DEF Init
  <2>3. now \in 0 .. Modulus - 1 /\ queries \in 0 .. MaxQueries /\ packets \in 0 .. MaxPackets
    BY NumbersAssumption DEF Init
  <2>4. Len(actq) <= QueueLen
    BY <1>1, NumbersAssumption
  <2>5. cur \in Actions /\ scan \in list \cup {NoSearch} /\ fired \in BOOLEAN
    BY PostedType DEF Init
  <2> QED
    BY <1>1, <2>1, <2>2, <2>3, <2>4, <2>5 DEF Typed
<1>4. OwnInv
  BY <1>1, <1>2 DEF Init, OwnInv, QueueInv, AddInv, ListInv, LeftoversMissTheirTarget, SemInv,
                    ClientInv, ForSearches, NoAction, Free
<1> QED
  BY <1>3, <1>4, TypedIsType DEF IInv

LEMMA InvCorrect == Spec => []IInv
  BY InitInv, InvStep, PTL DEF Spec

\* The type invariant of MdnsQuery: no search has more results than were asked for,
\* and the queue no more actions than it holds.
THEOREM TypeCorrect == Spec => []TypeOK
  BY InvCorrect, PTL DEF IInv

\* mdns_querier.c hands addresses between three kinds of tasks without counting
\* references.  Still what the service task and the timer reach is allocated, an
\* action acts on the search it was posted for, and a client that has the semaphore
\* has the search alone.
THEOREM SearchesOwnedTheorem == Spec => []SearchesOwned
<1>1. IInv => SearchesOwned
  <2> SUFFICES ASSUME IInv PROVE SearchesOwned
    OBVIOUS
  <2>1. OwnInv
    BY DEF IInv
  <2> QED
    BY <2>1 DEF OwnInv, AddInv, ListInv, SemInv, InList, SearchesOwned, ReachableIsAllocated,
                SemaphoreIsLast
<1> QED
  BY <1>1, InvCorrect, PTL

\* Results are added only to searches that the timer has not ended (line 222), so
\* that an owner who reads or frees one after its end has it to itself.
THEOREM OffGrowsNoMoreTheorem == Spec => OffGrowsNoMore
<1> DEFINE P == \A s \in Searches :
                  heap[s] # Free /\ heap'[s] # Free /\ heap[s].state = "off"
                    => heap'[s].num = heap[s].num
<1>1. ASSUME IInv, [Next]_vars PROVE [P]_vars
  <2>1. Typed
    BY <1>1, TypedIsType DEF IInv
  <2> SUFFICES ASSUME NEW s \in Searches, heap[s] # Free, heap'[s] # Free, heap[s].state = "off"
               PROVE  heap'[s].num = heap[s].num
    OBVIOUS
  <2>2. heap[s] \in Occupied
    BY <2>1 DEF Typed
  <2>3. ASSUME NEW c \in Clients, ClientStep(c) PROVE heap'[s].num = heap[s].num
    <3>1. CASE \E kind \in {"sync", "async"}, max \in Limits : Begin(c, kind, max)
      BY <2>1, <3>1 DEF Begin, Typed
    <3>2. CASE SyncReturns(c) \/ AsyncDelete(c)
      BY <2>1, <3>2 DEF SyncReturns, AsyncDelete, Typed
    <3>3. CASE AsyncGetResults(c)
      <4>1. [heap[s] EXCEPT !.sem = FALSE].num = heap[s].num
        BY <2>2 DEF Occupied, Search
      <4> QED
        BY <2>1, <3>3, <4>1 DEF AsyncGetResults, Typed
    <3> QED
      BY <2>3, <3>1, <3>2, <3>3 DEF ClientStep
  <2>4. CASE ScanSearch
    <3>1. CASE scan = s
      <4>1. AfterScan(s) = heap[s]
        BY <1>1, <2>2, AfterScanType DEF IInv
      <4> QED
        BY <2>1, <2>4, <3>1, <4>1 DEF ScanSearch, Typed
    <3>2. CASE scan # s
      BY <2>1, <2>4, <3>2 DEF ScanSearch, Typed
    <3> QED
      BY <3>1, <3>2
  <2>5. CASE ExecuteAction
    <3>1. CASE ExecuteAdd \/ ExecuteSend
      BY <3>1 DEF ExecuteAdd, ExecuteSend
    <3>2. Finished(heap[s]).num = heap[s].num
      BY <2>2 DEF Finished, Occupied, Search
    <3>3. CASE ExecuteEnd
      BY <3>2, <3>3 DEF ExecuteEnd, Finish
    <3>4. CASE ExecuteRx
      <4>1. PICK A \in SUBSET Answerable, n \in {1, 2} :
              LET h == [t \in Searches |-> IF t \in A THEN AddResults(heap[t], n) ELSE heap[t]]
              IN  Finish({t \in Searches : InList(t) /\ Enough(h[t])}, h)
        BY <3>4 DEF ExecuteRx
      <4>2. s \notin A
        BY DEF Answerable
      <4> QED
        BY <3>2, <4>1, <4>2 DEF Finish
    <3> QED
      BY <2>5, <3>1, <3>3, <3>4 DEF ExecuteAction
  <2>6. CASE BeginScan \/ Tick \/ PacketArrives \/ ReceiveAction \/ UNCHANGED vars
    BY <2>6 DEF BeginScan, Tick, PacketArrives, ReceiveAction, vars
  <2> QED
    BY <1>1, <2>3, <2>4, <2>5, <2>6 DEF Next, Timer, ServiceTask
<1> QED
  BY <1>1, InvCorrect, PTL DEF Spec, OffGrowsNoMore
=============================================================================
