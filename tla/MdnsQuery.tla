------------------------------- MODULE MdnsQuery -------------------------------
(***************************************************************************)
(* The life of a query in the mDNS library (mdns_querier.c).               *)
(*                                                                         *)
(* A client allocates a search, posts its ADDRESS to the service task and  *)
(* waits for the semaphore in it (mdns_query_generic), or comes back for   *)
(* the results and deletes it (mdns_query_async_new).  The service task    *)
(* adds the search to a list, sends its packets and finishes it; the timer *)
(* decides under the lock that it is over and posts that decision; enough  *)
(* answers finish it at once.  Client, timer and task meet in the memory   *)
(* of the search, which is freed by the client and may be taken by the     *)
(* next search while actions with its address are still in the queue.      *)
(*                                                                         *)
(* A Tick is one period of the timer.  Memory never runs out and mdns_free *)
(* is not called.                                                          *)
(***************************************************************************)
EXTENDS Naturals, Sequences

CONSTANTS
    Clients,     \* the tasks that query
    Searches,    \* addresses of searches in the heap
    QueueLen,    \* MDNS_ACTION_QUEUE_LEN
    Modulus,     \* 2^32: the width of the clock
    Timeout,     \* the timeout of every query, in ticks
    Resend,      \* 1000 ms, in ticks
    Limits,      \* values of max_results; 0 is no limit
    MaxQueries,  \* how many queries a behaviour has
    MaxPackets   \* how many packets arrive

Free == [state |-> "free"]
NoAction == [type |-> "none"]
NoSearch == 0

ASSUME NamesAssumption == NoSearch \notin Searches
ASSUME NumbersAssumption ==
    /\ QueueLen \in Nat \ {0} /\ Modulus \in Nat \ {0} /\ Timeout \in 1..Modulus - 1
    /\ Resend \in Nat /\ Limits \subseteq Nat
    /\ MaxQueries \in Nat /\ MaxPackets \in Nat

VARIABLES
    heap,     \* what lies at each address: a search or nothing
    list,     \* s_search_once
    actq,     \* s_action_queue
    cur,      \* the action the service task has received, or NoAction
    scan,     \* mdns_priv_query_start_stop: where it is in the list, or NoSearch
    fired,    \* the timer has run since the last tick
    now,      \* xTaskGetTickCount() in ticks of the timer
    client,   \* what each client does, and with which search
    queries,  \* queries begun so far
    packets   \* packets arrived so far

vars == <<heap, list, actq, cur, scan, fired, now, client, queries, packets>>
clock == <<scan, fired, now>>

Unlocked == scan = NoSearch
InList(s) == s \in list

\* The list is a set, and gen its order: ACTION_SEARCH_ADD puts a search in front,
\* and comes in the order in which the searches were begun.  The first of the
\* searches S of the list, as a set, and the place behind s.
First(S) == {s \in S : \A t \in S : heap[t].gen <= heap[s].gen}
Behind(s) == {t \in list : heap[t].gen < heap[s].gen}
\* mdns_priv_queue_action: with a full queue the action is gone.
Room == Len(actq) < QueueLen

-----------------------------------------------------------------------------
(* Clients *)

\* search_init.  gen tells this search from others that had the same address.
NewSearch(kind, max) ==
    [state |-> "init", gen |-> queries + 1, max |-> max, num |-> 0,
     started |-> now, sent |-> 0, notifier |-> kind = "async", sem |-> FALSE]

\* mdns_query_generic, mdns_query_async_new: allocate a search and post
\* ACTION_SEARCH_ADD; when that fails the caller frees it and returns, so that
\* nothing has happened.
Begin(c, kind, max) ==
    /\ client[c].pc = "idle" /\ queries < MaxQueries /\ Room
    /\ \E s \in Searches :
         /\ heap[s] = Free
         /\ heap' = [heap EXCEPT ![s] = NewSearch(kind, max)]
         /\ actq' = Append(actq, [type |-> "add", s |-> s, gen |-> queries + 1])
         /\ client' = [client EXCEPT ![c] = [pc |-> kind, s |-> s]]
    /\ queries' = queries + 1
    /\ UNCHANGED <<list, cur, clock, packets>>

\* mdns_query_generic, once the semaphore is there: take the results and free
\* the search, without the lock.
SyncReturns(c) ==
    /\ client[c].pc = "sync" /\ heap[client[c].s].sem
    /\ heap' = [heap EXCEPT ![client[c].s] = Free]
    /\ client' = [client EXCEPT ![c] = [pc |-> "idle", s |-> NoSearch]]
    /\ UNCHANGED <<list, actq, cur, clock, queries, packets>>

\* mdns_query_async_get_results
AsyncGetResults(c) ==
    /\ client[c].pc = "async" /\ heap[client[c].s].sem
    /\ heap' = [heap EXCEPT ![client[c].s].sem = FALSE]
    /\ client' = [client EXCEPT ![c].pc = "got"]
    /\ UNCHANGED <<list, actq, cur, clock, queries, packets>>

\* mdns_query_async_delete: refused while the search runs.  The timer may have
\* switched it off with its ACTION_SEARCH_END still in the queue.  Mutant: the
\* search stays in the list.
Deletable(s) == heap[s].state = "off"
DetachNothing(s) == list
Detach(s) == list \ {s}

AsyncDelete(c) ==
    /\ client[c].pc \in {"async", "got"} /\ Unlocked /\ Deletable(client[c].s)
    /\ list' = Detach(client[c].s)
    /\ heap' = [heap EXCEPT ![client[c].s] = Free]
    /\ client' = [client EXCEPT ![c] = [pc |-> "idle", s |-> NoSearch]]
    /\ UNCHANGED <<actq, cur, clock, queries, packets>>

-----------------------------------------------------------------------------
(* The timer *)

\* The loop of mdns_priv_query_start_stop goes to the first of S, or ends.
Goes(S) == IF S = {} THEN scan' = NoSearch ELSE scan' \in First(S)

\* mdns_priv_query_start_stop takes the lock.
BeginScan ==
    /\ Unlocked /\ ~fired
    /\ fired' = TRUE /\ Goes(list)
    /\ UNCHANGED <<heap, list, actq, cur, now, client, queries, packets>>

\* Both sums and differences are of uint32_t.
Over(s) == now > (heap[s].started + Timeout) % Modulus
SendAgain(s) ==
    heap[s].state = "init" \/ (now + Modulus - heap[s].sent) % Modulus > Resend

\* The action that is due for search s.
Due(s) ==
    CASE heap[s].state # "off" /\ Over(s) -> "end"
      [] heap[s].state # "off" /\ ~Over(s) /\ SendAgain(s) -> "send"
      [] OTHER -> "none"
\* What one turn of the loop makes of search s; a post that fails is undone.
\* Mutant: a failed post of the end is not.
AfterScanOff(s) ==
    IF heap[s].state = "off" THEN heap[s]
    ELSE IF Over(s) THEN [heap[s] EXCEPT !.state = "off"]
    ELSE IF SendAgain(s) THEN [heap[s] EXCEPT !.state = "running", !.sent = now]
    ELSE heap[s]
AfterScan(s) ==
    CASE heap[s].state = "off" -> heap[s]
      [] heap[s].state # "off" /\ Over(s) ->
           [heap[s] EXCEPT !.state = IF Room THEN "off" ELSE "running"]
      [] heap[s].state # "off" /\ ~Over(s) /\ SendAgain(s) ->
           [heap[s] EXCEPT !.state = "running",
                           !.sent = IF Room THEN now ELSE (now + Modulus - Resend) % Modulus]
      [] OTHER -> heap[s]

ScanSearch ==
    /\ ~Unlocked
    /\ heap' = [heap EXCEPT ![scan] = AfterScan(scan)]
    /\ actq' = IF Due(scan) # "none" /\ Room
               THEN Append(actq, [type |-> Due(scan), s |-> scan, gen |-> heap[scan].gen])
               ELSE actq
    /\ Goes(Behind(scan))
    /\ UNCHANGED <<list, cur, fired, now, client, queries, packets>>

\* The service task keeps up with the timer.
Tick ==
    /\ fired /\ Unlocked /\ actq = <<>> /\ cur = NoAction
    /\ \E s \in Searches : heap[s] # Free
    /\ now' = (now + 1) % Modulus /\ fired' = FALSE
    /\ UNCHANGED <<heap, list, actq, cur, scan, client, queries, packets>>

-----------------------------------------------------------------------------
(* The service task *)

\* send_rx_action of the lwIP task
PacketArrives ==
    /\ packets < MaxPackets /\ packets' = packets + 1 /\ Room
    /\ actq' = Append(actq, [type |-> "rx"])
    /\ UNCHANGED <<heap, list, cur, clock, client, queries>>

ReceiveAction ==
    /\ cur = NoAction /\ actq # <<>>
    /\ cur' = Head(actq) /\ actq' = Tail(actq)
    /\ UNCHANGED <<heap, list, clock, client, queries, packets>>

\* search_finish for the searches S of the list: off, detached, its notifier
\* called once, the semaphore given last.
Finished(r) == [r EXCEPT !.state = "off", !.notifier = FALSE, !.sem = TRUE]
Finish(S, h) ==
    /\ heap' = [s \in Searches |-> IF s \in S THEN Finished(h[s]) ELSE h[s]]
    /\ list' = list \ S

\* ACTION_SEARCH_ADD
ExecuteAdd ==
    /\ cur.type = "add" /\ list' = list \cup {cur.s}
    /\ UNCHANGED heap

\* ACTION_SEARCH_SEND: a packet on every interface, when the search is there
ExecuteSend ==
    /\ cur.type = "send" /\ UNCHANGED <<heap, list>>

\* ACTION_SEARCH_END
ExecuteEnd ==
    /\ cur.type = "end"
    /\ Finish({s \in {cur.s} : InList(s)}, heap)

\* mdns_parse_packet: the packet has n results for each search in A, of those
\* that mdns_priv_query_find finds; they are added while there is room for one;
\* then mdns_priv_query_done ends the searches that have enough.
\* Mutants: searches that are off are found as well; the limit is not looked at.
AnswerableAll == {s \in Searches : InList(s)}
Answerable == {s \in Searches : InList(s) /\ heap[s].state # "off"}
AddUnlimited(r, n) == [r EXCEPT !.num = @ + n]
AddResults(r, n) ==
    [r EXCEPT !.num = IF r.max # 0 /\ @ + n > r.max THEN r.max ELSE @ + n]
Enough(r) == r.max # 0 /\ r.num >= r.max

ExecuteRx ==
    /\ cur.type = "rx"
    /\ \E A \in SUBSET Answerable, n \in {1, 2} :
         LET h == [s \in Searches |-> IF s \in A THEN AddResults(heap[s], n) ELSE heap[s]]
         IN  Finish({s \in Searches : InList(s) /\ Enough(h[s])}, h)

\* execute_action, under the lock
ExecuteAction ==
    /\ cur # NoAction /\ Unlocked
    /\ ExecuteAdd \/ ExecuteSend \/ ExecuteEnd \/ ExecuteRx
    /\ cur' = NoAction
    /\ UNCHANGED <<actq, clock, client, queries, packets>>

-----------------------------------------------------------------------------

Init ==
    /\ heap = [s \in Searches |-> Free] /\ list = {}
    /\ actq = <<>> /\ cur = NoAction /\ scan = NoSearch /\ fired = FALSE
    /\ now = 0 /\ client = [c \in Clients |-> [pc |-> "idle", s |-> NoSearch]]
    /\ queries = 0 /\ packets = 0

ClientStep(c) ==
    \/ \E kind \in {"sync", "async"}, max \in Limits : Begin(c, kind, max)
    \/ SyncReturns(c) \/ AsyncGetResults(c) \/ AsyncDelete(c)
Timer == BeginScan \/ ScanSearch
ServiceTask == ReceiveAction \/ ExecuteAction
Next == (\E c \in Clients : ClientStep(c)) \/ Timer \/ Tick \/ PacketArrives \/ ServiceTask

Spec == Init /\ [][Next]_vars
\* Scheduling: the service task, the timer and a woken client run, and time
\* passes.  The timer leaves the lock to the service task between two runs.
FairSpec ==
    /\ Spec /\ WF_vars(ReceiveAction) /\ SF_vars(ExecuteAction)
    /\ WF_vars(Timer) /\ WF_vars(Tick) /\ \A c \in Clients : WF_vars(SyncReturns(c))

-----------------------------------------------------------------------------
(* Properties *)

Search == [state : {"init", "running", "off"}, gen : 1..MaxQueries,
           max : Limits, num : Nat, started : 0..Modulus - 1,
           sent : 0..Modulus - 1, notifier : BOOLEAN, sem : BOOLEAN]
Actions == {NoAction, [type |-> "rx"]}
           \cup [type : {"add", "send", "end"}, s : Searches, gen : 1..MaxQueries]

\* Every variable has its type; no search has more results than were asked for.
TypeOK ==
    /\ heap \in [Searches -> Search \cup {Free}]
    /\ list \subseteq Searches /\ actq \in Seq(Actions \ {NoAction})
    /\ Len(actq) <= QueueLen /\ cur \in Actions
    /\ scan \in list \cup {NoSearch} /\ fired \in BOOLEAN /\ now \in 0..Modulus - 1
    /\ client \in [Clients -> [pc : {"idle", "sync", "async", "got"},
                               s : Searches \cup {NoSearch}]]
    /\ queries \in 0..MaxQueries /\ packets \in 0..MaxPackets
    /\ \A s \in Searches : heap[s] # Free /\ heap[s].max # 0 => heap[s].num <= heap[s].max

Pending == {actq[i] : i \in DOMAIN actq} \cup {cur}

\* What the service task and the timer can reach is there: the searches of the
\* list and those still to be added are allocated, none is added twice, although their
\* owners free them without asking (search_free in mdns_query_generic and in
\* mdns_query_async_delete).
ReachableIsAllocated ==
    /\ \A s \in list : heap[s] # Free
    /\ \A a \in Pending : a.type = "add" => heap[a.s] # Free /\ ~InList(a.s)

\* An action left over from an earlier search never acts on the search that has
\* its address now: search_is_in_list compares addresses only, and it is the
\* order of the queue that makes this enough.
LeftoversMissTheirTarget ==
    \A a \in Pending : a.type \in {"send", "end"} /\ InList(a.s) => heap[a.s].gen = a.gen

\* A client that gets the semaphore owns the search and its results alone: they
\* are out of the list, the notifier has been called, once, and is cleared.
SemaphoreIsLast ==
    \A s \in Searches :
        heap[s] # Free /\ heap[s].sem => ~InList(s) /\ heap[s].state = "off" /\ ~heap[s].notifier

\* The task, the timer and the clients agree on whose a search is: reached only
\* while it is allocated, acted on only as itself, handed over once and whole.
SearchesOwned == ReachableIsAllocated /\ LeftoversMissTheirTarget /\ SemaphoreIsLast

\* A search that the timer has ended gets no further results: what its owner
\* may read or free after the decision is what it was at the decision.
OffGrowsNoMore ==
    [][\A s \in Searches :
         heap[s] # Free /\ heap'[s] # Free /\ heap[s].state = "off"
           => heap'[s].num = heap[s].num]_vars

\* mdns_query returns (its caller waits without a limit on the semaphore),
\* unless the queue is full again and again when the timer posts to it, or the
\* end of the search is the last value of the clock, which nothing exceeds.
QueryReturns ==
    <>[]Room =>
        \A c \in Clients :
            (client[c].pc = "sync" /\ (heap[client[c].s].started + Timeout) % Modulus # Modulus - 1)
                ~> client[c].pc = "idle"
=============================================================================
