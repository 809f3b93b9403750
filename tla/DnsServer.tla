----------------------------- MODULE DnsServer ------------------------------
(***************************************************************************)
(* The DNS forwarder of dns_server.c: the task dns_server, which waits for *)
(* the network, binds port 53 and then serves one datagram at a time from  *)
(* its cache or from the upstream server, with the clients, the network    *)
(* manager's state, the upstream and the passing of time around it.        *)
(*                                                                         *)
(* Between recvfrom on port 53 and the next point where the task blocks    *)
(* nothing else writes what it reads, so that stretch is one action.       *)
(***************************************************************************)
EXTENDS DnsCache, Sequences

CONSTANTS
    Questions,        \* (qname, qtype) pairs that clients ask
    Ttls,             \* TTLs of upstream answers
    None, Malformed,  \* no question; a datagram without a well-formed one
    NoData,           \* data is NULL: malloc failed
    Byte,             \* values of a byte (256)
    UpstreamTimeout,  \* SO_RCVTIMEO of the forwarding socket, in seconds
    MailboxSize,      \* datagrams that port 53 holds for the task
    MaxDatagrams,     \* bound: datagrams the clients send
    MaxTime           \* bound: seconds that pass while the task is idle

ASSUME TtlsAssumption == Ttls \subseteq 0 .. Modulus - 1
ASSUME NothingsAssumption ==
    /\ None \notin Questions /\ Malformed \notin Questions
    /\ NoData \notin [q : Questions, ttl : Ttls, compressed : BOOLEAN]
ASSUME NumbersAssumption ==
    /\ Byte \in Nat \ {0} /\ UpstreamTimeout \in Nat /\ MailboxSize \in Nat
    /\ MaxDatagrams \in Nat /\ MaxTime \in Nat

VARIABLES
    netState,   \* what network_manager_get_state tells: "INIT", "WIFI_AP", "OTHER"
    uptime,     \* uptime_s()
    mailbox,    \* datagrams received on port 53 and not yet taken
    sends,      \* datagrams sent by the clients so far (bound)
    pc,         \* the task: "wait_net", "recv", "upstream" or "stopped"
    rx,         \* the question being served
    port,       \* number of the forwarding socket; each query has its own
    sentAt,     \* when the query was forwarded
    asked,      \* queries that reached the upstream: [port, q]
    inflight,   \* answers on their way back: [port, answer]
    cache,      \* s_cache and s_cache_count
    out         \* the last datagram sent to a client, for the properties

serverVars == <<pc, rx, port, sentAt>>
upstream   == <<asked, inflight>>
vars == <<netState, uptime, mailbox, sends, serverVars, upstream, cache, out>>

Answers == [q : Questions, ttl : Ttls, compressed : BOOLEAN]

Reply(kind, answer, got) ==
    [kind |-> kind, q |-> rx', answer |-> answer, got |-> got, at |-> uptime]

Init ==
    /\ netState = "INIT" /\ uptime = 0
    /\ mailbox = <<>> /\ sends = 0
    /\ pc = "wait_net" /\ rx = None /\ port = 0 /\ sentAt = 0
    /\ asked = {} /\ inflight = {}
    /\ cache = EmptyCache
    /\ out = [kind |-> "none"]

-----------------------------------------------------------------------------
(* The surroundings.                                                       *)

\* net_monitor publishes its states; INIT is left for good.
NetStateChanges ==
    /\ netState' \in {"WIFI_AP", "OTHER"} \ {netState}
    /\ UNCHANGED <<uptime, mailbox, sends, serverVars, upstream, cache, out>>

\* A datagram is lost when the mailbox of port 53 is full.
ClientSends(d) ==
    /\ pc \in {"recv", "upstream"}
    /\ sends < MaxDatagrams
    /\ sends' = sends + 1
    /\ mailbox' = IF Len(mailbox) < MailboxSize THEN Append(mailbox, d) ELSE mailbox
    /\ UNCHANGED <<netState, uptime, serverVars, upstream, cache, out>>

\* The upstream answers a query at any time or never.  A second answer would
\* find the socket of its query closed.
UpstreamAnswers(m, a) ==
    /\ m \in asked
    /\ a.q = m.q
    /\ inflight' = inflight \cup {[port |-> m.port, answer |-> a]}
    /\ asked' = asked \ {m}
    /\ UNCHANGED <<netState, uptime, mailbox, sends, serverVars, cache, out>>

\* The wait for the upstream ends when its time is up.
Tick ==
    /\ IF pc = "upstream" THEN uptime < sentAt + UpstreamTimeout ELSE uptime < MaxTime
    /\ uptime' = uptime + 1
    /\ UNCHANGED <<netState, mailbox, sends, serverVars, upstream, cache, out>>

-----------------------------------------------------------------------------
(* The task dns_server.                                                    *)

StartServing ==
    /\ pc = "wait_net" /\ netState # "INIT"
    /\ pc' = "recv"
    /\ UNCHANGED <<netState, uptime, mailbox, sends, rx, port, sentAt, upstream, cache, out>>

\* socket or bind fails at the start, or recvfrom later: the task is over and
\* nothing starts it again.
StopServing ==
    /\ (pc = "wait_net" /\ netState # "INIT") \/ (pc = "recv" /\ mailbox = <<>>)
    /\ pc' = "stopped"
    /\ UNCHANGED <<netState, uptime, mailbox, sends, rx, port, sentAt, upstream, cache, out>>

TakeDatagram ==
    /\ pc = "recv" /\ mailbox # <<>>
    /\ mailbox' = Tail(mailbox)

\* No well-formed question, or a question while the access point is on.
IgnoreDatagram ==
    /\ TakeDatagram
    /\ Head(mailbox) = Malformed \/ netState = "WIFI_AP"
    /\ UNCHANGED <<netState, uptime, sends, serverVars, upstream, cache, out>>

TakeQuestion ==
    /\ TakeDatagram
    /\ Head(mailbox) # Malformed /\ netState # "WIFI_AP"
    /\ rx' = Head(mailbox)
    /\ cache' = Purge(cache, uptime)

\* An entry without data does not count as a hit.
Hits == {e \in Lookup(cache', rx', uptime) : e.data # NoData}

AnswerFromCache ==
    /\ TakeQuestion
    /\ \E e \in Hits : out' = Reply("cached", e.data, e.got)
    /\ UNCHANGED <<netState, uptime, sends, pc, port, sentAt, upstream>>

Forward ==
    /\ TakeQuestion
    /\ Hits = {}
    /\ port' = port + 1
    /\ sentAt' = uptime
    /\ asked' = asked \cup {[port |-> port', q |-> rx']}
    /\ pc' = "upstream"
    /\ UNCHANGED <<netState, uptime, sends, inflight, out>>

\* lwIP has no socket left: the question is dropped.
NoForwardingSocket ==
    /\ TakeQuestion
    /\ Hits = {}
    /\ UNCHANGED <<netState, uptime, sends, pc, port, sentAt, upstream, out>>

\* dns_parse_min_ttl reads the TTL of the first answer.  Behind a compressed
\* owner name it reads one byte late: the low byte is then the high byte of
\* RDLENGTH, which is zero for answers shorter than 256 bytes.
ParsedTtl(a) == IF a.compressed THEN (a.ttl * Byte) % Modulus ELSE a.ttl

\* cache_insert; either malloc may fail.
Insert(a) ==
    LET room == MakeRoom(cache, rx, uptime)
        entry(data) == [key |-> rx, expiry |-> Expiry(uptime, ParsedTtl(a)),
                        data |-> data, seq |-> port, got |-> uptime]
    IN cache' \in {room, Link(room, entry(a)), Link(room, entry(NoData))}

\* Mutant: one forwarding socket for all queries.
FromAnyPort(m) == TRUE
FromMyPort(m) == m.port = port

AnswerArrives(m) ==
    /\ pc = "upstream"
    /\ m \in inflight /\ FromMyPort(m)
    /\ inflight' = inflight \ {m}
    /\ Insert(m.answer)
    /\ pc' = "recv"
    /\ UNCHANGED <<netState, uptime, mailbox, sends, rx, port, sentAt, asked>>
    /\ out' = Reply("upstream", m.answer, uptime)

\* Mutant: the forwarding socket has no time limit.
NoTimeLimit == FALSE
TimeIsUp == uptime >= sentAt + UpstreamTimeout

AnswerServfail ==
    /\ pc = "upstream" /\ TimeIsUp
    /\ pc' = "recv"
    /\ UNCHANGED <<netState, uptime, mailbox, sends, rx, port, sentAt, upstream, cache>>
    /\ out' = Reply("servfail", NoData, uptime)

-----------------------------------------------------------------------------
Server == StartServing \/ StopServing \/ IgnoreDatagram \/ AnswerFromCache \/ Forward
            \/ NoForwardingSocket \/ (\E m \in inflight : AnswerArrives(m)) \/ AnswerServfail

Surroundings == NetStateChanges \/ Tick
    \/ (\E d \in Questions \cup {Malformed} : ClientSends(d))
    \/ (\E m \in asked, a \in Answers : UpstreamAnswers(m, a))

Next == Server \/ Surroundings
Spec == Init /\ [][Next]_vars

\* FreeRTOS schedules the task (it has the highest priority of the device's
\* own tasks) and time passes.
Fairness == WF_vars(Server) /\ WF_vars(Tick)
FairSpec == Spec /\ Fairness

-----------------------------------------------------------------------------
Entries == [key : Questions, expiry : 0 .. Modulus - 1, data : Answers \cup {NoData},
            seq : Nat, got : Nat]

TypeOK ==
    /\ netState \in {"INIT", "WIFI_AP", "OTHER"} /\ uptime \in Nat
    /\ mailbox \in Seq(Questions \cup {Malformed}) /\ sends \in Nat
    /\ pc \in {"wait_net", "recv", "upstream", "stopped"}
    /\ rx \in Questions \cup {None} /\ port \in Nat /\ sentAt \in Nat
    /\ asked \subseteq [port : Nat, q : Questions]
    /\ inflight \subseteq [port : Nat, answer : Answers]
    /\ cache.list \subseteq Entries /\ cache.count \in Nat

\* The counter that drives eviction is the number of linked entries, and the
\* list never outgrows MAX_CACHE_ENTRIES.
CacheBounded == cache.count = Cardinality(cache.list) /\ cache.count <= MaxEntries

\* At most one entry per question: cache_insert unlinks one old entry and
\* cache_lookup looks no further than the first, also where an entry without
\* data made cache_lookup miss.
OneEntryPerKey == \A e, f \in cache.list : e.key = f.key => e = f

\* The cache survives eviction, expiry and failing allocations in any order:
\* counted and bounded, one entry per question.
CacheSound == CacheBounded /\ OneEntryPerKey

\* A client that asked one question never gets the answer to another one,
\* however late the upstream answers and whatever the cache holds.
AnswersItsQuestion == out.kind \in {"cached", "upstream"} => out.answer.q = out.q

\* Answers come from the cache only for the seconds dns_parse_min_ttl granted,
\* also where the sum wraps around.
ServedWhileLive == out.kind = "cached" => out.at < out.got + ParsedTtl(out.answer)

\* An answer is served no longer than its TTL allows.
ServedWithinTtl == out.kind = "cached" => out.at < out.got + out.answer.ttl

\* A silent upstream never blocks the task for good: once the clients are
\* quiet every datagram is taken and the task waits for the next.
ServesAll == <>[](pc = "stopped" \/ (pc = "recv" /\ mailbox = <<>>) \/ netState = "INIT")
=============================================================================
