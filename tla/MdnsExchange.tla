------------------------------ MODULE MdnsExchange ------------------------------
(***************************************************************************)
(* A query of one device answered by another, down to the packets: what    *)
(* the querier asks and says it knows (mdns_querier.c), what the responder *)
(* makes of it (mdns_receive.c, mdns_send.c) and what the querier reads in *)
(* the answer.  Packets may be lost, duplicated and overtaken.             *)
(*                                                                         *)
(* Both devices run this code; names of one are not names of the other, so *)
(* that nothing conflicts.  One interface, IPv4 multicast, memory enough.  *)
(* The delay of a scheduled answer is part of its way: the services do not *)
(* change.  When a search begins and ends is in MdnsQuery, when a service  *)
(* is announced in MdnsTx.                                                 *)
(***************************************************************************)
EXTENDS MdnsWire, FiniteSets

CONSTANTS
    Responders,  \* what the answering device may host
    Queriers,    \* what the asking device may host
    Queries,     \* the searches it may begin
    MaxNet,      \* how many packets are under way at once
    MaxKnown     \* no more services than this are of the type that is asked for

NoInst == ""
Proto == "_tcp"
NoTxt == <<>>
NoItem == [key |-> "", value |-> ""]

ASSUME DevicesAssumption ==
    \A d \in Responders \cup Queriers :
        /\ DOMAIN d = {"self", "delegates", "services", "hosts"}
        /\ DOMAIN d.hosts = {d.self} \cup ToSet(d.delegates)
        /\ \A i \in DOMAIN d.services : d.services[i].host \in DOMAIN d.hosts
ASSUME QueriesAssumption ==
    \A q \in Queries : DOMAIN q = {"type", "inst", "svc", "proto", "max"}

VARIABLES
    peer,     \* the responder: hostname, services and hosts
    mine,     \* the same of the querier
    search,   \* what is asked
    on,       \* the search is not finished
    results,  \* its results, the newest first
    net,      \* packets under way
    last      \* what the last step was, for the fairness

vars == <<peer, mine, search, on, results, net, last>>
device == <<peer, mine, search>>

-----------------------------------------------------------------------------
(* The tables of a device *)

\* mdns_utils_get_service_instance_name
InstanceOf(d, s) == IF s.inst = NoInst THEN d.self ELSE s.inst
First(d, Test(_)) ==
    LET i == SelectInSeq(d.services, Test) IN IF i = 0 THEN <<>> ELSE <<d.services[i]>>
\* mdns_utils_get_service_item, mdns_utils_get_service_item_instance
OfType(d, type) == First(d, LAMBDA s : s.type = type)
OfInstance(d, inst, type) == First(d, LAMBDA s : s.type = type /\ InstanceOf(d, s) = inst)
OfSubtype(d, sub, type) == First(d, LAMBDA s : s.type = type /\ sub \in ToSet(s.subs))

IsDiscovery(n, type) ==
    /\ type = "PTR"
    /\ <<n.host, n.service, n.proto, n.domain>> = <<"_services", "_dns-sd", "_udp", Domain>>

\* is_ours
IsOurs(d, n) ==
    /\ n.domain = Domain
    /\ IF n.service = "" THEN n.host # "" /\ n.host \in DOMAIN d.hosts
       ELSE <<>> # CASE n.sub -> OfSubtype(d, n.host, n.service)
                     [] ~n.sub /\ n.host = "" -> OfType(d, n.service)
                     [] OTHER -> OfInstance(d, n.host, n.service)

-----------------------------------------------------------------------------
(* What is written: answers of the responder *)

\* get_host_item with the address of the interface for the own hostname
Addresses(d, host, type) == SelectSeq(d.hosts[host], LAMBDA a : a.type = type)

ServiceName(s) == <<s.type, Proto, Domain>>
InstanceName(d, s) == <<InstanceOf(d, s)>> \o ServiceName(s)

\* The packet after r, with the records that were there and those r appended.
Plus(a, r) == [r EXCEPT !.count = @ + a.count]

\* append_ptr_record and, when it fitted, one append_subtype_ptr_record for each subtype
PtrRecords(d, p, s) ==
    LET ptr(q, owner) == AppendRecord(q, owner, "PTR", <<Name(InstanceName(d, s))>>)
        next(a, sub) == Plus(a, ptr(a.p, <<sub, "_sub">> \o ServiceName(s)))
        subtypes(first) == IF first.count = 0 THEN first ELSE Fold(next, first, s.subs) IN
    subtypes(ptr(p, ServiceName(s)))
SrvRecord(d, p, s) ==
    AppendRecord(p, InstanceName(d, s), "SRV", <<Data(s.port), Name(<<s.host, Domain>>)>>)
\* A TXT record without items has one empty string.
TxtRecord(d, p, s) ==
    AppendRecord(p, InstanceName(d, s), "TXT",
                 IF s.txt = NoTxt THEN <<Data(NoItem)>>
                 ELSE [i \in DOMAIN s.txt |-> Data(s.txt[i])])
\* append_sdptr_record goes on when the owner did not fit.
SdptrRecord(p, s) ==
    AppendBody(AppendFqdn(p, <<"_services", "_dns-sd", "_udp", Domain>>), "PTR",
               <<Name(ServiceName(s))>>)
\* append_host_answer stops at the first address that does not fit.
AddressRecords(d, p, host, type) ==
    LET one(a, r) == [r |-> Plus(a.r, r), ok |-> r.count = 1]
        next(a, addr) ==
            IF a.ok THEN one(a, AppendRecord(a.r.p, <<host, Domain>>, type, <<Data(addr.ip)>>))
            ELSE a IN
    Fold(next, [r |-> [p |-> p, count |-> 0], ok |-> TRUE], Addresses(d, host, type)).r

\* append_answer
AppendAnswer(d, p, a) ==
    CASE a.type = "PTR" -> PtrRecords(d, p, a.service)
      [] a.type = "SRV" -> SrvRecord(d, p, a.service)
      [] a.type = "TXT" -> TxtRecord(d, p, a.service)
      [] a.type = "SDPTR" -> SdptrRecord(p, a.service)
      [] OTHER -> AddressRecords(d, p, a.host, a.type)

\* mdns_priv_dispatch_tx_packet for a response.  Of the counts in the header only
\* whether they are 0 makes a difference.
Message(kind, questions, r) ==
    [kind |-> kind, cells |-> r.p.cells, meant |-> r.p.meant, questions |-> questions,
     records |-> r.count, known |-> IF kind = "query" THEN r.count ELSE 0]
Response(d, answers) ==
    LET next(a, answer) == Plus(a, AppendAnswer(d, a.p, answer)) IN
    Message("response", 0, Fold(next, [p |-> EmptyPacket, count |-> 0], answers))

\* mdns_priv_create_answer: no answer twice in a list.
Add(list, a) == IF a \in ToSet(list) THEN list ELSE Append(list, a)
AddAll(list, as) == Fold(Add, list, as)
ServiceAnswer(type, s) == [type |-> type, service |-> s, host |-> ""]
HostAnswers(s, host) ==
    <<[type |-> "A", service |-> s, host |-> host], [type |-> "AAAA", service |-> s, host |-> host]>>
NoService == [type |-> ""]

\* create_answer_from_service.  An answer that is not shared has the addresses of
\* the own host in its first section.
FromService(d, tx, s, q, shared) ==
    LET addresses == HostAnswers(s, s.host)
        early == ~shared /\ s.host = d.self
        scoped == q.type = "ANY" /\ q.host # ""
        more(as, xs) == [answers |-> AddAll(tx.answers, as), additional |-> AddAll(tx.additional, xs)]
        srv == <<ServiceAnswer("SRV", s)>>
        txt == <<ServiceAnswer("TXT", s)>> IN
    CASE scoped -> more(srv \o txt, addresses)
      [] q.type = "PTR" \/ (q.type = "ANY" /\ ~scoped) ->
           more(<<ServiceAnswer("PTR", s)>> \o (IF early THEN addresses ELSE <<>>),
                srv \o txt \o (IF early THEN <<>> ELSE addresses))
      [] q.type = "SRV" -> more(srv, addresses)
      [] q.type = "TXT" -> more(txt, <<>>)
      [] q.type = "SDPTR" -> more(<<ServiceAnswer("SDPTR", s)>>, <<>>)
      [] OTHER -> tx

\* append_host_list goes to the next delegated host before it appends one.
HostList(d) ==
    HostAnswers(NoService, d.self)
      \o FlattenSeq([i \in 1..Len(d.delegates) - 1 |-> HostAnswers(NoService, d.delegates[i + 1])])

\* service_match_ptr_question
Matches(d, s, q) ==
    /\ s.type = q.service
    /\ IF q.sub THEN q.host \in ToSet(s.subs) ELSE q.host \in {"", InstanceOf(d, s)}

\* The querier has told that it knows this service.  (It says so with the full
\* time to live.)  Mutant: one known service is enough for all.
KnownAny(d, s, known) == known # {}
Known(d, s, known) ==
    \E r \in known : IF s.inst # NoInst THEN r.host = s.inst /\ r.service = s.type
                     ELSE r.host = "" /\ r.service = s.type

\* mdns_priv_create_answer_from_parsed_packet
Answers(d, asked) ==
    LET from(tx, q) ==
            LET shared == q.type \in {"PTR", "SDPTR"} \/ ~asked.probe
                give(t, s) ==
                    IF Matches(d, s, q) /\ ~Known(d, s, asked.known)
                    THEN FromService(d, t, s, q, shared) ELSE t IN
            CASE q.type \in {"SRV", "TXT"} ->
                   Fold(LAMBDA t, s : FromService(d, t, s, q, shared), tx,
                            OfInstance(d, q.host, q.service))
              [] q.type \notin {"SRV", "TXT"} /\ q.service # "" -> Fold(give, tx, d.services)
              [] q.service = "" /\ q.type \in {"A", "AAAA"} ->
                   [tx EXCEPT !.answers = AddAll(@, HostAnswers(NoService, q.host))]
              [] q.service = "" /\ q.type = "ANY" ->
                   [tx EXCEPT !.answers = AddAll(@, HostList(d))]
              [] OTHER -> tx
        tx == Fold(from, [answers |-> <<>>, additional |-> <<>>], asked.questions) IN
    tx.answers \o tx.additional

-----------------------------------------------------------------------------
(* What is written: the question *)

QuestionName(q) ==
    (IF q.inst = NoInst THEN <<>> ELSE <<q.inst>>)
      \o q.svc \o (IF q.svc = <<>> THEN <<>> ELSE <<q.proto>>) \o <<Domain>>

\* create_search_packet: a result with instance, host and address is told as known.
\* Mutant: the host will do.
CompleteWithHost(r) == r.inst # "" /\ r.host # ""
Complete(r) == r.inst # "" /\ r.host # "" /\ r.addrs # {}
QueryPacket(q, found) ==
    LET name == QuestionName(q)
        named == AppendFqdn(EmptyPacket, name)
        tell(a, r) == Plus(a, AppendRecord(a.p, name, "PTR", <<Name(<<r.inst>> \o name)>>))
        known == IF q.type = "PTR" THEN SelectSeq(found, Complete) ELSE <<>> IN
    Message("query", IF Grew(EmptyPacket, named) THEN 1 ELSE 0,
            Fold(tell, [p |-> Put(named, Data(q.type)), count |-> 0], known))

-----------------------------------------------------------------------------
(* What is read: results of the querier *)

NewResult == [inst |-> "", host |-> "", port |-> 0, txt |-> NoTxt, addrs |-> {}]
\* Mutant: the result that follows the last one is added, too.
PrependOneMore(q, rs, r) == IF q.max = 0 \/ Len(rs) <= q.max THEN <<r>> \o rs ELSE rs
Prepend(q, rs, r) == IF q.max = 0 \/ Len(rs) < q.max THEN <<r>> \o rs ELSE rs
\* The result with this number, changed; there is no number 0.
Update(rs, i, Change(_)) == IF i = 0 THEN rs ELSE [rs EXCEPT ![i] = Change(@)]

\* mdns_priv_query_result_add_ptr
AddPtr(q, rs, inst) ==
    IF \E r \in ToSet(rs) : r.inst # "" /\ r.inst = inst THEN rs
    ELSE Prepend(q, rs, [NewResult EXCEPT !.inst = inst])

\* mdns_priv_query_result_add_srv
AddSrv(q, rs, host, port) ==
    IF \E r \in ToSet(rs) : r.host # "" /\ r.host = host THEN rs
    ELSE Prepend(q, rs, [NewResult EXCEPT !.inst = q.inst, !.host = host, !.port = port])

\* mdns_priv_query_result_add_txt: with one interface the first result is the one.
AddTxt(q, rs, txt) ==
    IF rs = <<>> THEN Prepend(q, rs, [NewResult EXCEPT !.txt = txt])
    ELSE [rs EXCEPT ![1].txt = IF @ = NoTxt THEN txt ELSE @]

\* mdns_priv_query_result_add_ip, result_add_ip
AddIp(q, rs, host, type, ip) ==
    LET with(r) == [r EXCEPT !.addrs = @ \cup {ip}] IN
    CASE q.type \in {type, "ANY"} /\ rs # <<>> -> [rs EXCEPT ![1] = with(@)]
      [] q.type \in {type, "ANY"} /\ rs = <<>> ->
           Prepend(q, rs, with([NewResult EXCEPT !.host = host]))
      [] q.type \in {"PTR", "SRV"} ->
           Update(rs, SelectInSeq(rs, LAMBDA r : r.host # "" /\ r.host = host), with)
      [] OTHER -> rs

\* The branches of mdns_parse_packet that fill the result of an instance, which
\* they look for by name, and add when it is not there.  Mutant: the newest.
NewestAt(rs, inst) == Min({1, Len(rs)})
InstanceAt(rs, inst) == SelectInSeq(rs, LAMBDA r : r.inst = inst)
SrvFound(q, rs, inst, host, port) ==
    LET set(r) == IF r.host = "" THEN [r EXCEPT !.host = host, !.port = port] ELSE r
        added == AddPtr(q, rs, inst) IN
    IF q.type = "PTR" THEN Update(added, InstanceAt(added, inst), set)
    ELSE AddSrv(q, rs, host, port)
TxtFound(q, rs, inst, txt) ==
    LET set(r) == IF r.txt = NoTxt THEN [r EXCEPT !.txt = txt] ELSE r
        added == AddPtr(q, rs, inst) IN
    IF q.type = "PTR" THEN Update(added, InstanceAt(added, inst), set)
    ELSE IF txt = NoTxt THEN rs ELSE AddTxt(q, rs, txt)

\* result_txt_create leaves out items without a key.
TxtOf(cells) ==
    LET items == SelectSeq(cells, LAMBDA c : c.v.key # "") IN
    [i \in DOMAIN items |-> items[i].v]

\* mdns_priv_query_find_from for the one search there is
IsFor(q, rs, n, type) ==
    CASE type \in {"A", "AAAA"} ->
           /\ IF q.type = "ANY" THEN q.svc = <<>> ELSE q.type \in {type, "PTR", "SRV"}
           /\ IF q.type \in {"PTR", "SRV"} THEN \E r \in ToSet(rs) : r.host # "" /\ r.host = n.host
              ELSE n.host = q.inst
      [] type \in {"SRV", "TXT"} ->
           /\ IF q.type = "ANY" THEN q.svc # <<>> ELSE q.type \in {type, "PTR"}
           /\ q.svc = <<n.service>> /\ q.proto = n.proto
           /\ q.type = "PTR" \/ (q.inst # NoInst /\ q.inst = n.host)
      [] OTHER ->
           /\ q.type = type /\ q.proto = n.proto
           /\ q.svc = IF n.host # "" /\ Len(q.svc) = 2 THEN <<n.host, n.service>> ELSE <<n.service>>

-----------------------------------------------------------------------------
(* mdns_parse_packet *)

NothingAsked == [questions |-> <<>>, probe |-> FALSE, discovery |-> FALSE, known |-> {}]
Question(type, n) == [type |-> type, host |-> n.host, service |-> n.service, sub |-> n.sub]

\* A discovery asks for every service the device has.
AskedFor(d, asked, n, type) ==
    CASE n.invalid -> asked
      [] ~n.invalid /\ IsDiscovery(n, type) ->
           [asked EXCEPT
              !.discovery = TRUE,
              !.questions = Fold(LAMBDA qs, s :
                  <<[type |-> "SDPTR", host |-> "", service |-> s.type, sub |-> FALSE]>> \o qs,
                  @, d.services)]
      [] ~n.invalid /\ ~IsDiscovery(n, type) /\ IsOurs(d, n) ->
           [asked EXCEPT !.probe = @ \/ (type = "ANY" /\ n.host # ""),
                         !.questions = <<Question(type, n)>> \o @]
      [] OTHER -> asked

\* question_matches, remove_parsed_question: a question for a type of service is
\* withdrawn when a service without an instance name is known.
WithoutQuestion(questions, type, s) ==
    RemoveFirstMatch(questions, LAMBDA q :
        /\ q.type = type /\ q.service = s.type
        /\ s.inst = NoInst \/ (q.host # "" /\ q.host = s.inst))

\* A PTR record that is no result: something another device knows of us.
PtrKnown(d, asked, n) ==
    LET ours == IF n.host # "" THEN OfInstance(d, n.host, n.service) ELSE OfType(d, n.service)
        told == [asked EXCEPT !.known = @ \cup {[host |-> n.host, service |-> n.service]}] IN
    CASE n.sub \/ ~IsOurs(d, n) \/ ours = <<>> -> asked
      [] ~n.sub /\ IsOurs(d, n) /\ ours # <<>> /\ asked.discovery ->
           [told EXCEPT !.questions = WithoutQuestion(@, "SDPTR", ours[1])]
      [] OTHER ->
           [told EXCEPT !.questions = IF asked.probe THEN @ ELSE WithoutQuestion(@, "PTR", ours[1])]

\* One record with its name n, its type and its data in the cells from..to.
\* found is search_result: it keeps its value for a record that is ours.
ParseRecord(d, q, st, m, n, type, from, to) ==
    LET discovery == st.asked.discovery /\ IsDiscovery(n, type)
        ours == ~discovery /\ ~n.sub /\ IsOurs(d, n)
        found == IF discovery \/ ours THEN st.found ELSE on /\ IsFor(q, st.rs, n, type)
        skipped == ~discovery /\ ~ours /\ m.kind = "query"
        next == [st EXCEPT !.found = found]
        value == m.cells[from].v IN
    CASE skipped -> st
      [] ~skipped /\ type = "PTR" /\ ~Readable(m.cells, from) -> next
      [] ~skipped /\ type = "PTR" /\ Readable(m.cells, from) ->
           LET target == ParseFqdn(m.cells, from) IN
           CASE found -> [next EXCEPT !.rs = AddPtr(q, @, target.host)]
             [] ~found /\ (discovery \/ ours) -> [next EXCEPT !.asked = PtrKnown(d, @, target)]
             [] OTHER -> next
      [] ~skipped /\ type = "SRV" /\ found ->
           [next EXCEPT !.rs = SrvFound(q, @, n.host, ParseFqdn(m.cells, from + 1).host, value)]
      [] ~skipped /\ type = "TXT" /\ found ->
           [next EXCEPT !.rs = TxtFound(q, @, n.host, TxtOf(SubSeq(m.cells, from, to)))]
      [] ~skipped /\ type \in {"A", "AAAA"} /\ found ->
           [next EXCEPT !.rs = AddIp(q, @, n.host, type, value), !.found = FALSE]
      [] OTHER -> next

RECURSIVE ParseQuestions(_, _, _, _)
ParseQuestions(d, m, n, st) ==
    LET after == AfterName(m.cells, st.at) IN
    IF n = 0 THEN st
    ELSE IF ~Readable(m.cells, st.at) \/ after > Len(m.cells) THEN [st EXCEPT !.whole = FALSE]
    ELSE ParseQuestions(d, m, n - 1,
           [st EXCEPT !.at = after + 1,
                      !.asked = AskedFor(d, @, ParseFqdn(m.cells, st.at), m.cells[after].v)])

\* A name without an end runs into the head of its record, which is then read
\* one byte late: its length leads out of the packet.  A name without a head
\* is near the end of the packet.  A length of 0 ends it, too.
IsRecord(cells, at) ==
    LET head == AfterName(cells, at) IN
    /\ Readable(cells, at) /\ head <= Len(cells)
    /\ cells[head - 1].k \in {"end", "pointer"}
    /\ cells[head].k = "head" /\ cells[head].len > 0
RECURSIVE ParseRecords(_, _, _, _)
ParseRecords(d, q, m, st) ==
    LET head == AfterName(m.cells, st.at) IN
    IF st.at > Len(m.cells) THEN st
    ELSE IF ~IsRecord(m.cells, st.at) THEN [st EXCEPT !.whole = FALSE]
    ELSE LET to == head + m.cells[head].len IN
         ParseRecords(d, q, m,
           ParseRecord(d, q, [st EXCEPT !.at = to + 1], m, ParseFqdn(m.cells, st.at),
                       m.cells[head].v, head + 1, to))

ParseRest(d, q, m, st) == IF st.whole /\ m.records > 0 THEN ParseRecords(d, q, m, st) ELSE st
Parse(d, q, rs, m) ==
    LET start == [at |-> 1, asked |-> NothingAsked, found |-> FALSE, rs |-> rs, whole |-> TRUE] IN
    ParseRest(d, q, m, ParseQuestions(d, m, m.questions, start))

-----------------------------------------------------------------------------
(* Steps *)

Fits(packets) == Cardinality(packets) <= MaxNet

\* Steps and packets as the fairness tells them apart: a response has the number of
\* known answers of the query that it answers.
What(m) == <<m.kind, m.known>>
Other == <<"other", 0>>
Asked == <<"asked", 0>>

\* mdns_priv_query_send, every second
SendQuery ==
    /\ on /\ net' = net \cup {QueryPacket(search, results)} /\ Fits(net')
    /\ last' = Asked
    /\ UNCHANGED <<device, on, results>>

\* announce_all_pcbs for one service whose port, TXT or subtypes have changed:
\* its records without an address.
Announce ==
    /\ \E i \in DOMAIN peer.services :
         LET s == peer.services[i]
             types == <<"SDPTR", "PTR", "SRV", "TXT">>
             answers == [t \in DOMAIN types |-> ServiceAnswer(types[t], s)] IN
         net' = net \cup {[Response(peer, answers) EXCEPT !.kind = "announcement"]}
    /\ Cardinality(net') < MaxNet  \* room for a question is left
    /\ last' = Other
    /\ UNCHANGED <<device, on, results>>

Lose ==
    /\ \E m \in net : net' = net \ {m}
    /\ last' = Other
    /\ UNCHANGED <<device, on, results>>

\* A packet arrives, and may do so again.
AnswersTo(st) == IF st.whole THEN Answers(peer, st.asked) ELSE <<>>
Reply(m, answers) ==
    IF answers = <<>> THEN {} ELSE {[Response(peer, answers) EXCEPT !.known = m.known]}
HandleQuery(m, again) ==
    /\ m.kind = "query"
    /\ last' = IF again THEN Other ELSE What(m)
    /\ net' = (IF again THEN net ELSE net \ {m})
                \cup Reply(m, AnswersTo(Parse(peer, NoService, <<>>, m)))
    /\ Fits(net')
    /\ UNCHANGED <<device, on, results>>

\* mdns_priv_query_done ends a search that has enough, after a packet read to its end.
HandleResponse(m, again) ==
    /\ m.kind # "query"
    /\ last' = IF again THEN Other ELSE What(m)
    /\ net' = IF again THEN net ELSE net \ {m}
    /\ \E st \in {Parse(mine, search, results, m)} :
         /\ results' = st.rs
         /\ on' = (on /\ ~(st.whole /\ search.max # 0 /\ Len(st.rs) >= search.max))
    /\ UNCHANGED device

Init ==
    /\ peer \in Responders /\ mine \in Queriers /\ search \in Queries
    /\ on = TRUE /\ results = <<>> /\ net = {} /\ last = Other

Next ==
    \/ SendQuery \/ Announce \/ Lose
    \/ \E m \in net, again \in BOOLEAN : HandleQuery(m, again) \/ HandleResponse(m, again)

\* The timer sends again, and of the packets that are sent again and again some
\* arrive.  A step is told by what it makes of last, which TLC finds enabled at less
\* expense.
Asks == on /\ Cardinality(net) < MaxNet /\ last' = Asked
Delivers(what) == (\E m \in net : What(m) = what) /\ last' = what
Fairness ==
    /\ SF_last(Asks)
    /\ \A kind \in {"query", "response"}, n \in 0..MaxKnown : SF_last(Delivers(<<kind, n>>))
FairSpec == Init /\ [][Next]_vars /\ Fairness

-----------------------------------------------------------------------------
(* Properties *)

\* Type invariant: at most MaxNet packets, and no more results than were asked for.
TypeOK ==
    /\ peer \in Responders /\ mine \in Queriers /\ search \in Queries /\ on \in BOOLEAN
    /\ \A r \in ToSet(results) :
         /\ DOMAIN r = DOMAIN NewResult
         /\ IsFiniteSet(r.addrs) /\ r.port \in Nat
    /\ search.max = 0 \/ Len(results) <= search.max
    /\ \A m \in net : m.kind \in {"query", "response", "announcement"} /\ m.questions <= 1
    /\ Fits(net)

\* Every name put in a packet reads back as the name it was meant to be, though
\* append_fqdn shortens it by pointers to what stands before it in the packet.
NamesReadBack ==
    \A m \in net : \A name \in m.meant :
        ReadFqdn(m.cells, name.at) = Fold(AddLabel, NoName, name.labels)

\* A result of mdns_query_ptr, mdns_query_srv and mdns_query_a is a service or a
\* host of the responder with the data of that one, whatever packets it was put
\* together from: the port of one service never gets next to the name of another.
Described(r, s) ==
    /\ r.inst \in {"", InstanceOf(peer, s)}
    /\ r.host # "" => r.host = s.host /\ r.port = s.port
    /\ r.txt # NoTxt => r.txt = SelectSeq(s.txt, LAMBDA item : item.key # "")
    /\ r.addrs \subseteq {a.ip : a \in ToSet(peer.hosts[s.host])}
ResultsAreReal ==
    \A r \in ToSet(results) :
        \/ \E i \in DOMAIN peer.services : Described(r, peer.services[i])
        \/ r.inst = "" /\ r.host \in DOMAIN peer.hosts \cup {""}
             /\ r.addrs \subseteq (IF r.host = "" THEN {}
                                  ELSE {a.ip : a \in ToSet(peer.hosts[r.host])})

\* A search for the instances of a type has each of them once, however often and
\* in whatever order its records arrive.
EachOnce ==
    search.type = "PTR" /\ Len(search.svc) = 1 =>
        \A i, j \in DOMAIN results : results[i].inst = results[j].inst => i = j

\* Results are put together from records of several packets without mixing two
\* services or telling one as two.
ResultsSound == ResultsAreReal /\ EachOnce

\* Known answers hide no more than what is known: a query that gets no answer for
\* a service of the type it asks for has that service among its known answers.  The
\* exception is remove_parsed_question, which withdraws the question for the
\* whole type when a service without an instance name is known.
KnownByQuery(m, s) ==
    \E i \in DOMAIN results : results[i].inst = InstanceOf(peer, s)
SilenceIsKnown ==
    \A m \in net :
        m.kind = "query" /\ search.type = "PTR" =>
            \A st \in {s \in {Parse(peer, NoService, <<>>, m)} : s.whole}, i \in DOMAIN peer.services :
                LET s == peer.services[i] IN
                \/ <<s.type>> # search.svc
                \/ ServiceAnswer("PTR", s) \in ToSet(AnswersTo(st))
                \/ KnownByQuery(m, s)
                \/ \E j \in DOMAIN peer.services :
                       peer.services[j].inst = NoInst /\ KnownByQuery(m, peer.services[j])

\* What a search is for gets found, in spite of lost packets and of answers that do
\* not fit into one packet: every instance of a type with its host and an address,
\* for the querier tells in its next question what it has in full, and is told the rest.
HasAll ==
    CASE search.max # 0 -> Len(results) = search.max
      [] search.max = 0 /\ search.type = "PTR" /\ Len(search.svc) = 1 ->
           \A i \in DOMAIN peer.services :
               LET s == peer.services[i] IN
               <<s.type>> = search.svc =>
                   \E r \in ToSet(results) : r.inst = InstanceOf(peer, s) /\ Complete(r)
      [] search.max = 0 /\ search.type = "SRV" ->
           \E r \in ToSet(results) : r.inst = search.inst /\ Complete(r)
      [] search.max = 0 /\ search.type = "TXT" -> \E r \in ToSet(results) : r.txt # NoTxt
      [] search.max = 0 /\ search.type = "ANY" /\ search.svc # <<>> ->
           \E r \in ToSet(results) : r.host # "" /\ r.txt # NoTxt
      [] search.max = 0 /\ search.type \in {"A", "AAAA", "ANY"} /\ search.svc = <<>> ->
           \E r \in ToSet(results) : r.addrs # {}
      [] OTHER -> TRUE
Found == <>[]HasAll
=============================================================================
