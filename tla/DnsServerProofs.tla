-------------------------- MODULE DnsServerProofs ---------------------------
(***************************************************************************)
(* Machine-checked proofs about DnsServer, for every capacity, question,   *)
(* TTL and time-out.                                                       *)
(*                                                                         *)
(* What a client is told depends on what the cache holds, and that on      *)
(* which upstream answer was taken for which query.  The inductive         *)
(* invariant therefore follows an answer from the wire (PortInv) into the  *)
(* cache (EntryInv) and out to the client (OutInv); CacheInv is the shape  *)
(* of the list.                                                            *)
(***************************************************************************)
EXTENDS DnsServer, DnsCacheProofs

CacheInv == Counted(cache) /\ UniqueKeys(cache) /\ cache.count <= MaxEntries

\* An entry was filled by an earlier query for its own key, and expires no
\* later than the TTL read for it says.
EntryInv ==
    \A e \in cache.list :
        /\ e.seq <= port
        /\ pc = "upstream" => e.seq < port
        /\ e.data # NoData => e.data.q = e.key /\ e.expiry <= e.got + ParsedTtl(e.data)

\* What travels under the number of the current socket belongs to the current
\* query.
PortInv ==
    /\ \A m \in asked : m.port <= port /\ (pc = "upstream" /\ m.port = port => m.q = rx)
    /\ \A m \in inflight : m.port <= port /\ (pc = "upstream" /\ m.port = port => m.answer.q = rx)
    /\ pc = "upstream" => rx \in Questions

OutInv == AnswersItsQuestion /\ ServedWhileLive

IInv == CacheInv /\ EntryInv /\ PortInv /\ OutInv

-----------------------------------------------------------------------------
(* Arithmetic of the TTL. *)

LEMMA ModFact ==
    ASSUME NEW x \in Nat
    PROVE  x % Modulus \in 0 .. Modulus - 1 /\ x % Modulus <= x
  BY ModulusAssumption

LEMMA TtlType == ASSUME NEW a \in Answers PROVE ParsedTtl(a) \in Nat
<1>1. a.ttl \in Nat /\ Byte \in Nat
  <2>1. a.ttl \in Ttls
    BY DEF Answers
  <2>2. 0 .. Modulus - 1 \subseteq Nat
    BY ModulusAssumption
  <2> QED
    BY <2>1, <2>2, TtlsAssumption, NumbersAssumption
<1>2. a.ttl * Byte \in Nat
  BY <1>1
<1> QED
  BY <1>1, <1>2, ModFact DEF ParsedTtl

LEMMA ExpiryFact ==
    ASSUME NEW now \in Nat, NEW a \in Answers
    PROVE  /\ Expiry(now, ParsedTtl(a)) \in 0 .. Modulus - 1
           /\ Expiry(now, ParsedTtl(a)) <= now + ParsedTtl(a)
<1>1. now + ParsedTtl(a) \in Nat
  BY TtlType
<1> QED
  BY <1>1, ModFact DEF Expiry

-----------------------------------------------------------------------------
(* What cache_insert leaves behind: some of the old entries, none of them   *)
(* for the current question, and perhaps the new one.                       *)

NewEntry(a, data) == [key |-> rx, expiry |-> Expiry(uptime, ParsedTtl(a)),
                      data |-> data, seq |-> port, got |-> uptime]

LEMMA InsertFact ==
    ASSUME TypeOK, CacheInv, EntryInv, pc = "upstream", NEW a \in Answers, Insert(a)
    PROVE  /\ Counted(cache') /\ UniqueKeys(cache') /\ cache'.count <= MaxEntries
           /\ cache'.count \in Nat
           /\ \A e \in cache'.list :
                 e \in cache.list \/ e = NewEntry(a, a) \/ e = NewEntry(a, NoData)
<1> DEFINE room == MakeRoom(cache, rx, uptime)
<1>1. /\ Counted(room) /\ room.list \subseteq {e \in cache.list : e.key # rx}
      /\ room.count < MaxEntries /\ room.count \in Nat
  BY MakeRoomFact DEF CacheInv
<1>2. UniqueKeys(room)
  BY <1>1 DEF CacheInv, UniqueKeys
<1>3. cache' = room \/ \E d \in {a, NoData} : cache' = Link(room, NewEntry(a, d))
  BY DEF Insert, NewEntry
<1> HIDE DEF room
<1>4. CASE cache' = room
  BY <1>1, <1>2, <1>4, MaxEntriesAssumption
<1>5. ASSUME NEW d \in {a, NoData}, cache' = Link(room, NewEntry(a, d))
      PROVE  /\ Counted(cache') /\ cache'.list = room.list \cup {NewEntry(a, d)}
             /\ cache'.count = room.count + 1
  <2> DEFINE e == NewEntry(a, d)
  <2>1. e.seq = port /\ port \in Nat
    BY DEF NewEntry, TypeOK
  <2>2. \A f \in room.list : f.seq < e.seq
    BY <1>1, <2>1 DEF EntryInv
  <2> HIDE DEF e
  <2>3. Counted(Link(room, e)) /\ Link(room, e).list = room.list \cup {e}
        /\ Link(room, e).count = room.count + 1
    BY <1>1, <2>1, <2>2, LinkFact
  <2> QED
    BY <1>5, <2>3 DEF e
<1>6. ASSUME NEW d \in {a, NoData}, cache' = Link(room, NewEntry(a, d))
      PROVE  UniqueKeys(cache')
  <2>1. NewEntry(a, d).key = rx /\ \A e \in room.list : e.key # rx
    BY <1>1 DEF NewEntry
  <2> QED
    BY <1>2, <1>5, <1>6, <2>1 DEF UniqueKeys
<1> QED
  BY <1>1, <1>3, <1>4, <1>5, <1>6, MaxEntriesAssumption

-----------------------------------------------------------------------------
LEMMA PurgeType ==
    ASSUME TypeOK, CacheInv, cache' = Purge(cache, uptime)
    PROVE  cache'.list \subseteq cache.list /\ cache'.count \in Nat
  BY PurgeFact DEF CacheInv

LEMMA TypeStep == ASSUME TypeOK, CacheInv, EntryInv, PortInv, [Next]_vars PROVE TypeOK'
<1> USE DEF TypeOK, serverVars, upstream
<1>1. CASE NetStateChanges
  BY <1>1 DEF NetStateChanges
<1>2. ASSUME NEW d \in Questions \cup {Malformed}, ClientSends(d) PROVE TypeOK'
  BY <1>2 DEF ClientSends
<1>3. ASSUME NEW m \in asked, NEW a \in Answers, UpstreamAnswers(m, a) PROVE TypeOK'
  BY <1>3 DEF UpstreamAnswers
<1>4. CASE Tick
  BY <1>4 DEF Tick
<1>5. CASE StartServing \/ StopServing
  BY <1>5 DEF StartServing, StopServing
<1>6. CASE IgnoreDatagram
  BY <1>6 DEF IgnoreDatagram, TakeDatagram
<1>7. TakeQuestion => /\ mailbox' \in Seq(Questions \cup {Malformed}) /\ rx' \in Questions
                      /\ cache'.list \subseteq Entries /\ cache'.count \in Nat
  BY PurgeType DEF TakeQuestion, TakeDatagram
<1>8. CASE AnswerFromCache
  BY <1>7, <1>8 DEF AnswerFromCache
<1>9. CASE Forward
  BY <1>7, <1>9 DEF Forward
<1>10. CASE NoForwardingSocket
  BY <1>7, <1>10 DEF NoForwardingSocket
<1>11. ASSUME NEW m \in inflight, AnswerArrives(m) PROVE TypeOK'
  <2>1. m.answer \in Answers /\ pc = "upstream" /\ Insert(m.answer) /\ rx \in Questions
    BY <1>11 DEF AnswerArrives, PortInv
  <2>2. \A d \in Answers \cup {NoData} : NewEntry(m.answer, d) \in Entries
    BY <2>1, ExpiryFact DEF NewEntry, Entries
  <2>3. cache'.list \subseteq Entries /\ cache'.count \in Nat
    BY <2>1, <2>2, InsertFact
  <2> QED
    BY <1>11, <2>3 DEF AnswerArrives
<1>12. CASE AnswerServfail
  BY <1>12 DEF AnswerServfail
<1>13. CASE UNCHANGED vars
  BY <1>13 DEF vars
<1> QED
  BY <1>1, <1>2, <1>3, <1>4, <1>5, <1>6, <1>8, <1>9, <1>10, <1>11, <1>12, <1>13
  DEF Next, Server, Surroundings

\* A purge keeps what is known of the entries.
LEMMA PurgeStep ==
    ASSUME TypeOK, CacheInv, EntryInv, TakeQuestion
    PROVE  CacheInv' /\ cache'.list \subseteq cache.list /\ rx' \in Questions
<1>1. cache' = Purge(cache, uptime) /\ rx' \in Questions
  BY DEF TakeQuestion, TakeDatagram, TypeOK
<1>2. /\ Counted(cache') /\ cache'.list \subseteq cache.list
      /\ cache'.count <= cache.count /\ cache'.count \in Nat
  BY <1>1, PurgeFact DEF CacheInv
<1> QED
  BY <1>1, <1>2, MaxEntriesAssumption DEF CacheInv, UniqueKeys, TypeOK

LEMMA IInvStep == ASSUME TypeOK, IInv, [Next]_vars PROVE IInv'
<1> USE DEF IInv, serverVars, upstream
<1>1. ASSUME UNCHANGED <<cache, serverVars, upstream, out>> PROVE IInv'
  BY <1>1 DEF CacheInv, EntryInv, PortInv, OutInv, AnswersItsQuestion, ServedWhileLive
<1>2. ASSUME NEW d \in Questions \cup {Malformed}, ClientSends(d) PROVE IInv'
  BY <1>1, <1>2 DEF ClientSends
<1>3. ASSUME NEW m \in asked, NEW a \in Answers, UpstreamAnswers(m, a) PROVE IInv'
  BY <1>3 DEF UpstreamAnswers, CacheInv, EntryInv, PortInv, OutInv, AnswersItsQuestion, ServedWhileLive
<1>4. CASE NetStateChanges \/ Tick \/ IgnoreDatagram \/ UNCHANGED vars
  BY <1>1, <1>4 DEF NetStateChanges, Tick, IgnoreDatagram, vars
<1>5. CASE StartServing \/ StopServing
  BY <1>5 DEF StartServing, StopServing, CacheInv, EntryInv, PortInv, OutInv, AnswersItsQuestion,
     ServedWhileLive
<1>6. CASE AnswerFromCache
  <2>1. CacheInv' /\ cache'.list \subseteq cache.list /\ pc = "recv"
        /\ UNCHANGED <<pc, port, asked, inflight>>
    BY <1>6, PurgeStep DEF AnswerFromCache, TakeQuestion, TakeDatagram
  <2>2. EntryInv' /\ PortInv'
    BY <2>1 DEF EntryInv, PortInv
  <2>3. PICK e \in Hits : out' = Reply("cached", e.data, e.got)
    BY <1>6 DEF AnswerFromCache
  <2>4. e \in cache.list /\ e.key = rx' /\ Live(e, uptime) /\ e.data # NoData
    BY <2>1, <2>3 DEF Hits, Lookup
  <2>5. e \in Entries /\ e.data \in Answers /\ uptime \in Nat
    BY <2>4 DEF TypeOK, Entries
  <2>6. e.data.q = rx' /\ uptime < e.got + ParsedTtl(e.data)
    BY <2>4, <2>5, TtlType, ModulusAssumption DEF EntryInv, Live, Entries
  <2>7. OutInv'
    BY <2>3, <2>6 DEF OutInv, AnswersItsQuestion, ServedWhileLive, Reply, ParsedTtl
  <2> QED
    BY <2>1, <2>2, <2>7
<1>7. CASE Forward
  <2>1. CacheInv' /\ cache'.list \subseteq cache.list /\ rx' \in Questions
        /\ pc' = "upstream" /\ port' = port + 1 /\ UNCHANGED <<inflight, out>>
        /\ asked' = asked \cup {[port |-> port + 1, q |-> rx']}
    BY <1>7, PurgeStep DEF Forward
  <2>2. EntryInv'
    BY <2>1 DEF EntryInv, TypeOK, Entries, ParsedTtl
  <2>3. PortInv'
    BY <2>1 DEF PortInv, TypeOK
  <2> QED
    BY <2>1, <2>2, <2>3 DEF OutInv, AnswersItsQuestion, ServedWhileLive, ParsedTtl
<1>8. CASE NoForwardingSocket
  <2>1. CacheInv' /\ cache'.list \subseteq cache.list /\ pc = "recv"
        /\ UNCHANGED <<pc, port, asked, inflight, out>>
    BY <1>8, PurgeStep DEF NoForwardingSocket, TakeQuestion, TakeDatagram
  <2> QED
    BY <2>1 DEF EntryInv, PortInv, OutInv, AnswersItsQuestion, ServedWhileLive, ParsedTtl
<1>9. ASSUME NEW m \in inflight, AnswerArrives(m) PROVE IInv'
  <2>1. /\ m.answer \in Answers /\ m.answer.q = rx /\ rx \in Questions
        /\ pc = "upstream" /\ Insert(m.answer) /\ pc' = "recv"
        /\ UNCHANGED <<uptime, rx, port, asked>> /\ inflight' \subseteq inflight
        /\ out' = Reply("upstream", m.answer, uptime)
    BY <1>9 DEF AnswerArrives, FromMyPort, PortInv, TypeOK
  <2>2. /\ CacheInv'
        /\ \A e \in cache'.list :
              e \in cache.list \/ e = NewEntry(m.answer, m.answer) \/ e = NewEntry(m.answer, NoData)
    BY <2>1, InsertFact DEF CacheInv
  <2>3. \A d \in {m.answer, NoData} :
            LET e == NewEntry(m.answer, d)
            IN  /\ e.seq = port /\ e.data = d /\ e.key = rx
                /\ e.expiry <= e.got + ParsedTtl(m.answer)
    BY <2>1, ExpiryFact DEF NewEntry, TypeOK
  <2>4. EntryInv'
    BY <2>1, <2>2, <2>3 DEF EntryInv, TypeOK, Entries, ParsedTtl
  <2>5. PortInv'
    BY <2>1 DEF PortInv
  <2>6. OutInv'
    BY <2>1 DEF OutInv, AnswersItsQuestion, ServedWhileLive, Reply
  <2> QED
    BY <2>2, <2>4, <2>5, <2>6
<1>10. CASE AnswerServfail
  <2>1. /\ pc' = "recv" /\ UNCHANGED <<cache, rx, port, asked, inflight>>
        /\ out'.kind = "servfail"
    BY <1>10 DEF AnswerServfail, Reply
  <2> QED
    BY <2>1 DEF CacheInv, EntryInv, PortInv, OutInv, AnswersItsQuestion, ServedWhileLive, ParsedTtl
<1> QED
  BY <1>2, <1>3, <1>4, <1>5, <1>6, <1>7, <1>8, <1>9, <1>10 DEF Next, Server, Surroundings

LEMMA InitFact == Init => TypeOK /\ IInv
<1> SUFFICES ASSUME Init PROVE TypeOK /\ IInv
  OBVIOUS
<1>1. cache.list = {} /\ cache.count = 0
  BY DEF Init, EmptyCache
<1>2. CacheInv
  BY <1>1, FS_EmptySet, MaxEntriesAssumption DEF CacheInv, Counted, UniqueKeys
<1>3. EntryInv /\ PortInv /\ OutInv
  BY <1>1 DEF Init, EntryInv, PortInv, OutInv, AnswersItsQuestion, ServedWhileLive
<1>4. TypeOK
  BY <1>1 DEF Init, TypeOK
<1> QED
  BY <1>2, <1>3, <1>4 DEF IInv

LEMMA Inductive == Spec => [](TypeOK /\ IInv)
<1>1. TypeOK /\ IInv /\ [Next]_vars => (TypeOK /\ IInv)'
  BY TypeStep, IInvStep DEF IInv
<1> QED
  BY <1>1, InitFact, PTL DEF Spec

-----------------------------------------------------------------------------
\* The type invariant of DnsServer.
THEOREM TypeCorrect == Spec => []TypeOK
  BY Inductive, PTL

\* cache_insert, cache_purge and cache_lookup keep s_cache_count the length of
\* the list, at most MAX_CACHE_ENTRIES, with at most one entry per question,
\* also after a failed malloc.
THEOREM CacheSoundTheorem == Spec => []CacheSound
<1>1. IInv => CacheSound
  BY DEF IInv, CacheInv, Counted, UniqueKeys, CacheSound, CacheBounded, OneEntryPerKey
<1> QED
  BY <1>1, Inductive, PTL

\* No late upstream answer reaches the client of another question, neither at
\* once nor through the cache.
THEOREM AnswerTheorem == Spec => []AnswersItsQuestion
<1>1. IInv => AnswersItsQuestion
  BY DEF IInv, OutInv
<1> QED
  BY <1>1, Inductive, PTL

\* The cache serves an answer no longer than the TTL read for it, wrap-around
\* included.
THEOREM FreshTheorem == Spec => []ServedWhileLive
<1>1. IInv => ServedWhileLive
  BY DEF IInv, OutInv
<1> QED
  BY <1>1, Inductive, PTL
=============================================================================
