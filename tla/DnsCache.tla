------------------------------ MODULE DnsCache ------------------------------
(***************************************************************************)
(* The answer cache of dns_server.c: a linked list of entries behind       *)
(* s_cache and the counter s_cache_count.                                  *)
(*                                                                         *)
(* A cache is a record [list, count].  The list is the set of its entries, *)
(* whose field "seq" gives the order: cache_insert links a new entry at    *)
(* the head, so the head is the entry with the largest seq.  An entry's    *)
(* key stands for the pair (qname, qtype), qname without its case.  Its    *)
(* data is NoData when the second malloc of cache_insert failed.           *)
(***************************************************************************)
EXTENDS Naturals, FiniteSets

CONSTANTS
    MaxEntries,   \* MAX_CACHE_ENTRIES
    Modulus       \* uint32_t arithmetic wraps here (2^32)

ASSUME MaxEntriesAssumption == MaxEntries \in Nat \ {0}
ASSUME ModulusAssumption == Modulus \in Nat \ {0}

EmptyCache == [list |-> {}, count |-> 0]

\* Mutant: an entry lives through its last second.
LiveInclusive(e, now) == e.expiry >= now
Live(e, now) == e.expiry > now

\* Unlink and free the entries of D, each with its s_cache_count--.
Drop(C, D) == [list |-> C.list \ D, count |-> C.count - Cardinality(D)]

\* cache_purge.
Purge(C, now) == Drop(C, {e \in C.list : ~Live(e, now)})

\* The first entry for k from the head, as a set of at most one entry.
First(C, k) == {e \in C.list : e.key = k /\ \A f \in C.list : f.key = k => f.seq <= e.seq}

\* Mutant: the old entry stays.
RemoveNothing(C, k) == C

\* "Remove existing entry for same qname/qtype".
Remove(C, k) == Drop(C, First(C, k))

\* Unlink heads until fewer than MaxEntries are counted: an entry is unlinked
\* unless enough newer ones are.
Newer(C, e) == {f \in C.list : f.seq > e.seq}
Evict(C) == Drop(C, {e \in C.list : Cardinality(Newer(C, e)) + MaxEntries <= C.count})

Link(C, e) == [list |-> C.list \cup {e}, count |-> C.count + 1]

\* What cache_insert has done when it comes to its first malloc.
MakeRoom(C, k, now) == Evict(Remove(Purge(C, now), k))

\* uptime_s() + ttl_sec.  Mutant: a sum wider than uint32_t.
ExpiryWide(now, ttl) == now + ttl
Expiry(now, ttl) == (now + ttl) % Modulus

\* What cache_lookup returns after its cache_purge, as a set of at most one
\* entry.
Lookup(C, k, now) ==
    LET match == {e \in C.list : e.key = k /\ Live(e, now)}
    IN {e \in match : \A f \in match : f.seq <= e.seq}
=============================================================================
